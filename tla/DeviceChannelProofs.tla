------------------------ MODULE DeviceChannelProofs ------------------------
(* Proofs about DeviceChannel, for every number of threads, devices, units, *)
(* calls and order numbers.                                                 *)
EXTENDS DeviceChannel, TLAPS

\* A thread runs in one of the two processes.
LEMMA ProcType == \A t \in Threads : Proc(t) \in Procs
BY DEF Proc, Procs

-----------------------------------------------------------------------------

\* The start is well typed.
LEMMA InitType == Init => TypeOK
BY ChannelAssumption
DEF Init, TypeOK, ThreadTypes, MemoryTypes, SocketTypes, Threads, Endpoints, Procs, AllKinds, Locations, Unit

\* What Return assigns has the right type.
LEMMA ReturnType ==
    ASSUME TypeOK, NEW t \in Threads, NEW r \in 0..Chunks, Return(t, r)
    PROVE  /\ pc' \in [Threads -> Locations]
           /\ sendMutex' \in [Procs -> [Endpoints -> Threads \cup {None}]]
           /\ reported' \in [Procs -> SUBSET [id : 1..MaxOrderId, r : 0..Chunks]]
           /\ orderId' \in [Threads -> 0..MaxOrderId]
           /\ sent' \in [Threads -> 0..Chunks]
<1> USE ChannelAssumption, ProcType
    DEF TypeOK, ThreadTypes, MemoryTypes, SocketTypes
<1>1. pc' \in [Threads -> Locations]
  BY DEF Return, Goto, Locations
<1>2. sendMutex' \in [Procs -> [Endpoints -> Threads \cup {None}]]
  BY DEF Return
<1>3. reported' \in [Procs -> SUBSET [id : 1..MaxOrderId, r : 0..Chunks]]
  <2>1. CASE orderId[t] = 0
    BY <2>1 DEF Return
  <2>2. CASE orderId[t] # 0
    <3>1. [id |-> orderId[t], r |-> r] \in [id : 1..MaxOrderId, r : 0..Chunks]
      BY <2>2
    <3>2. QED
      BY <2>2, <3>1 DEF Return
  <2>3. QED
    BY <2>1, <2>2
<1>4. orderId' \in [Threads -> 0..MaxOrderId] /\ sent' \in [Threads -> 0..Chunks]
  BY DEF Return
<1>5. QED
  BY <1>1, <1>2, <1>3, <1>4

\* What Put assigns has the right type.
LEMMA PutType ==
    ASSUME TypeOK, NEW t \in Threads, NEW u \in Unit, Put(t, u)
    PROVE  wire' \in [Procs -> [Endpoints -> Seq(Unit)]]
<1> DEFINE c == conn[Proc(t)][dev[t]]
<1>1. wire' = [wire EXCEPT ![c][dev[t]] = Append(@, u)]
  BY DEF Put
<1>2. dev[t] \in Endpoints
  BY DEF TypeOK, ThreadTypes, MemoryTypes, SocketTypes
<1>3. CASE c \in Procs
  <2>1. wire[c][dev[t]] \in Seq(Unit)
    BY <1>2, <1>3 DEF TypeOK, ThreadTypes, MemoryTypes, SocketTypes
  <2>2. Append(wire[c][dev[t]], u) \in Seq(Unit)
    BY <2>1
  <2>3. QED
    BY <1>1, <1>2, <1>3, <2>2 DEF TypeOK, ThreadTypes, MemoryTypes, SocketTypes
<1>4. CASE c \notin Procs
  BY <1>1, <1>4 DEF TypeOK, ThreadTypes, MemoryTypes, SocketTypes
<1>5. QED
  BY <1>3, <1>4

\* Every step of every thread, of the tool and of the child keeps the types.
LEMMA StepType == TypeOK /\ [Next]_vars => TypeOK'
<1> SUFFICES ASSUME TypeOK, [Next]_vars PROVE TypeOK'
  OBVIOUS
<1> USE ChannelAssumption, ProcType
    DEF TypeOK, ThreadTypes, MemoryTypes, SocketTypes, Goto, threadVars, memoryVars, socketVars
<1>1. ASSUME NEW t \in Threads, Call(t) PROVE TypeOK'
  <2>1. PICK k \in Kinds, e \in Endpoints :
          /\ kind' = [kind EXCEPT ![t] = k]
          /\ dev' = [dev EXCEPT ![t] = e]
          /\ \E l \in {"text", "getInstance", "enter"} : pc' = [pc EXCEPT ![t] = l]
    BY <1>1 DEF Call
  <2>2. pc' \in [Threads -> Locations]
    BY <2>1 DEF Locations
  <2>3. kind' \in [Threads -> AllKinds] /\ dev' \in [Threads -> Endpoints]
    BY <2>1
  <2>4. calls' \in 0..MaxCalls
    BY <1>1 DEF Call
  <2>5. QED
    BY <1>1, <2>2, <2>3, <2>4 DEF Call
<1>2. ASSUME NEW t \in Threads, GetInstance(t) PROVE TypeOK'
  BY <1>2 DEF GetInstance, CheckProcessOwner, OwnerOf, Locations
<1>3. ASSUME NEW t \in Threads, LockDevices(t) PROVE TypeOK'
  BY <1>3 DEF LockDevices, Locations
<1>4. ASSUME NEW t \in Threads, FindDevice(t) PROVE TypeOK'
  <2>1. pc' \in [Threads -> Locations]
    BY <1>4 DEF FindDevice, Locations
  <2>2. CASE conn[Proc(t)][dev[t]] # None
    BY <1>4, <2>1, <2>2 DEF FindDevice
  <2>3. CASE conn[Proc(t)][dev[t]] = None
    <3>1. PICK s \in {"up", "down"} : link' = [link EXCEPT ![Proc(t)][dev[t]] = s]
      BY <1>4, <2>3 DEF FindDevice
    <3>2. link' \in [Procs -> [Endpoints -> {"none", "up", "down"}]]
      BY <3>1
    <3>3. conn' = [conn EXCEPT ![Proc(t)][dev[t]] = Proc(t)]
      BY <1>4, <2>3 DEF FindDevice
    <3>4. conn' \in [Procs -> [Endpoints -> Procs \cup {None}]]
      BY <3>3
    <3>5. QED
      BY <1>4, <2>1, <3>2, <3>4 DEF FindDevice
  <2>4. QED
    BY <2>2, <2>3
<1>5. ASSUME NEW t \in Threads, Enter(t) PROVE TypeOK'
  BY <1>5 DEF Enter, CheckProcessOwner, OwnerOf, Locations
<1>6. ASSUME NEW t \in Threads, LockSend(t) PROVE TypeOK'
  BY <1>6 DEF LockSend, Locations
<1>7. ASSUME NEW t \in Threads, ReserveLoad(t) PROVE TypeOK'
  BY <1>7 DEF ReserveLoad, Locations
<1>8. ASSUME NEW t \in Threads, ReserveCas(t) PROVE TypeOK'
  <2>1. CASE next[t] \in {0, MaxOrderId}
    BY <1>8, <2>1, 0 \in 0..Chunks, ReturnType DEF ReserveCas
  <2>2. CASE next[t] \notin {0, MaxOrderId}
    <3>1. next[t] + 1 \in 1..MaxOrderId
      BY <2>2
    <3>2. CASE next[t] = nextOrderId[Proc(t)]
      <4>1. /\ nextOrderId' = [nextOrderId EXCEPT ![Proc(t)] = next[t] + 1]
            /\ orderId' = [orderId EXCEPT ![t] = next[t]]
            /\ \E l \in {"memfd", "mux"} : pc' = [pc EXCEPT ![t] = l]
            /\ UNCHANGED <<next, sent, sendMutex, reported>>
        BY <1>8, <2>2, <3>2 DEF ReserveCas
      <4>2. pc' \in [Threads -> Locations]
        BY <4>1 DEF Locations
      <4>3. QED
        BY <1>8, <3>1, <4>1, <4>2 DEF ReserveCas
    <3>3. CASE next[t] # nextOrderId[Proc(t)]
      <4>1. /\ next' = [next EXCEPT ![t] = nextOrderId[Proc(t)]]
            /\ UNCHANGED <<pc, orderId, sent, nextOrderId, sendMutex, reported>>
        BY <1>8, <2>2, <3>3 DEF ReserveCas
      <4>2. QED
        BY <1>8, <4>1 DEF ReserveCas
    <3>4. QED
      BY <3>2, <3>3
  <2>3. QED
    BY <2>1, <2>2
<1>9. ASSUME NEW t \in Threads, Memfd(t) PROVE TypeOK'
  BY <1>9 DEF Memfd, Locations
<1>10. ASSUME NEW t \in Threads, TextStart(t) PROVE TypeOK'
  <2>1. pc' \in [Threads -> Locations]
    BY <1>10 DEF TextStart, Locations
  <2>2. CASE conn[Proc(t)][General] # None
    BY <1>10, <2>1, <2>2 DEF TextStart
  <2>3. CASE conn[Proc(t)][General] = None
    <3>1. PICK s \in {"up", "down"} : link' = [link EXCEPT ![Proc(t)][General] = s]
      BY <1>10, <2>3 DEF TextStart
    <3>2. link' \in [Procs -> [Endpoints -> {"none", "up", "down"}]]
      BY <3>1
    <3>3. conn' = [conn EXCEPT ![Proc(t)][General] = Proc(t)]
      BY <1>10, <2>3 DEF TextStart
    <3>4. conn' \in [Procs -> [Endpoints -> Procs \cup {None}]]
      BY <3>3
    <3>5. QED
      BY <1>10, <2>1, <3>2, <3>4 DEF TextStart
  <2>4. QED
    BY <2>2, <2>3
<1>11. ASSUME NEW t \in Threads, TakeMux(t) PROVE TypeOK'
  BY <1>11 DEF TakeMux, Locations
<1>12. ASSUME NEW t \in Threads, WriteUnit(t) PROVE TypeOK'
  <2> DEFINE u == [id |-> orderId[t], idx |-> sent[t] + 1, fd |-> FALSE, by |-> Proc(t)]
  <2>1. u \in Unit
    BY <1>12 DEF WriteUnit, Unit
  <2>2. wire' \in [Procs -> [Endpoints -> Seq(Unit)]]
    BY <1>12, <2>1, PutType DEF WriteUnit
  <2>3. mux' \in [Procs -> [Endpoints -> Threads \cup {None}]]
    BY <1>12 DEF WriteUnit, DropMux
  <2>4. CASE sent[t] + 1 < Chunks
    <3>1. /\ sent' = [sent EXCEPT ![t] = @ + 1]
          /\ pc' = [pc EXCEPT ![t] = "mux"]
          /\ UNCHANGED <<orderId, sendMutex, reported>>
      BY <1>12, <2>4 DEF WriteUnit
    <3>2. sent' \in [Threads -> 0..Chunks] /\ pc' \in [Threads -> Locations]
      BY <2>4, <3>1 DEF Locations
    <3>3. QED
      BY <1>12, <2>2, <2>3, <3>1, <3>2 DEF WriteUnit
  <2>5. CASE sent[t] + 1 = Chunks
    <3>1. Return(t, Chunks)
      BY <1>12, <2>5 DEF WriteUnit
    <3>2. QED
      BY <1>12, <2>2, <2>3, <3>1, Chunks \in 0..Chunks, ReturnType DEF WriteUnit
  <2>6. QED
    BY <1>12, <2>4, <2>5 DEF WriteUnit
<1>13. ASSUME NEW t \in Threads, WriteFails(t) PROVE TypeOK'
  BY <1>13, 0 \in 0..Chunks, ReturnType DEF WriteFails, DropMux
<1>14. ASSUME NEW t \in Threads, SendFd(t) PROVE TypeOK'
  <2> DEFINE u == [id |-> orderId[t], idx |-> 1, fd |-> TRUE, by |-> Proc(t)]
  <2>1. u \in Unit
    BY DEF Unit
  <2>2. wire' \in [Procs -> [Endpoints -> Seq(Unit)]]
    BY <1>14, <2>1, PutType DEF SendFd
  <2>3. QED
    BY <1>14, <2>2, 1 \in 0..Chunks, ReturnType DEF SendFd, DropMux
<1>15. ASSUME NEW t \in Threads, SendFdFails(t) PROVE TypeOK'
  BY <1>15 DEF SendFdFails, DropMux, Locations
<1>16. ASSUME NEW p \in Procs, NEW e \in Endpoints, PeerCloses(p, e) PROVE TypeOK'
  BY <1>16 DEF PeerCloses
<1>17. ASSUME NEW t \in HostThreads, Fork(t) PROVE TypeOK'
  BY <1>17 DEF Fork, Locations, Procs, Threads
<1>18. CASE Exec
  BY <1>18, 1 \in 1..MaxOrderId DEF Exec
<1>19. CASE UNCHANGED vars
  BY <1>19 DEF vars
<1>20. QED
  BY <1>1, <1>2, <1>3, <1>4, <1>5, <1>6, <1>7, <1>8, <1>9, <1>10, <1>11, <1>12,
     <1>13, <1>14, <1>15, <1>16, <1>17, <1>18, <1>19 DEF Next, Running

\* Type correctness of the whole sending half.
THEOREM TypeCorrect == Spec => []TypeOK
BY InitType, StepType, PTL DEF Spec

-----------------------------------------------------------------------------
(* The control part of the invariant, action by action.                    *)

\* The start satisfies the inductive invariant.
LEMMA InitChannel == Init => ChannelInv
<1> SUFFICES ASSUME Init PROVE ChannelInv
  OBVIOUS
<1>1. TypeOK
  BY InitType
<1>2. ControlInv
  <2>1. TextIsGeneral /\ UnbornIsNobody
    BY DEF Init, TextIsGeneral, UnbornIsNobody, Procs
  <2>2. ConnOwner
    BY DEF Init, ConnOwner, Endpoints
  <2>3. CallStages
    BY DEF Init, CallStages, InSend, HasNumber
  <2>4. NumbersHeld
    BY ChannelAssumption DEF Init, NumbersHeld, HasNumber
  <2>5. QED
    BY <2>1, <2>2, <2>3, <2>4 DEF ControlInv
<1>3. WireInv
  BY ChannelAssumption DEF Init, WireInv, SilentUnlessOwner, NumbersBelowSource,
     NumbersDistinct, NumberInFlight, PacketsOrderedAndWhole, OrderIdsUnique,
     DeviceLinksPrivate, Endpoints
<1>4. QED
  BY <1>1, <1>2, <1>3 DEF ChannelInv

\* A call keeps its kind and its connection until it returns.
LEMMA StepTextIsGeneral ==
    ThreadTypes /\ TextIsGeneral /\ [Next]_vars => TextIsGeneral'
<1> SUFFICES ASSUME ThreadTypes, TextIsGeneral, [Next]_vars PROVE TextIsGeneral'
  OBVIOUS
<1> USE ChannelAssumption DEF ThreadTypes, TextIsGeneral
<1>1. ASSUME NEW t \in Threads, Call(t) PROVE TextIsGeneral'
  BY <1>1 DEF Call
<1>2. ASSUME NEW t \in Threads, Running(t) PROVE UNCHANGED <<kind, dev>>
  BY <1>2 DEF Running, GetInstance, LockDevices, FindDevice, Enter, LockSend,
     ReserveLoad, ReserveCas, Memfd, TextStart, TakeMux, WriteUnit, WriteFails,
     SendFd, SendFdFails
<1>3. ASSUME ~ \E t \in Threads : Call(t) \/ Running(t) PROVE UNCHANGED <<kind, dev>>
  BY <1>3 DEF Next, PeerCloses, Fork, Exec, vars, threadVars
<1>4. QED
  BY <1>1, <1>2, <1>3

\* Only GetInstance past its owner check fills the table of device connections.
LEMMA StepConnOwner ==
    ThreadTypes /\ MemoryTypes /\ CallStages /\ ConnOwner /\ [Next]_vars
        => ConnOwner'
<1> SUFFICES ASSUME ThreadTypes, MemoryTypes, CallStages, ConnOwner, [Next]_vars
             PROVE  ConnOwner'
  OBVIOUS
<1> USE ChannelAssumption, ProcType DEF ThreadTypes, MemoryTypes, ConnOwner
<1>1. ASSUME NEW t \in Threads, GetInstance(t) \/ Enter(t) PROVE ConnOwner'
  BY <1>1 DEF GetInstance, Enter, CheckProcessOwner, OwnerOf
<1>2. ASSUME NEW t \in Threads, FindDevice(t) PROVE ConnOwner'
  <2>1. \A q \in Procs, e \in Endpoints :
          \/ conn'[q][e] = conn[q][e]
          \/ q = Proc(t) /\ e = dev[t] /\ conn[q][e] = None /\ conn'[q][e] = Proc(t)
    <3>1. CASE conn[Proc(t)][dev[t]] # None
      BY <1>2, <3>1 DEF FindDevice
    <3>2. CASE conn[Proc(t)][dev[t]] = None
      <4>1. conn' = [conn EXCEPT ![Proc(t)][dev[t]] = Proc(t)]
        BY <1>2, <3>2 DEF FindDevice
      <4>2. QED
        BY <3>2, <4>1
    <3>3. QED
      BY <3>1, <3>2
  <2>2. ownerPid[Proc(t)] = Proc(t) /\ ownerPid' = ownerPid
    BY <1>2 DEF FindDevice, CallStages
  <2>3. QED
    BY SMTT(30), <2>1, <2>2 DEF Endpoints
<1>3. ASSUME NEW t \in Threads, TextStart(t) PROVE ConnOwner'
  <2>1. \A q \in Procs, e \in Endpoints :
          \/ conn'[q][e] = conn[q][e]
          \/ q = Proc(t) /\ e = General /\ conn[q][e] = None /\ conn'[q][e] = Proc(t)
    <3>1. CASE conn[Proc(t)][General] # None
      BY <1>3, <3>1 DEF TextStart
    <3>2. CASE conn[Proc(t)][General] = None
      <4>1. conn' = [conn EXCEPT ![Proc(t)][General] = Proc(t)]
        BY <1>3, <3>2 DEF TextStart
      <4>2. QED
        BY <3>2, <4>1
    <3>3. QED
      BY <3>1, <3>2
  <2>2. ownerPid' = ownerPid
    BY <1>3 DEF TextStart
  <2>3. QED
    BY <2>1, <2>2 DEF Endpoints
<1>4. ASSUME NEW t \in HostThreads, Fork(t) PROVE ConnOwner'
  <2>1. /\ conn'["host"] = conn["host"] /\ conn'["child"] = conn["host"]
        /\ ownerPid'["host"] = ownerPid["host"] /\ ownerPid'["child"] = ownerPid["host"]
    BY <1>4 DEF Fork, Procs
  <2>2. QED
    BY <2>1 DEF Procs
<1>5. CASE Exec
  <2>1. /\ conn'["host"] = conn["host"] /\ ownerPid'["host"] = ownerPid["host"]
        /\ \A d \in Devices : conn'["child"][d] = None
    BY <1>5 DEF Exec, Procs, Endpoints
  <2>2. QED
    BY <2>1 DEF Procs
<1>6. ASSUME NEW t \in Threads,
             \/ Call(t) \/ LockDevices(t) \/ LockSend(t) \/ ReserveLoad(t)
             \/ ReserveCas(t) \/ Memfd(t) \/ TakeMux(t) \/ WriteUnit(t)
             \/ WriteFails(t) \/ SendFd(t) \/ SendFdFails(t)
      PROVE  UNCHANGED <<conn, ownerPid>>
  BY <1>6 DEF Call, LockDevices, LockSend, ReserveLoad, ReserveCas, Memfd, TakeMux,
     WriteUnit, WriteFails, SendFd, SendFdFails, memoryVars
<1>7. ASSUME NEW p \in Procs, NEW e \in Endpoints, PeerCloses(p, e)
      PROVE  UNCHANGED <<conn, ownerPid>>
  BY <1>7 DEF PeerCloses, memoryVars
<1>8. CASE UNCHANGED vars
  BY <1>8 DEF vars
<1>9. QED
  BY <1>1, <1>2, <1>3, <1>4, <1>5, <1>6, <1>7, <1>8 DEF Next, Running

\* A child that was not forked owns nothing.
LEMMA StepUnborn ==
    ThreadTypes /\ MemoryTypes /\ UnbornIsNobody /\ [Next]_vars => UnbornIsNobody'
<1> SUFFICES ASSUME ThreadTypes, MemoryTypes, UnbornIsNobody, [Next]_vars
             PROVE  UnbornIsNobody'
  OBVIOUS
<1> USE ChannelAssumption, ProcType
    DEF ThreadTypes, MemoryTypes, UnbornIsNobody, Goto
<1>1. ASSUME NEW t \in Threads, GetInstance(t) \/ Enter(t) PROVE UnbornIsNobody'
  <2>1. CASE t = ChildThread
    BY <1>1, <2>1 DEF GetInstance, Enter, CheckProcessOwner
  <2>2. CASE t # ChildThread
    <3>1. ownerPid'["child"] = ownerPid["child"]
      BY <1>1, <2>2 DEF GetInstance, Enter, CheckProcessOwner, Proc, Procs
    <3>2. pc'[ChildThread] = pc[ChildThread]
      BY <1>1, <2>2 DEF GetInstance, Enter, CheckProcessOwner, Threads
    <3>3. QED
      BY <3>1, <3>2
  <2>3. QED
    BY <2>1, <2>2
<1>2. ASSUME NEW t \in Threads,
             \/ Call(t) \/ LockDevices(t) \/ FindDevice(t) \/ LockSend(t)
             \/ ReserveLoad(t) \/ ReserveCas(t) \/ Memfd(t) \/ TextStart(t)
             \/ TakeMux(t) \/ WriteUnit(t) \/ WriteFails(t) \/ SendFd(t)
             \/ SendFdFails(t)
      PROVE  UnbornIsNobody'
  <2>1. ownerPid' = ownerPid
    BY <1>2 DEF Call, LockDevices, FindDevice, LockSend, ReserveLoad, ReserveCas,
       Memfd, TextStart, TakeMux, WriteUnit, WriteFails, SendFd, SendFdFails,
       memoryVars
  <2>2. \E l \in Locations \ {"unborn"} : pc' = [pc EXCEPT ![t] = l] \/ pc' = pc
    BY <1>2 DEF Call, LockDevices, FindDevice, LockSend, ReserveLoad, ReserveCas,
       Memfd, TextStart, TakeMux, WriteUnit, WriteFails, SendFd, SendFdFails,
       Return, Locations
  <2>3. QED
    BY <2>1, <2>2 DEF Threads
<1>3. ASSUME NEW p \in Procs, NEW e \in Endpoints, PeerCloses(p, e)
      PROVE  UnbornIsNobody'
  BY <1>3 DEF PeerCloses, memoryVars, threadVars
<1>4. ASSUME NEW t \in HostThreads, Fork(t) PROVE UnbornIsNobody'
  BY <1>4 DEF Fork, Threads
<1>5. CASE Exec
  BY <1>5 DEF Exec, Procs
<1>6. CASE UNCHANGED vars
  BY <1>6 DEF vars
<1>7. QED
  BY <1>1, <1>2, <1>3, <1>4, <1>5, <1>6 DEF Next, Running

\* A thread's stage survives a step of another thread that leaves its number and
\* its process's owner alone and loses no connection or lock it relies on.
StageOf(t) ==
    /\ pc[t] \in {"lockDevices", "find", "lockSend"} \/ InSend(t)
          => ownerPid[Proc(t)] = Proc(t)
    /\ pc[t] \in {"enter", "lockSend"} \/ InSend(t)
          => conn[Proc(t)][dev[t]] # None
    /\ InSend(t) => sendMutex[Proc(t)][dev[t]] = t
    /\ (pc[t] \in {"getInstance", "lockDevices", "find", "enter", "lockSend"}
       \/ InSend(t)) => dev[t] # General
    /\ pc[t] = "text" => dev[t] = General

\* What a thread knows at each place of a call stays true while others run.
LEMMA StepStages ==
    ThreadTypes /\ MemoryTypes /\ TextIsGeneral /\ CallStages /\ ConnOwner /\ [Next]_vars
        => CallStages'
<1> SUFFICES ASSUME ThreadTypes, MemoryTypes, TextIsGeneral, CallStages, ConnOwner,
                    [Next]_vars, NEW u \in Threads
             PROVE  StageOf(u)'
  BY DEF CallStages, StageOf
<1>0. StageOf(u)
  BY DEF CallStages, StageOf
<1> USE ChannelAssumption, ProcType
    DEF ThreadTypes, MemoryTypes, StageOf, InSend, HasNumber, Goto
<1>1. ASSUME NEW t \in Threads, Call(t) PROVE StageOf(u)'
  BY <1>0, <1>1 DEF Call, memoryVars
<1>2. ASSUME NEW t \in Threads, GetInstance(t) PROVE StageOf(u)'
  BY <1>0, <1>2 DEF GetInstance, CheckProcessOwner, OwnerOf, TextIsGeneral
<1>3. ASSUME NEW t \in Threads, LockDevices(t) PROVE StageOf(u)'
  BY <1>0, <1>3 DEF LockDevices
<1>4. ASSUME NEW t \in Threads, FindDevice(t) PROVE StageOf(u)'
  <2>1. \A q \in Procs, e \in Endpoints :
          \/ conn'[q][e] = conn[q][e]
          \/ q = Proc(t) /\ e = dev[t] /\ conn[q][e] = None /\ conn'[q][e] = Proc(t)
    <3>1. CASE conn[Proc(t)][dev[t]] # None
      BY <1>4, <3>1 DEF FindDevice
    <3>2. CASE conn[Proc(t)][dev[t]] = None
      <4>1. conn' = [conn EXCEPT ![Proc(t)][dev[t]] = Proc(t)]
        BY <1>4, <3>2 DEF FindDevice
      <4>2. QED
        BY <3>2, <4>1
    <3>3. QED
      BY <3>1, <3>2
  <2>2. /\ pc' = [pc EXCEPT ![t] = "enter"]
        /\ UNCHANGED <<dev, kind, ownerPid, sendMutex>>
    BY <1>4 DEF FindDevice
  <2>3. conn'[Proc(t)][dev[t]] # None
    <3>1. CASE conn[Proc(t)][dev[t]] # None
      BY <1>4, <3>1 DEF FindDevice
    <3>2. CASE conn[Proc(t)][dev[t]] = None
      <4>1. conn' = [conn EXCEPT ![Proc(t)][dev[t]] = Proc(t)]
        BY <1>4, <3>2 DEF FindDevice
      <4>2. QED
        BY <4>1
    <3>3. QED
      BY <3>1, <3>2
  <2>4. CASE u = t
    BY <1>0, <1>4, <2>2, <2>3, <2>4 DEF FindDevice
  <2>5. CASE u # t
    BY <1>0, <2>1, <2>2, <2>5
  <2>6. QED
    BY <2>4, <2>5
<1>5. ASSUME NEW t \in Threads, Enter(t) PROVE StageOf(u)'
  BY <1>0, <1>5 DEF Enter, CheckProcessOwner, OwnerOf
<1>6. ASSUME NEW t \in Threads, LockSend(t) PROVE StageOf(u)'
  <2>1. CASE u = t
    <3>1. sendMutex'[Proc(t)][dev[t]] = t
      BY <1>6 DEF LockSend
    <3>2. /\ pc[t] = "lockSend" /\ pc'[t] = "load"
          /\ UNCHANGED <<dev, kind, ownerPid, conn>>
      BY <1>6 DEF LockSend
    <3>3. QED
      BY <1>0, <2>1, <3>1, <3>2
  <2>2. CASE u # t
    <3>1. sendMutex[Proc(u)][dev[u]] = u => sendMutex'[Proc(u)][dev[u]] = u
      BY <1>6 DEF LockSend
    <3>2. QED
      BY <1>0, <1>6, <2>2, <3>1 DEF LockSend
  <2>3. QED
    BY <2>1, <2>2
<1>7. ASSUME NEW t \in Threads, ReserveLoad(t) PROVE StageOf(u)'
  BY <1>0, <1>7 DEF ReserveLoad, memoryVars
<1>8. ASSUME NEW t \in Threads, ReserveCas(t) PROVE StageOf(u)'
  BY <1>0, <1>8 DEF ReserveCas, Return
<1>9. ASSUME NEW t \in Threads, Memfd(t) PROVE StageOf(u)'
  BY <1>0, <1>9 DEF Memfd, memoryVars
<1>10. ASSUME NEW t \in Threads, TextStart(t) PROVE StageOf(u)'
  <2>1. \A q \in Procs, e \in Endpoints :
          \/ conn'[q][e] = conn[q][e]
          \/ q = Proc(t) /\ conn[q][e] = None /\ conn'[q][e] = Proc(t)
    <3>1. CASE conn[Proc(t)][General] # None
      BY <1>10, <3>1 DEF TextStart
    <3>2. CASE conn[Proc(t)][General] = None
      <4>1. conn' = [conn EXCEPT ![Proc(t)][General] = Proc(t)]
        BY <1>10, <3>2 DEF TextStart
      <4>2. QED
        BY <3>2, <4>1
    <3>3. QED
      BY <3>1, <3>2
  <2>2. /\ pc' = [pc EXCEPT ![t] = "mux"]
        /\ UNCHANGED <<dev, kind, ownerPid, sendMutex>>
        /\ kind[t] = "text"
    BY <1>10 DEF TextStart, TextIsGeneral, CallStages
  <2>3. CASE u = t
    BY <2>2, <2>3
  <2>4. CASE u # t
    BY <1>0, <2>1, <2>2, <2>4
  <2>5. QED
    BY <2>3, <2>4
<1>11. ASSUME NEW t \in Threads, TakeMux(t) PROVE StageOf(u)'
  BY <1>0, <1>11 DEF TakeMux
<1>12. ASSUME NEW t \in Threads, WriteUnit(t) PROVE StageOf(u)'
  <2>1. /\ \E l \in {"mux", "idle"} : pc' = [pc EXCEPT ![t] = l]
        /\ pc[t] = "write"
        /\ UNCHANGED <<dev, kind, ownerPid, conn>>
    BY <1>12 DEF WriteUnit, Return
  <2>2. CASE sent[t] + 1 < Chunks
    BY <1>0, <1>12, <2>1, <2>2 DEF WriteUnit
  <2>3. CASE sent[t] + 1 = Chunks
    <3>1. Return(t, Chunks)
      BY <1>12, <2>3 DEF WriteUnit
    <3>2. CASE u = t
      BY <2>1, <3>1, <3>2 DEF Return
    <3>3. CASE u # t
      <4>1. sendMutex[Proc(u)][dev[u]] = u => sendMutex'[Proc(u)][dev[u]] = u
        BY <3>1, <3>3 DEF Return
      <4>2. QED
        BY <1>0, <2>1, <3>3, <4>1
    <3>4. QED
      BY <3>2, <3>3
  <2>4. QED
    BY <1>12, <2>2, <2>3 DEF WriteUnit
<1>13. ASSUME NEW t \in Threads, WriteFails(t) PROVE StageOf(u)'
  BY <1>0, <1>13 DEF WriteFails, Return
<1>14. ASSUME NEW t \in Threads, SendFd(t) PROVE StageOf(u)'
  BY <1>0, <1>14 DEF SendFd, Return
<1>15. ASSUME NEW t \in Threads, SendFdFails(t) PROVE StageOf(u)'
  BY <1>0, <1>15 DEF SendFdFails
<1>16. ASSUME NEW p \in Procs, NEW e \in Endpoints, PeerCloses(p, e) PROVE StageOf(u)'
  BY <1>0, <1>16 DEF PeerCloses, memoryVars, threadVars
<1>17. ASSUME NEW t \in HostThreads, Fork(t) PROVE StageOf(u)'
  BY <1>0, <1>17 DEF Fork, Procs, Threads, Proc
<1>18. CASE Exec
  BY <1>0, <1>18 DEF Exec, Proc, Procs, threadVars
<1>19. CASE UNCHANGED vars
  BY <1>0, <1>19 DEF vars
<1>20. QED
  BY <1>1, <1>2, <1>3, <1>4, <1>5, <1>6, <1>7, <1>8, <1>9, <1>10, <1>11, <1>12,
     <1>13, <1>14, <1>15, <1>16, <1>17, <1>18, <1>19 DEF Next, Running

HeldBy(t) ==
    /\ HasNumber(t) <=> orderId[t] > 0
    /\ pc[t] \notin {"mux", "write"} => sent[t] = 0
    /\ pc[t] \in {"mux", "write"} => sent[t] < Chunks
    /\ orderId[t] > 0 => orderId[t] < nextOrderId[Proc(t)]

\* Numbers are held exactly inside a send, at every step.
LEMMA StepNumbersHeld ==
    ThreadTypes /\ MemoryTypes /\ TextIsGeneral /\ CallStages /\ NumbersHeld
        /\ [Next]_vars => NumbersHeld'
<1> SUFFICES ASSUME ThreadTypes, MemoryTypes, TextIsGeneral, CallStages, NumbersHeld,
                    [Next]_vars, NEW u \in Threads
             PROVE  HeldBy(u)'
  BY DEF NumbersHeld, HeldBy
<1>0. HeldBy(u)
  BY DEF NumbersHeld, HeldBy
<1> USE ChannelAssumption, ProcType
    DEF ThreadTypes, MemoryTypes, HeldBy, HasNumber, Goto
<1>1. ASSUME NEW t \in Threads, Call(t) PROVE HeldBy(u)'
  BY <1>0, <1>1 DEF Call, memoryVars
<1>2. ASSUME NEW t \in Threads, GetInstance(t) \/ Enter(t) PROVE HeldBy(u)'
  BY <1>0, <1>2 DEF GetInstance, Enter, CheckProcessOwner
<1>3. ASSUME NEW t \in Threads, LockDevices(t) \/ FindDevice(t) PROVE HeldBy(u)'
  BY <1>0, <1>3 DEF LockDevices, FindDevice
<1>4. ASSUME NEW t \in Threads, LockSend(t) \/ ReserveLoad(t) PROVE HeldBy(u)'
  BY <1>0, <1>4 DEF LockSend, ReserveLoad, memoryVars
<1>5. ASSUME NEW t \in Threads, ReserveCas(t) PROVE HeldBy(u)'
  <2>1. CASE next[t] \in {0, MaxOrderId}
    <3>1. /\ pc' = [pc EXCEPT ![t] = "idle"]
          /\ orderId' = [orderId EXCEPT ![t] = 0]
          /\ sent' = [sent EXCEPT ![t] = 0]
          /\ UNCHANGED <<kind, nextOrderId>>
      BY <1>5, <2>1 DEF ReserveCas, Return
    <3>2. QED
      BY <1>0, <3>1
  <2>2. CASE next[t] \notin {0, MaxOrderId} /\ next[t] = nextOrderId[Proc(t)]
    <3>1. /\ nextOrderId' = [nextOrderId EXCEPT ![Proc(t)] = next[t] + 1]
          /\ orderId' = [orderId EXCEPT ![t] = next[t]]
          /\ \E l \in {"memfd", "mux"} : pc' = [pc EXCEPT ![t] = l]
          /\ UNCHANGED <<sent, kind>>
          /\ pc[t] = "cas" /\ next[t] > 0
      BY <1>5, <2>2 DEF ReserveCas
    <3>2. CASE u = t
      <4>1. kind[t] # "text" /\ sent[t] = 0
        BY <3>1 DEF CallStages, InSend, TextIsGeneral, NumbersHeld
      <4>2. QED
        BY <3>1, <3>2, <4>1
    <3>3. CASE u # t
      BY <1>0, <2>2, <3>1, <3>3
    <3>4. QED
      BY <3>2, <3>3
  <2>3. CASE next[t] \notin {0, MaxOrderId} /\ next[t] # nextOrderId[Proc(t)]
    BY <1>0, <1>5, <2>3 DEF ReserveCas
  <2>4. QED
    BY <2>1, <2>2, <2>3
<1>6. ASSUME NEW t \in Threads, Memfd(t) \/ TakeMux(t) \/ SendFdFails(t) PROVE HeldBy(u)'
  <2>1. /\ \E l \in {"muxFd", "mux", "write", "sendmsg"} : pc' = [pc EXCEPT ![t] = l]
        /\ UNCHANGED <<kind, orderId, sent, nextOrderId>>
    BY <1>6 DEF Memfd, TakeMux, SendFdFails, memoryVars
  <2>2. CASE u = t
    <3>1. pc[t] \in {"memfd", "muxFd", "sendmsg"} => kind[t] # "text"
      BY DEF CallStages, InSend, TextIsGeneral
    <3>2. QED
      BY <1>0, <1>6, <2>1, <2>2, <3>1 DEF Memfd, TakeMux, SendFdFails
  <2>3. CASE u # t
    BY <1>0, <2>1, <2>3
  <2>4. QED
    BY <2>2, <2>3
<1>7. ASSUME NEW t \in Threads, TextStart(t) PROVE HeldBy(u)'
  <2>1. kind[t] = "text"
    BY <1>7 DEF TextStart, CallStages, TextIsGeneral
  <2>2. QED
    BY <1>0, <1>7, <2>1 DEF TextStart
<1>8. ASSUME NEW t \in Threads, WriteUnit(t) PROVE HeldBy(u)'
  <2>1. CASE sent[t] + 1 < Chunks
    BY <1>0, <1>8, <2>1 DEF WriteUnit
  <2>2. CASE sent[t] + 1 = Chunks
    <3>1. /\ pc' = [pc EXCEPT ![t] = "idle"]
          /\ orderId' = [orderId EXCEPT ![t] = 0]
          /\ sent' = [sent EXCEPT ![t] = 0]
          /\ UNCHANGED <<kind, nextOrderId>>
      BY <1>8, <2>2 DEF WriteUnit, Return
    <3>2. QED
      BY <1>0, <3>1
  <2>3. QED
    BY <1>8, <2>1, <2>2 DEF WriteUnit
<1>9. ASSUME NEW t \in Threads, WriteFails(t) \/ SendFd(t) PROVE HeldBy(u)'
  <2>1. /\ pc' = [pc EXCEPT ![t] = "idle"]
        /\ orderId' = [orderId EXCEPT ![t] = 0]
        /\ sent' = [sent EXCEPT ![t] = 0]
        /\ UNCHANGED <<kind, nextOrderId>>
    BY <1>9 DEF WriteFails, SendFd, Return
  <2>2. QED
    BY <1>0, <2>1
<1>10. ASSUME NEW p \in Procs, NEW e \in Endpoints, PeerCloses(p, e) PROVE HeldBy(u)'
  BY <1>0, <1>10 DEF PeerCloses, memoryVars, threadVars
<1>11. ASSUME NEW t \in HostThreads, Fork(t) PROVE HeldBy(u)'
  BY <1>0, <1>11 DEF Fork, Procs, Threads, Proc
<1>12. CASE Exec
  BY <1>0, <1>12 DEF Exec, Proc, Procs, threadVars
<1>13. CASE UNCHANGED vars
  BY <1>0, <1>13 DEF vars
<1>14. QED
  BY <1>1, <1>2, <1>3, <1>4, <1>5, <1>6, <1>7, <1>8, <1>9, <1>10, <1>11, <1>12, <1>13
  DEF Next, Running

\* The control part of the invariant is inductive by itself.
LEMMA StepControl == TypeOK /\ ControlInv /\ [Next]_vars => ControlInv'
BY StepTextIsGeneral, StepConnOwner, StepUnborn, StepStages, StepNumbersHeld
DEF TypeOK, ControlInv

-----------------------------------------------------------------------------
(* The wire part of the invariant.                                         *)

\* Steps that touch neither sockets nor numbers.
LEMMA WireFrame ==
    WireInv /\ UNCHANGED <<wire, nextOrderId, orderId, sent, ownerPid, dev>> => WireInv'
BY DEF WireInv, SilentUnlessOwner, NumbersBelowSource, NumbersDistinct, NumberInFlight,
   ElsewhereUnseen, LastUnitIsMine, PacketsOrderedAndWhole, OrderIdsUnique, DeviceLinksPrivate

\* A thread that has a number sends on a connection its own process opened.
LEMMA SenderFacts ==
    ASSUME TypeOK, ControlInv, NEW t \in Threads, orderId[t] > 0
    PROVE  /\ dev[t] \in Devices
           /\ conn[Proc(t)][dev[t]] = Proc(t)
           /\ ownerPid[Proc(t)] = Proc(t)
           /\ sendMutex[Proc(t)][dev[t]] = t
<1>1. InSend(t)
  BY DEF ControlInv, NumbersHeld, InSend
<1>2. dev[t] \in Devices
  BY <1>1 DEF TypeOK, ThreadTypes, Endpoints, ControlInv, CallStages
<1>3. QED
  BY <1>1, <1>2, ProcType DEF ControlInv, CallStages, ConnOwner

\* Two threads of one process that hold numbers are on different devices.
LEMMA OneSenderPerLink ==
    ASSUME TypeOK, ControlInv, NEW t \in Threads, NEW v \in Threads, t # v,
           orderId[t] > 0, orderId[v] > 0, Proc(t) = Proc(v)
    PROVE  dev[t] # dev[v]
BY SenderFacts

\* The wire parts that speak of units only, after unit x of thread t is appended.
LEMMA AppendUnit ==
    ASSUME TypeOK, ControlInv, WireInv, NEW t \in Threads, orderId[t] > 0,
           NEW x \in Unit, x.id = orderId[t], x.idx = sent[t] + 1, x.by = Proc(t),
           x.fd => sent[t] = 0, Put(t, x),
           UNCHANGED <<nextOrderId, ownerPid, dev>>
    PROVE  /\ SilentUnlessOwner'
           /\ NumbersBelowSource'
           /\ PacketsOrderedAndWhole'
           /\ OrderIdsUnique'
           /\ DeviceLinksPrivate'
           /\ \A q \in Procs, e \in Devices :
                 <<q, e>> # <<Proc(t), dev[t]>> => wire'[q][e] = wire[q][e]
           /\ wire'[Proc(t)][dev[t]] = Append(wire[Proc(t)][dev[t]], x)
<1> DEFINE p == Proc(t)
           d == dev[t]
           W == wire[p][d]
<1>1. p \in Procs /\ d \in Devices /\ conn[p][d] = p /\ ownerPid[p] = p
  BY SenderFacts, ProcType
<1>2. W \in Seq(Unit) /\ Len(W) \in Nat
  BY <1>1 DEF TypeOK, SocketTypes, Endpoints
<1>3. wire'[p][d] = Append(W, x)
  BY <1>1 DEF Put, TypeOK, SocketTypes, Endpoints
<1>4. \A q \in Procs, e \in Devices : <<q, e>> # <<p, d>> => wire'[q][e] = wire[q][e]
  BY <1>1 DEF Put, TypeOK, SocketTypes, Endpoints
<1>5. PICK n \in Nat :
        /\ n = Len(W)
        /\ Len(wire'[p][d]) = n + 1
        /\ DOMAIN wire'[p][d] = 1..(n + 1)
        /\ wire'[p][d][n + 1] = x
        /\ \A i \in 1..n : wire'[p][d][i] = W[i] /\ W[i] \in Unit
        /\ DOMAIN W = 1..n
  BY <1>2, <1>3
<1>6. SilentUnlessOwner'
  BY <1>1, <1>4 DEF WireInv, SilentUnlessOwner
<1>7. x.id \in Nat /\ x.id > 0 /\ x.id < nextOrderId[p]
  BY DEF ControlInv, NumbersHeld, Unit
<1>8. NumbersBelowSource'
  <2> SUFFICES ASSUME NEW q \in Procs, NEW e \in Devices, NEW i \in DOMAIN wire'[q][e]
               PROVE  wire'[q][e][i].id > 0 /\ wire'[q][e][i].id < nextOrderId[q]
    BY DEF NumbersBelowSource
  <2>1. CASE <<q, e>> # <<p, d>>
    BY <1>4, <2>1 DEF WireInv, NumbersBelowSource
  <2>2. CASE q = p /\ e = d
    <3>1. \A j \in 1..n : W[j].id > 0 /\ W[j].id < nextOrderId[p]
      BY <1>1, <1>5 DEF WireInv, NumbersBelowSource
    <3>2. i = n + 1 \/ i \in 1..n
      <4>1. i \in 1..(n + 1)
        BY <1>5, <2>2
      <4>2. QED
        BY <4>1
    <3>3. QED
      BY <1>5, <1>7, <2>2, <3>1, <3>2
  <2>3. QED
    BY <2>1, <2>2
<1>9. DeviceLinksPrivate'
  <2> SUFFICES ASSUME NEW q \in Procs, NEW e \in Devices, NEW i \in DOMAIN wire'[q][e]
               PROVE  wire'[q][e][i].by = q
    BY DEF DeviceLinksPrivate
  <2>1. CASE <<q, e>> # <<p, d>>
    BY <1>4, <2>1 DEF WireInv, DeviceLinksPrivate
  <2>2. CASE q = p /\ e = d
    <3>1. \A j \in 1..n : W[j].by = p
      BY <1>1, <1>5 DEF WireInv, DeviceLinksPrivate
    <3>2. i = n + 1 \/ i \in 1..n
      <4>1. i \in 1..(n + 1)
        BY <1>5, <2>2
      <4>2. QED
        BY <4>1
    <3>3. QED
      BY <1>5, <2>2, <3>1, <3>2
  <2>3. QED
    BY <2>1, <2>2
<1>10. \A e \in Devices \ {d} : \A i \in DOMAIN wire[p][e] : wire[p][e][i].id # x.id
  BY DEF WireInv, NumberInFlight, ElsewhereUnseen, LastUnitIsMine
<1>11. OrderIdsUnique'
  <2> SUFFICES ASSUME NEW q \in Procs, NEW e1 \in Devices, NEW e2 \in Devices, e1 # e2,
                      NEW i \in DOMAIN wire'[q][e1], NEW j \in DOMAIN wire'[q][e2]
               PROVE  wire'[q][e1][i].id # wire'[q][e2][j].id
    BY DEF OrderIdsUnique
  <2>1. CASE q # p \/ (e1 # d /\ e2 # d)
    BY <1>4, <2>1 DEF WireInv, OrderIdsUnique
  <2>2. CASE q = p /\ e1 = d
    <3>1. wire'[q][e2] = wire[q][e2]
      BY <1>4, <2>2
    <3>2. CASE i = n + 1
      BY SMTT(30), <1>5, <1>10, <2>2, <3>1, <3>2
    <3>3. CASE i # n + 1
      <4>0. i \in 1..(n + 1)
        BY <1>5, <2>2
      <4>a. i \in 1..n
        BY <3>3, <4>0
      <4>1. i \in 1..n /\ wire'[p][d][i] = W[i]
        BY <1>5, <4>a
      <4>2. \A m \in DOMAIN W, k \in DOMAIN wire[p][e2] : W[m].id # wire[p][e2][k].id
        BY <1>1, <2>2 DEF WireInv, OrderIdsUnique
      <4>3. QED
        BY <1>5, <2>2, <3>1, <4>1, <4>2
    <3>4. QED
      BY <3>2, <3>3
  <2>3. CASE q = p /\ e2 = d
    <3>1. wire'[q][e1] = wire[q][e1]
      BY <1>4, <2>3
    <3>2. CASE j = n + 1
      BY <1>5, <1>10, <2>3, <3>1, <3>2
    <3>3. CASE j # n + 1
      <4>0. j \in 1..(n + 1)
        BY <1>5, <2>3
      <4>a. j \in 1..n
        BY <3>3, <4>0
      <4>1. j \in 1..n /\ wire'[p][d][j] = W[j]
        BY <1>5, <4>a
      <4>2. \A m \in DOMAIN W, k \in DOMAIN wire[p][e1] : W[m].id # wire[p][e1][k].id
        BY <1>1, <2>3 DEF WireInv, OrderIdsUnique
      <4>3. QED
        BY <1>5, <2>3, <3>1, <4>1, <4>2
    <3>4. QED
      BY <3>2, <3>3
  <2>4. QED
    BY <2>1, <2>2, <2>3
<1>12. PacketsOrderedAndWhole'
  <2>1. ASSUME NEW q \in Procs, NEW e \in Devices, <<q, e>> # <<p, d>>
        PROVE  /\ wire'[q][e] # <<>> => wire'[q][e][1].idx = 1 /\ wire'[q][e][1].id > 0
               /\ \A i \in 1..(Len(wire'[q][e]) - 1) :
                     Follows(wire'[q][e][i], wire'[q][e][i + 1])
    BY <1>4, <2>1 DEF WireInv, PacketsOrderedAndWhole
  <2>2. wire'[p][d][1].idx = 1 /\ wire'[p][d][1].id > 0
    <3>1. CASE W = <<>>
      <4>1. sent[t] = 0
        BY <3>1, <1>1 DEF WireInv, NumberInFlight, ElsewhereUnseen, LastUnitIsMine, TypeOK, ThreadTypes
      <4>2. n = 0
        BY <1>5, <3>1
      <4>3. QED
        BY <1>5, <1>7, <4>1, <4>2
    <3>2. CASE W # <<>>
      <4>1. W[1].idx = 1 /\ W[1].id > 0
        BY <1>1, <3>2 DEF WireInv, PacketsOrderedAndWhole
      <4>2. n > 0
        BY <1>2, <1>5, <3>2
      <4>3. 1 \in 1..n
        BY <4>2
      <4>4. QED
        BY <1>5, <4>1, <4>3
    <3>3. QED
      BY <3>1, <3>2
  <2>3. ASSUME NEW i \in 1..n PROVE Follows(wire'[p][d][i], wire'[p][d][i + 1])
    <3>1. CASE i < n
      <4>0. i \in 1..(n - 1) /\ i + 1 \in 1..n
        BY <3>1
      <4>1. Follows(W[i], W[i + 1])
        BY <1>1, <1>5, <4>0 DEF WireInv, PacketsOrderedAndWhole
      <4>2. wire'[p][d][i] = W[i] /\ wire'[p][d][i + 1] = W[i + 1]
        BY <1>5, <4>0
      <4>3. QED
        BY <4>1, <4>2
    <3>2. CASE i = n
      <4>1. wire'[p][d][i] = W[i] /\ wire'[p][d][i + 1] = x
        BY <1>5, <3>2
      <4>2. CASE sent[t] = 0
        <5>1. W[i].id < x.id
          BY <1>1, <1>5, <4>2 DEF WireInv, NumberInFlight, ElsewhereUnseen, LastUnitIsMine
        <5>2. W[i].id \in Nat /\ x.id \in Nat
          BY <1>5 DEF Unit
        <5>3. QED
          BY <4>1, <4>2, <5>1, <5>2 DEF Follows
      <4>3. CASE sent[t] > 0
        <5>1. W[i].id = x.id /\ W[i].idx = sent[t] /\ ~W[i].fd
          BY <1>1, <1>5, <3>2, <4>3 DEF WireInv, NumberInFlight, ElsewhereUnseen, LastUnitIsMine
        <5>2. ~x.fd
          BY <4>3
        <5>3. QED
          BY <4>1, <5>1, <5>2 DEF Follows
      <4>4. QED
        BY <4>2, <4>3 DEF TypeOK, ThreadTypes
    <3>3. QED
      BY <1>2, <3>1, <3>2
  <2>4. \A i \in 1..(Len(wire'[p][d]) - 1) : Follows(wire'[p][d][i], wire'[p][d][i + 1])
    <3>1. Len(wire'[p][d]) - 1 = n
      BY <1>5
    <3>2. QED
      BY <2>3, <3>1
  <2>5. ASSUME NEW q \in Procs, NEW e \in Devices
        PROVE  /\ wire'[q][e] # <<>> => wire'[q][e][1].idx = 1 /\ wire'[q][e][1].id > 0
               /\ \A i \in 1..(Len(wire'[q][e]) - 1) :
                     Follows(wire'[q][e][i], wire'[q][e][i + 1])
    <3>1. CASE q = p /\ e = d
      BY <2>2, <2>4, <3>1
    <3>2. CASE <<q, e>> # <<p, d>>
      BY <2>1, <3>2
    <3>3. QED
      BY <3>1, <3>2
  <2>6. QED
    BY <2>5 DEF PacketsOrderedAndWhole
<1>13. QED
  BY <1>3, <1>4, <1>6, <1>8, <1>9, <1>11, <1>12

\* A step that puts nothing in a device socket, hands out no number and lets every
\* thread that still has a number keep what it knows about it.
LEMMA QuietStep ==
    ASSUME TypeOK, TypeOK', ControlInv, WireInv,
           \A q \in Procs, e \in Devices : wire'[q][e] = wire[q][e],
           UNCHANGED nextOrderId,
           \A q \in Procs : ownerPid'[q] # q => ownerPid[q] # q,
           \A u \in Threads : orderId'[u] > 0 =>
               orderId'[u] = orderId[u] /\ sent'[u] = sent[u] /\ dev'[u] = dev[u]
    PROVE  WireInv'
<1>1. SilentUnlessOwner'
  BY DEF WireInv, SilentUnlessOwner
<1>2. NumbersBelowSource' /\ PacketsOrderedAndWhole' /\ OrderIdsUnique' /\ DeviceLinksPrivate'
  BY DEF WireInv, NumbersBelowSource, PacketsOrderedAndWhole, OrderIdsUnique,
         DeviceLinksPrivate
<1>3. NumbersDistinct'
  <2> SUFFICES ASSUME NEW u \in Threads, NEW v \in Threads, u # v, Proc(u) = Proc(v),
                      orderId'[u] > 0
               PROVE  orderId'[u] # orderId'[v]
    BY DEF NumbersDistinct, Proc
  <2>1. orderId'[v] \in Nat /\ orderId'[u] \in Nat
    BY DEF TypeOK, ThreadTypes
  <2>2. CASE orderId'[v] > 0
    BY <2>2 DEF WireInv, NumbersDistinct
  <2>3. QED
    BY <2>1, <2>2
<1>4. NumberInFlight'
  <2> SUFFICES ASSUME NEW u \in Threads, orderId'[u] > 0
               PROVE  ElsewhereUnseen(u)' /\ LastUnitIsMine(u, wire[Proc(u)][dev[u]])'
    BY DEF NumberInFlight
  <2>1. orderId[u] > 0 /\ orderId'[u] = orderId[u] /\ sent'[u] = sent[u] /\ dev'[u] = dev[u]
    OBVIOUS
  <2>2. dev[u] \in Devices /\ Proc(u) \in Procs /\ Proc(u)' = Proc(u)
    BY <2>1, SenderFacts, ProcType DEF Proc
  <2>3. \A d \in Devices : wire'[Proc(u)][d] = wire[Proc(u)][d]
    BY <2>2
  <2>4. ElsewhereUnseen(u) /\ LastUnitIsMine(u, wire[Proc(u)][dev[u]])
    BY <2>1 DEF WireInv, NumberInFlight
  <2>5. ElsewhereUnseen(u)'
    BY <2>1, <2>2, <2>3, <2>4 DEF ElsewhereUnseen
  <2>6. LastUnitIsMine(u, wire[Proc(u)][dev[u]])'
    BY <2>1, <2>2, <2>3, <2>4 DEF LastUnitIsMine
  <2>7. QED
    BY <2>5, <2>6
<1>5. QED
  BY <1>1, <1>2, <1>3, <1>4 DEF WireInv

\* A thread of process p takes the number the source stands at.
LEMMA TakeNumber ==
    ASSUME TypeOK, ControlInv, WireInv, NEW t \in Threads, pc[t] = "cas",
           nextOrderId[Proc(t)] < MaxOrderId,
           nextOrderId' = [nextOrderId EXCEPT ![Proc(t)] = nextOrderId[Proc(t)] + 1],
           orderId' = [orderId EXCEPT ![t] = nextOrderId[Proc(t)]],
           UNCHANGED <<wire, sent, dev, ownerPid>>
    PROVE  WireInv'
<1> DEFINE p == Proc(t)
           n == nextOrderId[p]
<1>1. p \in Procs /\ n \in Nat /\ n > 0 /\ sent[t] = 0
  BY ProcType DEF TypeOK, MemoryTypes, ControlInv, NumbersHeld
<1>2. \A u \in Threads : u # t => orderId'[u] = orderId[u]
  BY DEF TypeOK, ThreadTypes
<1>3. orderId'[t] = n /\ (\A q \in Procs : q # p => nextOrderId'[q] = nextOrderId[q])
      /\ nextOrderId'[p] = n + 1
  BY <1>1 DEF TypeOK, ThreadTypes, MemoryTypes
<1>4. SilentUnlessOwner' /\ PacketsOrderedAndWhole' /\ OrderIdsUnique' /\ DeviceLinksPrivate'
  BY DEF WireInv, SilentUnlessOwner, PacketsOrderedAndWhole, OrderIdsUnique,
         DeviceLinksPrivate
<1>5. \A e \in Devices : \A i \in DOMAIN wire[p][e] :
         wire[p][e][i].id \in Nat /\ wire[p][e][i].id > 0 /\ wire[p][e][i].id < n
  <2> SUFFICES ASSUME NEW e \in Devices, NEW i \in DOMAIN wire[p][e]
               PROVE  wire[p][e][i].id \in Nat /\ wire[p][e][i].id > 0
                      /\ wire[p][e][i].id < n
    OBVIOUS
  <2>1. wire[p][e] \in Seq(Unit)
    BY <1>1 DEF TypeOK, SocketTypes, Endpoints
  <2>2. wire[p][e][i] \in Unit
    BY <2>1
  <2>3. QED
    BY <1>1, <2>2 DEF WireInv, NumbersBelowSource, Unit
<1>6. NumbersBelowSource'
  <2> SUFFICES ASSUME NEW q \in Procs, NEW e \in Devices, NEW i \in DOMAIN wire[q][e]
               PROVE  wire[q][e][i].id > 0 /\ wire[q][e][i].id < nextOrderId'[q]
    BY DEF NumbersBelowSource
  <2>1. CASE q = p
    BY <1>1, <1>3, <1>5, <2>1
  <2>2. CASE q # p
    BY <1>3, <2>2 DEF WireInv, NumbersBelowSource
  <2>3. QED
    BY <2>1, <2>2
<1>7. \A u \in Threads : Proc(u) = p => orderId[u] \in Nat /\ orderId[u] < n
  BY <1>1 DEF TypeOK, ThreadTypes, ControlInv, NumbersHeld
<1>8. NumbersDistinct'
  <2> SUFFICES ASSUME NEW u \in Threads, NEW v \in Threads, u # v, Proc(u) = Proc(v),
                      orderId'[u] > 0
               PROVE  orderId'[u] # orderId'[v]
    BY DEF NumbersDistinct, Proc
  <2>1. CASE u = t
    BY <1>1, <1>2, <1>3, <1>7, <2>1
  <2>2. CASE v = t
    BY <1>1, <1>2, <1>3, <1>7, <2>2
  <2>3. CASE u # t /\ v # t
    BY <1>2, <2>3 DEF WireInv, NumbersDistinct
  <2>4. QED
    BY <2>1, <2>2, <2>3
<1>9. NumberInFlight'
  <2> SUFFICES ASSUME NEW u \in Threads, orderId'[u] > 0
               PROVE  ElsewhereUnseen(u)' /\ LastUnitIsMine(u, wire[Proc(u)][dev[u]])'
    BY DEF NumberInFlight
  <2>1. CASE u = t
    <3>1. InSend(t)
      BY DEF InSend
    <3>2. dev[t] \in Devices
      BY <3>1 DEF TypeOK, ThreadTypes, Endpoints, ControlInv, CallStages
    <3>3. ElsewhereUnseen(t)'
      BY <1>1, <1>3, <1>5 DEF ElsewhereUnseen, Proc
    <3>4. LastUnitIsMine(t, wire[p][dev[t]])'
      BY <1>1, <1>3, <1>5, <3>2 DEF LastUnitIsMine, Proc
    <3>5. QED
      BY <2>1, <3>3, <3>4
  <2>2. CASE u # t
    <3>1. orderId'[u] = orderId[u]
      BY <1>2, <2>2
    <3>2. ElsewhereUnseen(u) /\ LastUnitIsMine(u, wire[Proc(u)][dev[u]])
      BY <3>1 DEF WireInv, NumberInFlight
    <3>3. QED
      BY <3>1, <3>2 DEF ElsewhereUnseen, LastUnitIsMine, Proc
  <2>3. QED
    BY <2>1, <2>2
<1>10. QED
  BY <1>4, <1>6, <1>8, <1>9 DEF WireInv

\* The last element of a sequence one was appended to.
LEMMA AppendLast ==
    ASSUME NEW S, NEW w \in Seq(S), NEW x \in S
    PROVE  Append(w, x) # <<>> /\ Append(w, x)[Len(Append(w, x))] = x
<1>1. Len(Append(w, x)) = Len(w) + 1 /\ Len(w) \in Nat
  OBVIOUS
<1>2. QED
  BY <1>1

\* A thread puts a unit of its packet in the socket: it goes on with the packet, or
\* it is done and gives its number back.
LEMMA PutUnit ==
    ASSUME TypeOK, TypeOK', ControlInv, WireInv, NEW t \in Threads, orderId[t] > 0,
           NEW x \in Unit, x.id = orderId[t], x.idx = sent[t] + 1, x.by = Proc(t),
           x.fd => sent[t] = 0, Put(t, x),
           UNCHANGED <<nextOrderId, ownerPid, dev>>,
           \/ /\ sent' = [sent EXCEPT ![t] = sent[t] + 1]
              /\ ~x.fd
              /\ UNCHANGED orderId
           \/ /\ orderId' = [orderId EXCEPT ![t] = 0]
              /\ sent' = [sent EXCEPT ![t] = 0]
    PROVE  WireInv'
<1> DEFINE p == Proc(t)
           d == dev[t]
<1>1. /\ SilentUnlessOwner' /\ NumbersBelowSource' /\ PacketsOrderedAndWhole'
      /\ OrderIdsUnique' /\ DeviceLinksPrivate'
  BY AppendUnit
<1>2. /\ \A q \in Procs, e \in Devices : <<q, e>> # <<p, d>> => wire'[q][e] = wire[q][e]
      /\ wire'[p][d] = Append(wire[p][d], x)
  BY AppendUnit
<1>3. p \in Procs /\ d \in Devices
  BY SenderFacts, ProcType
<1>4. \A u \in Threads : orderId'[u] > 0 => orderId'[u] = orderId[u]
  BY DEF TypeOK, ThreadTypes
<1>5. \A u \in Threads : u # t => orderId'[u] = orderId[u] /\ sent'[u] = sent[u]
  BY DEF TypeOK, ThreadTypes
<1>6. NumbersDistinct'
  <2> SUFFICES ASSUME NEW u \in Threads, NEW v \in Threads, u # v, Proc(u) = Proc(v),
                      orderId'[u] > 0
               PROVE  orderId'[u] # orderId'[v]
    BY DEF NumbersDistinct, Proc
  <2>1. orderId'[v] \in Nat /\ orderId'[u] \in Nat
    BY DEF TypeOK, ThreadTypes
  <2>2. CASE orderId'[v] > 0
    <3>1. orderId'[v] = orderId[v] /\ orderId'[u] = orderId[u]
      BY <1>4, <2>2
    <3>2. QED
      BY <3>1 DEF WireInv, NumbersDistinct
  <2>3. QED
    BY <2>1, <2>2
<1>7. ASSUME NEW u \in Threads, orderId'[u] > 0, u # t
      PROVE  ElsewhereUnseen(u)' /\ LastUnitIsMine(u, wire[Proc(u)][dev[u]])'
  <2>1. orderId[u] > 0 /\ orderId'[u] = orderId[u] /\ sent'[u] = sent[u]
    BY <1>5, <1>7
  <2>2. dev[u] \in Devices /\ Proc(u) \in Procs /\ <<Proc(u), dev[u]>> # <<p, d>>
    BY <1>7, <2>1, SenderFacts, ProcType, OneSenderPerLink
  <2>3. wire'[Proc(u)][dev[u]] = wire[Proc(u)][dev[u]]
    BY <1>2, <2>2
  <2>4. ElsewhereUnseen(u) /\ LastUnitIsMine(u, wire[Proc(u)][dev[u]])
    BY <2>1 DEF WireInv, NumberInFlight
  <2>5. LastUnitIsMine(u, wire[Proc(u)][dev[u]])'
    BY <2>1, <2>3, <2>4 DEF LastUnitIsMine, Proc
  <2>6. ASSUME NEW e \in Devices, e # dev[u], NEW i \in DOMAIN wire'[Proc(u)][e]
        PROVE  wire'[Proc(u)][e][i].id # orderId[u]
    <3>1. CASE <<Proc(u), e>> # <<p, d>>
      BY <1>2, <2>2, <2>4, <2>6, <3>1 DEF ElsewhereUnseen
    <3>2. CASE Proc(u) = p /\ e = d
      <4>1. orderId[u] # x.id
        BY <1>7, <2>1, <3>2 DEF WireInv, NumbersDistinct
      <4>2. wire[p][d] \in Seq(Unit)
        BY <1>3 DEF TypeOK, SocketTypes, Endpoints
      <4>3. PICK n \in Nat : /\ n = Len(wire[p][d])
                             /\ DOMAIN wire'[p][d] = 1..(n + 1)
                             /\ wire'[p][d][n + 1] = x
                             /\ DOMAIN wire[p][d] = 1..n
                             /\ \A j \in 1..n : wire'[p][d][j] = wire[p][d][j]
        BY <1>2, <4>2
      <4>4. CASE i = n + 1
        BY <3>2, <4>1, <4>3, <4>4
      <4>5. CASE i # n + 1
        <5>1. i \in 1..(n + 1)
          BY <3>2, <4>3
        <5>2. i \in 1..n
          BY <4>5, <5>1
        <5>3. wire[p][d][i].id # orderId[u]
          BY <1>3, <2>4, <2>6, <3>2, <4>3, <5>2 DEF ElsewhereUnseen
        <5>4. QED
          BY <3>2, <4>3, <5>2, <5>3
      <4>6. QED
        BY <4>4, <4>5
    <3>3. QED
      BY <3>1, <3>2
  <2>7. ElsewhereUnseen(u)'
    BY <2>1, <2>6 DEF ElsewhereUnseen, Proc
  <2>8. QED
    BY <2>5, <2>7
<1>8. ASSUME orderId'[t] > 0
      PROVE  ElsewhereUnseen(t)' /\ LastUnitIsMine(t, wire[p][d])'
  <2>1. orderId' = orderId /\ sent' = [sent EXCEPT ![t] = sent[t] + 1] /\ ~x.fd
    BY <1>8 DEF TypeOK, ThreadTypes
  <2>2. sent'[t] = sent[t] + 1 /\ sent[t] \in Nat
    BY <2>1 DEF TypeOK, ThreadTypes
  <2>3. ElsewhereUnseen(t)
    BY DEF WireInv, NumberInFlight
  <2>a. \A e \in Devices \ {d} : wire'[p][e] = wire[p][e]
    BY <1>2, <1>3
  <2>4. ElsewhereUnseen(t)'
    BY <2>1, <2>3, <2>a DEF ElsewhereUnseen, Proc
  <2>5. wire[p][d] \in Seq(Unit)
    BY <1>3 DEF TypeOK, SocketTypes, Endpoints
  <2>6. wire'[p][d] # <<>> /\ wire'[p][d][Len(wire'[p][d])] = x
    BY <1>2, <2>5, AppendLast
  <2>7. LastUnitIsMine(t, wire[p][d])'
    BY <2>1, <2>2, <2>6 DEF LastUnitIsMine, Proc
  <2>8. QED
    BY <2>4, <2>7
<1>9. NumberInFlight'
  BY <1>7, <1>8 DEF NumberInFlight, Proc
<1>10. QED
  BY <1>1, <1>6, <1>9 DEF WireInv

\* The wire part of the invariant is kept by every step.
LEMMA StepWire == TypeOK /\ TypeOK' /\ ControlInv /\ WireInv /\ [Next]_vars => WireInv'
<1> SUFFICES ASSUME TypeOK, TypeOK', ControlInv, WireInv, [Next]_vars PROVE WireInv'
  OBVIOUS
<1>0. \A u \in Threads : orderId[u] \in Nat /\ (HasNumber(u) <=> orderId[u] > 0)
  BY DEF TypeOK, ThreadTypes, ControlInv, NumbersHeld
<1>1. ASSUME NEW t \in Threads, Call(t) PROVE WireInv'
  <2>1. orderId[t] = 0
    BY <1>0, <1>1 DEF Call, HasNumber
  <2>2. \A u \in Threads : u # t => dev'[u] = dev[u]
    BY <1>1 DEF Call, TypeOK, ThreadTypes
  <2>3. UNCHANGED <<wire, nextOrderId, orderId, sent, ownerPid>>
    BY <1>1 DEF Call, memoryVars, socketVars
  <2>4. QED
    BY <2>1, <2>2, <2>3, QuietStep
<1>2. ASSUME NEW t \in Threads, GetInstance(t) \/ Enter(t) PROVE WireInv'
  <2>1. ownerPid' = [ownerPid EXCEPT ![Proc(t)] = OwnerOf(Proc(t))]
    BY <1>2 DEF GetInstance, Enter, CheckProcessOwner
  <2>2. \A q \in Procs : ownerPid'[q] # q => ownerPid[q] # q
    BY <2>1, ProcType DEF OwnerOf, TypeOK, MemoryTypes
  <2>3. UNCHANGED <<wire, nextOrderId, orderId, sent, dev>>
    BY <1>2 DEF GetInstance, Enter, socketVars
  <2>4. QED
    BY <2>2, <2>3, QuietStep
<1>3. ASSUME NEW t \in Threads,
             \/ LockDevices(t) \/ FindDevice(t) \/ LockSend(t) \/ ReserveLoad(t)
             \/ Memfd(t) \/ TextStart(t) \/ TakeMux(t) \/ SendFdFails(t)
      PROVE  WireInv'
  BY <1>3, WireFrame DEF LockDevices, FindDevice, LockSend, ReserveLoad, Memfd, TextStart,
     TakeMux, SendFdFails, memoryVars, socketVars
<1>4. ASSUME NEW t \in Threads, ReserveCas(t) PROVE WireInv'
  <2>1. UNCHANGED <<wire, dev, ownerPid>> /\ pc[t] = "cas"
    BY <1>4 DEF ReserveCas
  <2>2. CASE next[t] \in {0, MaxOrderId}
    <3>1. /\ orderId' = [orderId EXCEPT ![t] = 0]
          /\ sent' = [sent EXCEPT ![t] = 0]
          /\ UNCHANGED nextOrderId
      BY <1>4, <2>2 DEF ReserveCas, Return
    <3>2. \A u \in Threads : orderId'[u] > 0 => orderId'[u] = orderId[u] /\ sent'[u] = sent[u]
      BY <3>1 DEF TypeOK, ThreadTypes
    <3>3. QED
      BY <2>1, <3>1, <3>2, QuietStep
  <2>3. CASE next[t] \notin {0, MaxOrderId} /\ next[t] = nextOrderId[Proc(t)]
    <3>1. /\ nextOrderId' = [nextOrderId EXCEPT ![Proc(t)] = nextOrderId[Proc(t)] + 1]
          /\ orderId' = [orderId EXCEPT ![t] = nextOrderId[Proc(t)]]
          /\ UNCHANGED sent
      BY <1>4, <2>3 DEF ReserveCas
    <3>2. nextOrderId[Proc(t)] < MaxOrderId
      <4>1. nextOrderId[Proc(t)] \in 1..MaxOrderId
        BY ProcType DEF TypeOK, MemoryTypes
      <4>2. QED
        BY <2>3, <4>1, ChannelAssumption
    <3>3. QED
      BY <2>1, <3>1, <3>2, TakeNumber
  <2>4. CASE next[t] \notin {0, MaxOrderId} /\ next[t] # nextOrderId[Proc(t)]
    <3>1. UNCHANGED <<nextOrderId, orderId, sent>>
      BY <1>4, <2>4 DEF ReserveCas
    <3>2. QED
      BY <2>1, <3>1, WireFrame
  <2>5. QED
    BY <2>2, <2>3, <2>4
<1>5. ASSUME NEW t \in Threads, WriteFails(t) PROVE WireInv'
  <2>1. /\ orderId' = [orderId EXCEPT ![t] = 0]
        /\ sent' = [sent EXCEPT ![t] = 0]
        /\ UNCHANGED <<wire, nextOrderId, dev, ownerPid>>
    BY <1>5 DEF WriteFails, Return
  <2>2. \A u \in Threads : orderId'[u] > 0 => orderId'[u] = orderId[u] /\ sent'[u] = sent[u]
    BY <2>1 DEF TypeOK, ThreadTypes
  <2>3. QED
    BY <2>1, <2>2, QuietStep
<1>6. ASSUME NEW t \in Threads, WriteUnit(t) PROVE WireInv'
  <2> DEFINE x == [id |-> orderId[t], idx |-> sent[t] + 1, fd |-> FALSE, by |-> Proc(t)]
  <2>1. Put(t, x) /\ UNCHANGED <<nextOrderId, dev, ownerPid>>
    BY <1>6 DEF WriteUnit
  <2>2. \/ sent' = [sent EXCEPT ![t] = sent[t] + 1] /\ UNCHANGED orderId
        \/ orderId' = [orderId EXCEPT ![t] = 0] /\ sent' = [sent EXCEPT ![t] = 0]
    BY <1>6 DEF WriteUnit, Return
  <2>3. CASE kind[t] = "text"
    <3>1. dev[t] = General /\ orderId[t] = 0
      BY <1>0, <1>6, <2>3 DEF WriteUnit, HasNumber, ControlInv, TextIsGeneral
    <3>2. \A q \in Procs, e \in Devices : wire'[q][e] = wire[q][e]
      BY <2>1, <3>1, ChannelAssumption DEF Put, TypeOK, SocketTypes, Endpoints
    <3>3. \A u \in Threads : orderId'[u] > 0 => orderId'[u] = orderId[u] /\ sent'[u] = sent[u]
      BY <2>2, <3>1 DEF TypeOK, ThreadTypes
    <3>4. QED
      BY <2>1, <3>2, <3>3, QuietStep
  <2>4. CASE kind[t] # "text"
    <3>1. orderId[t] > 0 /\ sent[t] < Chunks
      BY <1>0, <1>6, <2>4 DEF WriteUnit, HasNumber, ControlInv, NumbersHeld
    <3>2. x \in Unit
      BY <3>1, ProcType, ChannelAssumption DEF Unit, TypeOK, ThreadTypes
    <3>3. QED
      BY <2>1, <2>2, <3>1, <3>2, PutUnit
  <2>5. QED
    BY <2>3, <2>4
<1>7. ASSUME NEW t \in Threads, SendFd(t) PROVE WireInv'
  <2> DEFINE x == [id |-> orderId[t], idx |-> 1, fd |-> TRUE, by |-> Proc(t)]
  <2>1. Put(t, x) /\ UNCHANGED <<nextOrderId, dev, ownerPid>>
    BY <1>7 DEF SendFd
  <2>2. orderId' = [orderId EXCEPT ![t] = 0] /\ sent' = [sent EXCEPT ![t] = 0]
    BY <1>7 DEF SendFd, Return
  <2>3. orderId[t] > 0 /\ sent[t] = 0
    BY <1>0, <1>7 DEF SendFd, HasNumber, ControlInv, NumbersHeld
  <2>4. x \in Unit
    BY <2>3, ProcType, ChannelAssumption DEF Unit, TypeOK, ThreadTypes
  <2>5. x.id = orderId[t] /\ x.idx = sent[t] + 1 /\ x.by = Proc(t)
    BY <2>3
  <2> HIDE DEF x
  <2>6. QED
    BY <2>1, <2>2, <2>3, <2>4, <2>5, PutUnit
<1>8. ASSUME NEW p \in Procs, NEW e \in Endpoints, PeerCloses(p, e) PROVE WireInv'
  BY <1>8, WireFrame DEF PeerCloses, threadVars, memoryVars
<1>9. CASE (\E t \in HostThreads : Fork(t)) \/ Exec
  <2>1. /\ UNCHANGED <<wire, orderId, sent, dev>>
        /\ \A q \in Procs : q # "child" =>
              nextOrderId'[q] = nextOrderId[q] /\ ownerPid'[q] = ownerPid[q]
    BY <1>9 DEF Fork, Exec, socketVars, threadVars, TypeOK, MemoryTypes
  <2>2. ownerPid["child"] # "child"
    <3>1. CASE \E t \in HostThreads : Fork(t)
      <4>1. ownerPid["child"] = None
        BY <3>1 DEF Fork, ControlInv, UnbornIsNobody
      <4>2. QED
        BY <4>1, ChannelAssumption DEF Procs
    <3>2. CASE Exec
      BY <3>2 DEF Exec
    <3>3. QED
      BY <1>9, <3>1, <3>2
  <2>3. \A d \in Devices : wire[("child")][d] = <<>>
    BY <2>2 DEF WireInv, SilentUnlessOwner, Procs
  <2>4. SilentUnlessOwner'
    BY <2>1, <2>3 DEF WireInv, SilentUnlessOwner
  <2>5. NumbersBelowSource'
    BY <2>1, <2>3 DEF WireInv, NumbersBelowSource
  <2>6. PacketsOrderedAndWhole' /\ OrderIdsUnique' /\ DeviceLinksPrivate'
    BY <2>1 DEF WireInv, PacketsOrderedAndWhole, OrderIdsUnique, DeviceLinksPrivate
  <2>7. NumbersDistinct'
    BY <2>1 DEF WireInv, NumbersDistinct, Proc
  <2>8. NumberInFlight'
    BY <2>1 DEF WireInv, NumberInFlight, ElsewhereUnseen, LastUnitIsMine, Proc
  <2>9. QED
    BY <2>4, <2>5, <2>6, <2>7, <2>8 DEF WireInv
<1>10. CASE UNCHANGED vars
  BY <1>10, WireFrame DEF vars
<1>11. QED
  BY <1>1, <1>2, <1>3, <1>4, <1>5, <1>6, <1>7, <1>8, <1>9, <1>10 DEF Next, Running

-----------------------------------------------------------------------------
(* The theorems.                                                           *)

\* The inductive invariant of the sending side holds in every behaviour: locks,
\* owner checks and numbers fit together at every step of every thread.
THEOREM ChannelSafe == Spec => []ChannelInv
<1>1. Init => ChannelInv
  BY InitType, InitChannel DEF ChannelInv
<1>2. ChannelInv /\ [Next]_vars => ChannelInv'
  BY StepType, StepControl, StepWire DEF ChannelInv
<1>3. QED
  BY <1>1, <1>2, PTL DEF Spec

\* For any number of threads, devices and units per packet, sendMutex_ and
\* ReserveOrderId keep every device connection a sequence of contiguous packets in
\* increasing order.
THEOREM OrderedAndWhole == Spec => []PacketsOrderedAndWhole
<1>1. ChannelInv => PacketsOrderedAndWhole
  BY DEF ChannelInv, WireInv
<1>2. QED
  BY <1>1, ChannelSafe, PTL

\* The compare-and-exchange loop of ReserveOrderId never lets two connections of a
\* process carry the same number.
THEOREM UniqueAcrossDevices == Spec => []OrderIdsUnique
<1>1. ChannelInv => OrderIdsUnique
  BY DEF ChannelInv, WireInv
<1>2. QED
  BY <1>1, ChannelSafe, PTL

\* CheckProcessOwner keeps a forked child away from its parent's device sockets.
THEOREM ForkedChildKeepsOut == Spec => []DeviceLinksPrivate
<1>1. ChannelInv => DeviceLinksPrivate
  BY DEF ChannelInv, WireInv
<1>2. QED
  BY <1>1, ChannelSafe, PTL

-----------------------------------------------------------------------------
(* The refinement of OrderedLinks.                                         *)

\* What a step may do to the device sockets: nothing, or append one unit of the
\* packet whose number the writing thread holds.
Untouched == \A q \in Procs, e \in Devices : wire'[q][e] = wire[q][e]

Extends(t, x) ==
    /\ orderId[t] > 0
    /\ x.id = orderId[t]
    /\ wire'[Proc(t)][dev[t]] = Append(wire[Proc(t)][dev[t]], x)
    /\ \A q \in Procs, e \in Devices :
          <<q, e>> # <<Proc(t), dev[t]>> => wire'[q][e] = wire[q][e]

\* Every step leaves the device sockets alone or appends one unit of the sender's
\* packet.
LEMMA StepShape ==
    TypeOK /\ ControlInv /\ [Next]_vars
        => Untouched \/ \E t \in Threads, x \in Unit : Extends(t, x)
<1> SUFFICES ASSUME TypeOK, ControlInv, [Next]_vars
             PROVE  Untouched \/ \E t \in Threads, x \in Unit : Extends(t, x)
  OBVIOUS
<1>0. \A u \in Threads : orderId[u] \in Nat /\ (HasNumber(u) <=> orderId[u] > 0)
  BY DEF TypeOK, ThreadTypes, ControlInv, NumbersHeld
<1>1. ASSUME NEW t \in Threads, NEW x \in Unit, orderId[t] > 0, x.id = orderId[t], Put(t, x)
      PROVE  Extends(t, x)
  <2>1. dev[t] \in Devices /\ Proc(t) \in Procs /\ conn[Proc(t)][dev[t]] = Proc(t)
    BY <1>1, SenderFacts, ProcType
  <2>2. QED
    BY <1>1, <2>1 DEF Put, Extends, TypeOK, SocketTypes, Endpoints
<1>2. ASSUME NEW t \in Threads, WriteUnit(t)
      PROVE  Untouched \/ \E x \in Unit : Extends(t, x)
  <2> DEFINE x == [id |-> orderId[t], idx |-> sent[t] + 1, fd |-> FALSE, by |-> Proc(t)]
  <2>1. Put(t, x)
    BY <1>2 DEF WriteUnit
  <2>2. CASE kind[t] = "text"
    <3>1. dev[t] = General
      BY <2>2 DEF ControlInv, TextIsGeneral
    <3>2. QED
      BY <2>1, <3>1, ChannelAssumption DEF Untouched, Put, TypeOK, SocketTypes, Endpoints
  <2>3. CASE kind[t] # "text"
    <3>1. orderId[t] > 0 /\ sent[t] < Chunks
      BY <1>0, <1>2, <2>3 DEF WriteUnit, HasNumber, ControlInv, NumbersHeld
    <3>2. x \in Unit
      BY <3>1, ProcType, ChannelAssumption DEF Unit, TypeOK, ThreadTypes
    <3>3. Extends(t, x)
      BY <1>1, <2>1, <3>1, <3>2
    <3>4. QED
      BY <3>2, <3>3
  <2>4. QED
    BY <2>2, <2>3
<1>3. ASSUME NEW t \in Threads, SendFd(t) PROVE \E x \in Unit : Extends(t, x)
  <2> DEFINE x == [id |-> orderId[t], idx |-> 1, fd |-> TRUE, by |-> Proc(t)]
  <2>1. Put(t, x)
    BY <1>3 DEF SendFd
  <2>2. orderId[t] > 0
    BY <1>0, <1>3 DEF SendFd, HasNumber
  <2>3. x \in Unit
    BY <2>2, ProcType, ChannelAssumption DEF Unit, TypeOK, ThreadTypes
  <2>4. Extends(t, x)
    BY <1>1, <2>1, <2>2, <2>3
  <2>5. QED
    BY <2>3, <2>4
<1>4. ASSUME NEW t \in Threads,
             \/ Call(t) \/ GetInstance(t) \/ LockDevices(t) \/ FindDevice(t) \/ Enter(t)
             \/ LockSend(t) \/ ReserveLoad(t) \/ ReserveCas(t) \/ Memfd(t) \/ TextStart(t)
             \/ TakeMux(t) \/ WriteFails(t) \/ SendFdFails(t)
      PROVE  Untouched
  <2>1. UNCHANGED wire
    BY <1>4 DEF Call, GetInstance, LockDevices, FindDevice, Enter, LockSend, ReserveLoad,
       ReserveCas, Memfd, TextStart, TakeMux, WriteFails, SendFdFails, socketVars
  <2>2. QED
    BY <2>1 DEF Untouched
<1>5. ASSUME \/ \E p \in Procs, e \in Endpoints : PeerCloses(p, e)
             \/ \E t \in HostThreads : Fork(t)
             \/ Exec
             \/ UNCHANGED vars
      PROVE  Untouched
  <2>1. UNCHANGED wire
    BY <1>5 DEF PeerCloses, Fork, Exec, socketVars, vars
  <2>2. QED
    BY <2>1 DEF Untouched
<1>6. QED
  BY <1>2, <1>3, <1>4, <1>5 DEF Next, Running

\* Such a step is one of OrderedLinks, or none.
LEMMA StepRefines ==
    ASSUME ChannelInv, Untouched \/ \E t \in Threads, x \in Unit : Extends(t, x)
    PROVE  Abstract!Next \/ UNCHANGED Begun
<1>1. CASE Untouched
  BY <1>1 DEF Untouched, Begun
<1>2. ASSUME NEW t \in Threads, NEW x \in Unit, Extends(t, x)
      PROVE  Abstract!Next \/ UNCHANGED Begun
  <2> DEFINE p == Proc(t)
             d == dev[t]
             W == wire[p][d]
             m == orderId[t]
  <2>1. p \in Procs /\ d \in Devices /\ m \in 1..MaxOrderId /\ x.id = m
    BY <1>2, SenderFacts, ProcType DEF Extends, ChannelInv, TypeOK, ThreadTypes
  <2>2. ElsewhereUnseen(t) /\ LastUnitIsMine(t, W)
    BY <1>2 DEF Extends, ChannelInv, WireInv, NumberInFlight
  <2>3. W \in Seq(Unit)
    BY <2>1 DEF ChannelInv, TypeOK, SocketTypes, Endpoints
  <2>4. PICK n \in Nat : /\ n = Len(W)
                         /\ DOMAIN W = 1..n
                         /\ DOMAIN wire'[p][d] = 1..(n + 1)
                         /\ wire'[p][d][n + 1] = x
                         /\ \A i \in 1..n : wire'[p][d][i] = W[i]
    BY SMTT(30), <1>2, <2>3 DEF Extends
  <2>5. \A k : (\E i \in DOMAIN wire'[p][d] : wire'[p][d][i].id = k)
                 <=> (\E i \in DOMAIN W : W[i].id = k) \/ k = m
    <3>1. n + 1 \in DOMAIN wire'[p][d] /\ \A i \in 1..n : i \in DOMAIN wire'[p][d]
      BY <2>4
    <3>2. \A i \in DOMAIN wire'[p][d] : i = n + 1 \/ i \in 1..n
      BY <2>4
    <3>3. QED
      BY <2>1, <2>4, <3>1, <3>2
  <2>6. \A q \in Procs, e \in Devices : <<q, e>> # <<p, d>> => wire'[q][e] = wire[q][e]
    BY <1>2 DEF Extends
  <2>7. Begun' = [Begun EXCEPT ![p] = @ \cup {<<d, m>>}]
    <3>1. ASSUME NEW q \in Procs, q # p PROVE Begun'[q] = Begun[q]
      BY <2>6, <3>1 DEF Begun
    <3>2. ASSUME NEW b \in Devices \X (1..MaxOrderId)
          PROVE  b \in Begun'[p] <=> b \in Begun[p] \/ b = <<d, m>>
      <4>1. b = <<b[1], b[2]>> /\ b[1] \in Devices
        OBVIOUS
      <4>2. CASE b[1] # d
        BY <2>1, <2>6, <4>1, <4>2 DEF Begun
      <4>3. CASE b[1] = d
        <5>1. b \in Begun'[p] <=> \E i \in DOMAIN wire'[p][d] : wire'[p][d][i].id = b[2]
          BY <2>1, <4>3 DEF Begun
        <5>2. b \in Begun[p] <=> \E i \in DOMAIN W : W[i].id = b[2]
          BY <2>1, <4>3 DEF Begun
        <5>3. QED
          BY <2>5, <4>1, <4>3, <5>1, <5>2
      <4>4. QED
        BY <4>2, <4>3
    <3>3. Begun'[p] = Begun[p] \cup {<<d, m>>}
      <4>1. Begun'[p] \subseteq Devices \X (1..MaxOrderId)
        BY <2>1 DEF Begun
      <4>2. Begun[p] \cup {<<d, m>>} \subseteq Devices \X (1..MaxOrderId)
        BY <2>1 DEF Begun
      <4>3. QED
        BY <3>2, <4>1, <4>2
    <3>4. DOMAIN Begun = Procs /\ DOMAIN Begun' = Procs
      BY DEF Begun
    <3>5. Begun = [q \in Procs |-> Begun[q]] /\ Begun' = [q \in Procs |-> Begun'[q]]
      BY DEF Begun
    <3>6. QED
      BY <2>1, <3>1, <3>3, <3>4, <3>5
  <2>8. CASE sent[t] = 0
    <3>1. \A b \in Begun[p] : b[2] # m /\ (b[1] = d => b[2] < m)
      <4> SUFFICES ASSUME NEW b \in Begun[p] PROVE b[2] # m /\ (b[1] = d => b[2] < m)
        OBVIOUS
      <4>1. PICK i \in DOMAIN wire[p][b[1]] : wire[p][b[1]][i].id = b[2]
        BY <2>1 DEF Begun
      <4>2. b[1] \in Devices /\ b[2] \in Nat /\ m \in Nat
        BY <2>1 DEF Begun
      <4>3. CASE b[1] # d
        BY <2>2, <4>1, <4>2, <4>3 DEF ElsewhereUnseen
      <4>4. CASE b[1] = d
        BY <2>2, <2>8, <4>1, <4>2, <4>4 DEF LastUnitIsMine
      <4>5. QED
        BY <4>3, <4>4
    <3>2. Abstract!Begin(p, d, m)
      BY <2>7, <3>1 DEF Abstract!Begin
    <3>3. QED
      BY <2>1, <3>2 DEF Abstract!Next
  <2>9. CASE sent[t] > 0
    <3>1. W # <<>> /\ W[Len(W)].id = m
      BY <2>2, <2>9 DEF LastUnitIsMine
    <3>2. n \in DOMAIN W
      BY <2>3, <2>4, <3>1
    <3>3. <<d, m>> \in Begun[p]
      BY <2>1, <2>4, <3>1, <3>2 DEF Begun
    <3>4. Begun = [q \in Procs |-> Begun[q]]
      BY DEF Begun
    <3>5. QED
      BY <2>1, <2>7, <3>3, <3>4
  <2>10. sent[t] \in Nat
    BY DEF ChannelInv, TypeOK, ThreadTypes
  <2>11. QED
    BY <2>8, <2>9, <2>10
<1>3. QED
  BY <1>1, <1>2

\* The sending side implements what the tool relies on, whatever the threads, the
\* failing writes, the forks and the execs do.
THEOREM Refinement == Spec => ImplementsOrderedLinks
<1>1. Init => Abstract!Init
  BY DEF Init, Abstract!Init, Begun, Endpoints
<1>2. ChannelInv /\ [Next]_vars => [Abstract!Next]_Begun
  BY StepShape, StepRefines DEF ChannelInv
<1>3. QED
  BY <1>1, <1>2, ChannelSafe, PTL DEF Spec, ImplementsOrderedLinks, Abstract!Spec

-----------------------------------------------------------------------------
(* What the callers are told.                                              *)

\* Numbers are handed out, and calls reported, only by a process that owns its state.
OwnedNumbers ==
    /\ ownerPid["host"] # "child"
    /\ \A p \in Procs : ownerPid[p] = None => nextOrderId[p] = 1
    /\ \A p \in Procs : ownerPid[p] # p => reported[p] = {}

\* A call that was reported has given its number up.
ReportedPast ==
    \A p \in Procs : \A rec \in reported[p] :
        /\ rec.id < nextOrderId[p]
        /\ \A t \in Threads : Proc(t) = p => orderId[t] # rec.id

\* A packet is not whole while its call is under way.
UnderWay == \A t \in Threads : orderId[t] > 0 => ~Complete(Proc(t), orderId[t])

AccountInv == ReportedTruthfully /\ NoNumberLost /\ OwnedNumbers /\ ReportedPast /\ UnderWay

\* The shapes of a step as the account sees it: no number moves, ...
Still ==
    /\ Untouched /\ UNCHANGED <<nextOrderId, reported>>
    /\ \A u \in Threads : orderId'[u] = orderId[u]
    /\ \A q \in Procs : ownerPid'[q] = ownerPid[q] \/ (ownerPid[q] = None /\ ownerPid'[q] = q)

\* ... a thread takes the next number, ...
Takes(t) ==
    /\ Untouched /\ UNCHANGED <<reported, ownerPid>>
    /\ ownerPid[Proc(t)] = Proc(t) /\ orderId[t] = 0
    /\ orderId'[t] = nextOrderId[Proc(t)] /\ \A u \in Threads : u # t => orderId'[u] = orderId[u]
    /\ nextOrderId'[Proc(t)] = nextOrderId[Proc(t)] + 1
    /\ \A q \in Procs : q # Proc(t) => nextOrderId'[q] = nextOrderId[q]

\* ... goes on with its packet, ...
Writes(t, x) ==
    /\ Extends(t, x) /\ x.idx # Chunks /\ ~x.fd
    /\ UNCHANGED <<reported, ownerPid, nextOrderId>> /\ \A u \in Threads : orderId'[u] = orderId[u]

\* ... or gives its number back, the packet whole in the socket or not.
Ends(t, r, whole) ==
    /\ orderId[t] > 0 /\ (whole <=> r > 0)
    /\ IF whole THEN \E x \in Unit : Extends(t, x) /\ (x.idx = Chunks \/ x.fd) ELSE Untouched
    /\ UNCHANGED <<ownerPid, nextOrderId>>
    /\ orderId'[t] = 0 /\ \A u \in Threads : u # t => orderId'[u] = orderId[u]
    /\ reported'[Proc(t)] = reported[Proc(t)] \cup {[id |-> orderId[t], r |-> r]}
    /\ \A q \in Procs : q # Proc(t) => reported'[q] = reported[q]

\* The child gets a copy of its parent's state, or starts afresh.
Renewed ==
    /\ Untouched /\ UNCHANGED <<orderId, reported>>
    /\ ownerPid["child"] # "child" /\ ownerPid'["host"] = ownerPid["host"] /\ nextOrderId'["host"] = nextOrderId["host"]
    /\ \/ ownerPid'["child"] = ownerPid["host"] /\ nextOrderId'["child"] = nextOrderId["host"]
       \/ ownerPid'["child"] = None /\ nextOrderId'["child"] = 1

\* Put on a connection the process itself opened.
LEMMA PutExtends ==
    ASSUME TypeOK, ControlInv, NEW t \in Threads, NEW x \in Unit, orderId[t] > 0, x.id = orderId[t], Put(t, x)
    PROVE  Extends(t, x)
<1>1. dev[t] \in Devices /\ Proc(t) \in Procs /\ conn[Proc(t)][dev[t]] = Proc(t)
  BY SenderFacts, ProcType
<1> QED BY <1>1 DEF Put, Extends, TypeOK, SocketTypes, Endpoints

\* What Return does to the numbers and the history.
LEMMA ReturnEffect ==
    ASSUME TypeOK, NEW t \in Threads, NEW r, Return(t, r)
    PROVE  /\ orderId'[t] = 0 /\ \A u \in Threads : u # t => orderId'[u] = orderId[u]
           /\ orderId[t] = 0 => reported' = reported
           /\ orderId[t] # 0 => /\ reported'[Proc(t)] = reported[Proc(t)] \cup {[id |-> orderId[t], r |-> r]}
                                /\ \A q \in Procs : q # Proc(t) => reported'[q] = reported[q]
BY ProcType DEF Return, TypeOK, ThreadTypes, SocketTypes

\* Every step has one of the shapes.
LEMMA AccountShape ==
    ASSUME TypeOK, ControlInv, [Next]_vars
    PROVE  \/ Still \/ Renewed
           \/ \E t \in Threads : Takes(t) \/ \E x \in Unit : Writes(t, x)
           \/ \E t \in Threads, r \in 0..Chunks, whole \in BOOLEAN : Ends(t, r, whole)
<1>0. /\ \A u \in Threads : /\ orderId[u] \in Nat /\ (HasNumber(u) <=> orderId[u] > 0)
                            /\ sent[u] \in Nat /\ (pc[u] \in {"mux", "write"} => sent[u] < Chunks)
                            /\ pc[u] \notin {"mux", "write"} => sent[u] = 0
      /\ Chunks \in Nat \ {0} /\ None \notin Procs /\ 0 \in 0..Chunks /\ 1 \in 0..Chunks /\ Chunks \in 0..Chunks
  BY ChannelAssumption DEF TypeOK, ThreadTypes, ControlInv, NumbersHeld
<1>1. ASSUME NEW t \in Threads,
             \/ Call(t) \/ LockDevices(t) \/ FindDevice(t) \/ LockSend(t) \/ ReserveLoad(t)
             \/ Memfd(t) \/ TextStart(t) \/ TakeMux(t) \/ SendFdFails(t)
      PROVE  Still
  <2>1. UNCHANGED <<wire, nextOrderId, reported, orderId, ownerPid>>
    BY <1>1 DEF Call, LockDevices, FindDevice, LockSend, ReserveLoad, Memfd, TextStart, TakeMux,
       SendFdFails, memoryVars, socketVars
  <2> QED BY <2>1 DEF Still, Untouched
<1>2. ASSUME NEW t \in Threads, GetInstance(t) \/ Enter(t) PROVE Still
  <2>1. UNCHANGED <<wire, nextOrderId, reported, orderId>> /\ ownerPid' = [ownerPid EXCEPT ![Proc(t)] = OwnerOf(Proc(t))]
    BY <1>2 DEF GetInstance, Enter, CheckProcessOwner, socketVars
  <2> QED BY <2>1, ProcType DEF Still, Untouched, OwnerOf, TypeOK, MemoryTypes
<1>3. ASSUME NEW t \in Threads, ReserveCas(t) PROVE Still \/ Takes(t)
  <2>1. UNCHANGED <<wire, ownerPid>> /\ pc[t] = "cas" /\ orderId[t] = 0 /\ Untouched
    BY <1>0, <1>3 DEF ReserveCas, HasNumber, Untouched
  <2>2. CASE next[t] \in {0, MaxOrderId}
    <3>1. Return(t, 0) /\ UNCHANGED nextOrderId
      BY <1>3, <2>2 DEF ReserveCas
    <3> QED BY <2>1, <3>1, ReturnEffect DEF Still
  <2>3. CASE next[t] \notin {0, MaxOrderId} /\ next[t] = nextOrderId[Proc(t)]
    <3>1. /\ nextOrderId' = [nextOrderId EXCEPT ![Proc(t)] = next[t] + 1]
          /\ orderId' = [orderId EXCEPT ![t] = next[t]] /\ UNCHANGED reported
      BY <1>3, <2>3 DEF ReserveCas
    <3>2. ownerPid[Proc(t)] = Proc(t)
      BY <2>1 DEF ControlInv, CallStages, InSend
    <3> QED BY <2>1, <2>3, <3>1, <3>2, ProcType DEF Takes, TypeOK, ThreadTypes, MemoryTypes
  <2>4. CASE next[t] \notin {0, MaxOrderId} /\ next[t] # nextOrderId[Proc(t)]
    <3>1. UNCHANGED <<orderId, nextOrderId, reported>>
      BY <1>3, <2>4 DEF ReserveCas
    <3> QED BY <2>1, <3>1 DEF Still
  <2> QED BY <2>2, <2>3, <2>4
<1>4. ASSUME NEW t \in Threads, WriteUnit(t)
      PROVE  Still \/ (\E x \in Unit : Writes(t, x)) \/ \E whole \in BOOLEAN : Ends(t, Chunks, whole)
  <2>1. PICK x : x = [id |-> orderId[t], idx |-> sent[t] + 1, fd |-> FALSE, by |-> Proc(t)]
    OBVIOUS
  <2>2. /\ Put(t, x) /\ UNCHANGED <<ownerPid, nextOrderId>> /\ pc[t] = "write"
        /\ \/ sent[t] + 1 < Chunks /\ UNCHANGED <<orderId, reported>>
           \/ sent[t] + 1 = Chunks /\ Return(t, Chunks)
    BY <1>4, <2>1 DEF WriteUnit
  <2>3. CASE kind[t] = "text"
    <3>1. dev[t] = General /\ orderId[t] = 0
      BY <1>0, <2>2, <2>3 DEF ControlInv, TextIsGeneral, HasNumber
    <3>2. Untouched
      BY <2>2, <3>1, ChannelAssumption DEF Untouched, Put, TypeOK, SocketTypes, Endpoints
    <3>3. UNCHANGED reported /\ \A u \in Threads : orderId'[u] = orderId[u]
      BY <2>2, <3>1, ReturnEffect
    <3> QED BY <2>2, <3>2, <3>3 DEF Still
  <2>4. CASE kind[t] # "text"
    <3>1. orderId[t] > 0 /\ sent[t] < Chunks
      BY <1>0, <2>2, <2>4 DEF HasNumber
    <3>2. x \in Unit /\ x.id = orderId[t] /\ x.idx = sent[t] + 1 /\ ~x.fd
      BY <1>0, <2>1, <3>1, ProcType, ChannelAssumption DEF Unit, TypeOK, ThreadTypes
    <3>3. Extends(t, x)
      BY <2>2, <3>1, <3>2, PutExtends
    <3>4. CASE sent[t] + 1 < Chunks /\ UNCHANGED <<orderId, reported>>
      <4>1. x.idx # Chunks
        BY <1>0, <3>2, <3>4
      <4>2. Writes(t, x)
        BY <2>2, <3>2, <3>3, <3>4, <4>1 DEF Writes
      <4> QED BY <3>2, <4>2
    <3>5. CASE sent[t] + 1 = Chunks /\ Return(t, Chunks)
      <4>1. Chunks > 0 /\ orderId[t] # 0 /\ x.idx = Chunks
        BY <1>0, <3>1, <3>2, <3>5
      <4>2. Ends(t, Chunks, TRUE)
        BY <2>2, <3>1, <3>2, <3>3, <3>5, <4>1, ReturnEffect DEF Ends
      <4> QED BY <4>2
    <3> QED BY <2>2, <3>4, <3>5
  <2> QED BY <2>3, <2>4
<1>5. ASSUME NEW t \in Threads, WriteFails(t) PROVE Still \/ Ends(t, 0, FALSE)
  <2>1. Return(t, 0) /\ UNCHANGED <<wire, ownerPid, nextOrderId>>
    BY <1>5 DEF WriteFails
  <2>2. Untouched
    BY <2>1 DEF Untouched
  <2>3. CASE orderId[t] = 0
    BY <2>1, <2>2, <2>3, ReturnEffect DEF Still
  <2>4. CASE orderId[t] # 0
    <3>1. orderId[t] > 0
      BY <1>0, <2>4
    <3> QED BY <2>1, <2>2, <3>1, <2>4, ReturnEffect DEF Ends
  <2> QED BY <2>3, <2>4
<1>6. ASSUME NEW t \in Threads, SendFd(t) PROVE Ends(t, 1, TRUE)
  <2>1. PICK x : x = [id |-> orderId[t], idx |-> 1, fd |-> TRUE, by |-> Proc(t)]
    OBVIOUS
  <2>2. Put(t, x) /\ UNCHANGED <<ownerPid, nextOrderId>> /\ Return(t, 1) /\ pc[t] = "sendmsg"
    BY <1>6, <2>1 DEF SendFd
  <2>3. orderId[t] > 0 /\ orderId[t] # 0
    BY <1>0, <2>2 DEF HasNumber
  <2>4. x \in Unit /\ x.id = orderId[t] /\ x.fd
    BY <1>0, <2>1, ProcType DEF Unit
  <2>5. Extends(t, x)
    BY <2>2, <2>3, <2>4, PutExtends
  <2> QED BY <2>2, <2>3, <2>4, <2>5, ReturnEffect DEF Ends
<1>7. ASSUME NEW p \in Procs, NEW e \in Endpoints, PeerCloses(p, e) PROVE Still
  BY <1>7 DEF PeerCloses, threadVars, memoryVars, Still, Untouched
<1>8. ASSUME NEW t \in HostThreads, Fork(t) PROVE Renewed
  <2>1. ownerPid["child"] = None /\ UNCHANGED <<wire, orderId, reported>>
    BY <1>8 DEF Fork, ControlInv, UnbornIsNobody, socketVars
  <2>2. /\ ownerPid' = [ownerPid EXCEPT !["child"] = ownerPid["host"]]
        /\ nextOrderId' = [nextOrderId EXCEPT !["child"] = nextOrderId["host"]]
    BY <1>8 DEF Fork
  <2> QED BY <1>0, <2>1, <2>2 DEF Renewed, Untouched, TypeOK, MemoryTypes, Procs
<1>9. CASE Exec
  BY <1>9 DEF Exec, Renewed, Untouched, TypeOK, MemoryTypes, Procs, socketVars, threadVars
<1>10. CASE UNCHANGED vars
  BY <1>10 DEF vars, Still, Untouched
<1> QED BY <1>0, <1>1, <1>2, <1>3, <1>4, <1>5, <1>6, <1>7, <1>8, <1>9, <1>10 DEF Next, Running

\* Which packets are whole after a unit was put, or none.
LEMMA CompleteExtends ==
    ASSUME TypeOK, ControlInv, NEW t \in Threads, NEW x \in Unit, Extends(t, x), NEW q \in Procs, NEW n
    PROVE  Complete(q, n)' <=> \/ Complete(q, n)
                               \/ q = Proc(t) /\ n = orderId[t] /\ (x.idx = Chunks \/ x.fd)
<1>1. PICK p \in Procs, d \in Devices : /\ p = Proc(t) /\ d = dev[t] /\ x.id = orderId[t]
                                        /\ wire'[p][d] = Append(wire[p][d], x)
                                        /\ \A r \in Procs, e \in Devices : r # p \/ e # d => wire'[r][e] = wire[r][e]
  <2>1. dev[t] \in Devices /\ Proc(t) \in Procs
    BY SenderFacts, ProcType DEF Extends
  <2>2. \A r \in Procs, e \in Devices : r # Proc(t) \/ e # dev[t] => wire'[r][e] = wire[r][e]
    BY DEF Extends
  <2> QED BY <2>1, <2>2 DEF Extends
<1>2. wire[p][d] \in Seq(Unit)
  BY DEF TypeOK, SocketTypes, Endpoints
<1>3. PICK m \in Nat : /\ m = Len(wire[p][d])
                       /\ DOMAIN wire[p][d] = 1..m /\ DOMAIN wire'[p][d] = 1..(m + 1)
                       /\ wire'[p][d][m + 1] = x /\ \A i \in 1..m : wire'[p][d][i] = wire[p][d][i]
  BY <1>1, <1>2
<1>4. ASSUME Complete(q, n)' PROVE Complete(q, n) \/ (q = p /\ n = x.id /\ (x.idx = Chunks \/ x.fd))
  <2>1. PICK e \in Devices : \E i \in DOMAIN wire'[q][e] :
           wire'[q][e][i].id = n /\ (wire'[q][e][i].idx = Chunks \/ wire'[q][e][i].fd)
    BY <1>4 DEF Complete
  <2>2. PICK i \in DOMAIN wire'[q][e] : wire'[q][e][i].id = n /\ (wire'[q][e][i].idx = Chunks \/ wire'[q][e][i].fd)
    BY <2>1
  <2>3. CASE q # p \/ e # d
    <3>1. wire'[q][e] = wire[q][e]
      BY <1>1, <2>3
    <3> QED BY <2>2, <3>1 DEF Complete
  <2>4. CASE q = p /\ e = d
    <3>1. i \in 1..(m + 1)
      BY <1>3, <2>4
    <3>2. CASE i = m + 1
      BY <1>3, <2>2, <2>4, <3>2
    <3>3. CASE i \in 1..m
      <4>1. i \in DOMAIN wire[q][e] /\ wire'[q][e][i] = wire[q][e][i]
        BY <1>3, <2>4, <3>3
      <4> QED BY <2>2, <4>1 DEF Complete
    <3> QED BY <3>1, <3>2, <3>3
  <2> QED BY <2>3, <2>4
<1>5. ASSUME Complete(q, n) PROVE Complete(q, n)'
  <2>1. PICK e \in Devices : \E i \in DOMAIN wire[q][e] :
           wire[q][e][i].id = n /\ (wire[q][e][i].idx = Chunks \/ wire[q][e][i].fd)
    BY <1>5 DEF Complete
  <2>2. PICK i \in DOMAIN wire[q][e] : wire[q][e][i].id = n /\ (wire[q][e][i].idx = Chunks \/ wire[q][e][i].fd)
    BY <2>1
  <2>3. i \in DOMAIN wire'[q][e] /\ wire'[q][e][i] = wire[q][e][i]
    <3>1. CASE q # p \/ e # d
      BY <1>1, <3>1
    <3>2. CASE q = p /\ e = d
      <4>1. i \in 1..m
        BY <1>3, <3>2
      <4> QED BY <1>3, <3>2, <4>1
    <3> QED BY <3>1, <3>2
  <2> QED BY <2>2, <2>3 DEF Complete
<1>6. ASSUME q = p, n = x.id, x.idx = Chunks \/ x.fd PROVE Complete(q, n)'
  <2>1. m + 1 \in DOMAIN wire'[p][d]
    BY <1>3
  <2> QED BY <1>3, <1>6, <2>1 DEF Complete
<1> QED BY <1>1, <1>4, <1>5, <1>6

\* Nothing is put.
LEMMA CompleteSame ==
    ASSUME Untouched, NEW q \in Procs, NEW n
    PROVE  Complete(q, n)' <=> Complete(q, n)
BY DEF Untouched, Complete

\* A number moves in no other way.
LEMMA StillKeeps == TypeOK /\ AccountInv /\ Still => AccountInv'
<1> SUFFICES ASSUME TypeOK, AccountInv, Still PROVE AccountInv'
  OBVIOUS
<1> USE DEF Still
<1>1. ReportedTruthfully' /\ UnderWay'
  BY CompleteSame, ProcType DEF AccountInv, ReportedTruthfully, UnderWay, Proc
<1>2. OwnedNumbers'
  BY ChannelAssumption DEF AccountInv, OwnedNumbers, Procs
<1>3. ReportedPast'
  BY DEF AccountInv, ReportedPast, Proc
<1>4. NoNumberLost'
  <2> SUFFICES ASSUME NEW p \in Procs, NEW n \in 1..(nextOrderId[p] - 1), ownerPid'[p] = p,
                      ~\E rec \in reported[p] : rec.id = n
               PROVE  \E t \in Threads : Proc(t) = p /\ orderId'[t] = n
    BY DEF NoNumberLost, Proc
  <2>1. ownerPid[p] = p
    BY DEF AccountInv, OwnedNumbers
  <2> QED BY <2>1 DEF AccountInv, NoNumberLost
<1> QED BY <1>1, <1>2, <1>3, <1>4 DEF AccountInv

\* A number the source hands out belongs to the call that took it and to no packet yet.
LEMMA TakesKeeps ==
    ASSUME TypeOK, ControlInv, WireInv, AccountInv, NEW t \in Threads, Takes(t)
    PROVE  AccountInv'
<1> USE DEF Takes
<1>1. PICK p \in Procs, n \in Nat \ {0} : p = Proc(t) /\ n = nextOrderId[p]
  BY ProcType DEF TypeOK, MemoryTypes
<1>2. /\ \A u \in Threads : orderId[u] \in Nat /\ (Proc(u) = p => orderId[u] < n)
      /\ \A rec \in reported[p] : rec.id \in Nat /\ rec.id < n
  BY <1>1 DEF TypeOK, ThreadTypes, SocketTypes, ControlInv, NumbersHeld, AccountInv, ReportedPast
<1>3. ~Complete(p, n)
  <2> SUFFICES ASSUME NEW d \in Devices, NEW i \in DOMAIN wire[p][d] PROVE wire[p][d][i].id # n
    BY DEF Complete
  <2>1. wire[p][d][i].id < n /\ wire[p][d] \in Seq(Unit)
    BY <1>1 DEF WireInv, NumbersBelowSource, TypeOK, SocketTypes, Endpoints
  <2>2. wire[p][d][i] \in Unit
    BY <2>1
  <2> QED BY <1>1, <2>1, <2>2 DEF Unit
<1>4. ReportedTruthfully'
  BY CompleteSame DEF AccountInv, ReportedTruthfully
<1>5. ASSUME NEW u \in Threads, orderId'[u] > 0
      PROVE  ~Complete(Proc(u), orderId[u])'
  <2>0. PICK q \in Procs, k \in Nat : q = Proc(u) /\ k = orderId'[u] /\ Proc(u)' = q
    <3>1. orderId'[u] \in Nat
      BY <1>1, <1>2
    <3> QED BY <3>1, ProcType DEF Proc
  <2>1. CASE u = t
    <3>1. ~Complete(q, k)'
      BY <1>1, <1>3, <2>0, <2>1, CompleteSame
    <3> QED BY <2>0, <3>1 DEF Complete
  <2>2. CASE u # t
    <3>1. ~Complete(q, k)
      BY <1>5, <2>0, <2>2 DEF AccountInv, UnderWay
    <3>2. ~Complete(q, k)'
      BY <3>1, CompleteSame
    <3> QED BY <2>0, <3>2 DEF Complete
  <2> QED BY <2>1, <2>2
<1>6. UnderWay'
  BY <1>5 DEF UnderWay
<1>7. OwnedNumbers'
  BY <1>1, ChannelAssumption DEF AccountInv, OwnedNumbers, Procs
<1>8. ReportedPast'
  <2> SUFFICES ASSUME NEW q \in Procs, NEW rec \in reported[q]
               PROVE  rec.id < nextOrderId'[q] /\ \A u \in Threads : Proc(u) = q => orderId'[u] # rec.id
    BY DEF ReportedPast, Proc
  <2>1. rec.id < nextOrderId[q] /\ \A u \in Threads : Proc(u) = q => orderId[u] # rec.id
    BY DEF AccountInv, ReportedPast
  <2>2. rec.id < nextOrderId'[q]
    BY <1>1, <1>2, <2>1
  <2>3. ASSUME NEW u \in Threads, Proc(u) = q PROVE orderId'[u] # rec.id
    BY <1>1, <1>2, <2>1, <2>3
  <2> QED BY <2>2, <2>3
<1>9. NoNumberLost'
  <2> SUFFICES ASSUME NEW q \in Procs, NEW k \in 1..(nextOrderId'[q] - 1), ownerPid[q] = q,
                      ~\E rec \in reported[q] : rec.id = k
               PROVE  \E u \in Threads : Proc(u) = q /\ orderId'[u] = k
    BY DEF NoNumberLost, Proc
  <2>1. CASE q = p /\ k = n
    BY <1>1, <2>1
  <2>2. CASE ~(q = p /\ k = n)
    <3>1. k \in 1..(nextOrderId[q] - 1)
      BY <1>1, <2>2
    <3>2. PICK u \in Threads : Proc(u) = q /\ orderId[u] = k
      BY <3>1 DEF AccountInv, NoNumberLost
    <3>3. u # t
      BY <3>1, <3>2
    <3> QED BY <3>2, <3>3
  <2> QED BY <2>1, <2>2
<1> QED BY <1>4, <1>6, <1>7, <1>8, <1>9 DEF AccountInv

\* A unit that is not the last leaves every packet as whole as it was.
LEMMA WritesKeeps ==
    ASSUME TypeOK, ControlInv, AccountInv, NEW t \in Threads, NEW x \in Unit, Writes(t, x)
    PROVE  AccountInv'
<1> USE DEF Writes
<1>1. \A q \in Procs : \A n : Complete(q, n)' <=> Complete(q, n)
  BY CompleteExtends
<1>2. ReportedTruthfully' /\ UnderWay'
  BY <1>1, ProcType DEF AccountInv, ReportedTruthfully, UnderWay, Proc
<1>3. OwnedNumbers' /\ ReportedPast' /\ NoNumberLost'
  BY DEF AccountInv, OwnedNumbers, ReportedPast, NoNumberLost, Proc
<1> QED BY <1>2, <1>3 DEF AccountInv

\* A call that gives its number back is reported as whole as its packet is.
LEMMA EndsKeeps ==
    ASSUME TypeOK, ControlInv, WireInv, AccountInv, NEW t \in Threads, NEW r \in 0..Chunks, NEW whole \in BOOLEAN,
           Ends(t, r, whole)
    PROVE  AccountInv'
<1> USE DEF Ends
<1>1. PICK p \in Procs, n \in Nat \ {0} : p = Proc(t) /\ n = orderId[t] /\ n < nextOrderId[p]
  BY ProcType DEF TypeOK, ThreadTypes, ControlInv, NumbersHeld
<1>2. \A q \in Procs : \A k : Complete(q, k)' <=> Complete(q, k) \/ (q = p /\ k = n /\ whole)
  BY <1>1, CompleteExtends, CompleteSame
<1>3. PICK new : new = [id |-> n, r |-> r] /\ new.id = n /\ new.r = r
  <2>1. [id |-> n, r |-> r].id = n /\ [id |-> n, r |-> r].r = r
    OBVIOUS
  <2> QED BY <2>1
<1>4. reported'[p] = reported[p] \cup {new} /\ \A q \in Procs : q # p => reported'[q] = reported[q]
  BY <1>1, <1>3
<1>5. ownerPid[p] = p /\ ~Complete(p, n) /\ \A rec \in reported[p] : rec.id # n
  BY <1>1, SenderFacts DEF AccountInv, UnderWay, ReportedPast
<1>6. ReportedTruthfully'
  <2> SUFFICES ASSUME NEW q \in Procs, NEW rec \in reported'[q] PROVE rec.r > 0 <=> Complete(q, rec.id)'
    BY DEF ReportedTruthfully
  <2>1. CASE q = p /\ rec = new
    BY <1>2, <1>3, <1>5, <2>1
  <2>2. CASE rec \in reported[q]
    <3>1. rec.r > 0 <=> Complete(q, rec.id)
      BY <2>2 DEF AccountInv, ReportedTruthfully
    <3> QED BY <1>2, <1>5, <2>2, <3>1
  <2> QED BY <1>4, <2>1, <2>2
<1>7. \A u \in Threads : u # t /\ Proc(u) = p => orderId[u] # n
  BY <1>1 DEF WireInv, NumbersDistinct
<1>8. ASSUME NEW u \in Threads, orderId'[u] > 0 PROVE ~Complete(Proc(u), orderId[u])'
  <2>1. u # t /\ orderId'[u] = orderId[u]
    BY <1>8
  <2>2. PICK q \in Procs, k \in Nat : q = Proc(u) /\ k = orderId[u] /\ Proc(u)' = q /\ k = orderId'[u]
    BY <2>1, ProcType DEF Proc, TypeOK, ThreadTypes
  <2>3. ~Complete(q, k)
    BY <1>8, <2>1, <2>2 DEF AccountInv, UnderWay
  <2>4. ~(q = p /\ k = n)
    BY <1>7, <2>1, <2>2
  <2>5. ~Complete(q, k)'
    BY <1>2, <2>3, <2>4
  <2> QED BY <2>2, <2>5 DEF Complete
<1>9. UnderWay'
  BY <1>8 DEF UnderWay
<1>10. OwnedNumbers'
  BY <1>4, <1>5 DEF AccountInv, OwnedNumbers
<1>11. ReportedPast'
  <2> SUFFICES ASSUME NEW q \in Procs, NEW rec \in reported'[q]
               PROVE  rec.id < nextOrderId[q] /\ \A u \in Threads : Proc(u) = q => orderId'[u] # rec.id
    BY DEF ReportedPast, Proc
  <2>1. CASE q = p /\ rec = new
    <3>1. \A u \in Threads : Proc(u) = q => orderId'[u] # n
      BY <1>1, <1>7, <2>1
    <3> QED BY <1>1, <1>3, <2>1, <3>1
  <2>2. CASE rec \in reported[q]
    <3>1. rec.id < nextOrderId[q] /\ (\A u \in Threads : Proc(u) = q => orderId[u] # rec.id) /\ rec.id # 0
      BY <2>2 DEF AccountInv, ReportedPast, TypeOK, SocketTypes
    <3> QED BY <3>1
  <2> QED BY <1>4, <2>1, <2>2
<1>12. NoNumberLost'
  <2> SUFFICES ASSUME NEW q \in Procs, NEW k \in 1..(nextOrderId[q] - 1), ownerPid[q] = q,
                      ~\E rec \in reported'[q] : rec.id = k
               PROVE  \E u \in Threads : Proc(u) = q /\ orderId'[u] = k
    BY DEF NoNumberLost, Proc
  <2>1. ~\E rec \in reported[q] : rec.id = k
    BY <1>4
  <2>2. PICK u \in Threads : Proc(u) = q /\ orderId[u] = k
    BY <2>1 DEF AccountInv, NoNumberLost
  <2>3. u # t
    BY <1>1, <1>3, <1>4, <2>2
  <2> QED BY <2>2, <2>3
<1> QED BY <1>6, <1>9, <1>10, <1>11, <1>12 DEF AccountInv

\* A child that does not own its state has reported nothing.
LEMMA RenewedKeeps == TypeOK /\ ControlInv /\ AccountInv /\ Renewed => AccountInv'
<1> SUFFICES ASSUME TypeOK, ControlInv, AccountInv, Renewed PROVE AccountInv'
  OBVIOUS
<1> USE DEF Renewed
<1>1. /\ Procs = {"host", "child"} /\ None \notin Procs /\ reported["child"] = {} /\ ownerPid["host"] # "child"
      /\ ownerPid'["child"] # "child"
  BY ChannelAssumption DEF Procs, AccountInv, OwnedNumbers
<1>2. ReportedTruthfully' /\ UnderWay'
  BY CompleteSame, ProcType DEF AccountInv, ReportedTruthfully, UnderWay, Proc
<1>3. OwnedNumbers'
  BY <1>1 DEF AccountInv, OwnedNumbers
<1>4. ReportedPast'
  BY <1>1 DEF AccountInv, ReportedPast, Proc
<1>5. NoNumberLost'
  <2> SUFFICES ASSUME NEW q \in Procs, NEW k \in 1..(nextOrderId'[q] - 1), ownerPid'[q] = q
               PROVE  (\E rec \in reported[q] : rec.id = k) \/ \E u \in Threads : Proc(u) = q /\ orderId[u] = k
    BY DEF NoNumberLost, Proc
  <2>1. q = "host" /\ k \in 1..(nextOrderId["host"] - 1) /\ ownerPid["host"] = "host"
    BY <1>1
  <2> QED BY <2>1 DEF AccountInv, NoNumberLost
<1> QED BY <1>2, <1>3, <1>4, <1>5 DEF AccountInv

\* At the start no number is out and nothing is reported.
LEMMA InitAccount == Init => AccountInv
<1> SUFFICES ASSUME Init PROVE AccountInv
  OBVIOUS
<1> USE DEF Init
<1>1. /\ \A p \in Procs : reported[p] = {} /\ ownerPid[p] = None /\ nextOrderId[p] = 1
      /\ \A t \in Threads : orderId[t] = 0
      /\ Procs = {"host", "child"} /\ None \notin Procs
  BY ChannelAssumption DEF Procs
<1> HIDE DEF Init
<1>2. ReportedTruthfully /\ NoNumberLost /\ ReportedPast /\ UnderWay
  BY <1>1 DEF ReportedTruthfully, NoNumberLost, ReportedPast, UnderWay
<1>3. OwnedNumbers
  BY <1>1 DEF OwnedNumbers
<1> QED BY <1>2, <1>3 DEF AccountInv

\* What Notify and NotifyKernelBinary return is what is in the socket, whole or not,
\* and no number ReserveOrderId hands out is lost, for any threads, devices, message
\* sizes, failing writes, forks and execs.
THEOREM CallsAreAccounted == Spec => []CallsAccounted
<1>1. ChannelInv /\ AccountInv /\ [Next]_vars => AccountInv'
  BY AccountShape, StillKeeps, TakesKeeps, WritesKeeps, EndsKeeps, RenewedKeeps DEF ChannelInv
<1>2. AccountInv => CallsAccounted
  BY DEF AccountInv, CallsAccounted
<1> QED BY <1>1, <1>2, InitAccount, ChannelSafe, PTL DEF Spec
=============================================================================
