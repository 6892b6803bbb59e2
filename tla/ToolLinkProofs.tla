--------------------------- MODULE ToolLinkProofs ---------------------------
(***************************************************************************)
(* Proofs about ToolLink, for any number of threads, devices, clients and  *)
(* calls.                                                                  *)
(***************************************************************************)
EXTENDS ToolLink, TLAPS

-----------------------------------------------------------------------------
(* The inductive invariant.                                                *)

Kind == {"ipc", "lastBlock", "getConfig", "block", "collectStart", "profFinish", "dataPath", "ctrl",
         "data", "init", "none", "ipcResponse", "kernelResponse", "payload", "SUC", "path", "config"}
Msg == [kind : Kind, of : Nat]
Before == {"connect", "config", "configWait", "lock", "send"}

ConnRec == [state : {"new", "queued", "accepted", "leaked", "refused", "closed"},
            up : Seq(Msg), down : Seq(Msg)]
Thr == [pc : Before \cup {"idle", "wait"}, kind : Kind, c : Conns \cup {None}, n : Nat,
        buf : Seq(Msg)]
Reader == [at : {"none", "loop", "read", "handle", "done"}, got : Seq(Msg)]
Server == [life : {"off", "running", "failed", "stopping", "joined", "gone"},
           acceptor : {"none", "loop", "accept", "hook", "done"}, client : Conns \cup {None},
           num : Nat, readWorker : Seq(Conns), joined : Nat]

TypeOK ==
    /\ calls \in Nat
    /\ mode \in {"sanitizer", "profiler"}
    /\ conn \in [Conns -> ConnRec]
    /\ thr \in [Threads -> Thr]
    /\ configMap \in [Devices -> {"none", "config", "default"}]
    /\ instance \in {"none", "making", "made"}
    /\ server \in Server
    /\ reader \in [Conns -> Reader]
    /\ last \in [Threads -> [c : Conns \cup {None}, of : Nat, buf : Seq(Msg)]]

\* The messages of a sequence; no two of them are of the same request.
Elems(s) == {s[i] : i \in DOMAIN s}
Distinct(s) == \A i, j \in DOMAIN s : s[i].of = s[j].of => i = j

\* The requests on their way or in the reader's hands, and all messages of c.
Requests(c) == Elems(conn[c].up) \cup Elems(reader[c].got)
Messages(c) == Requests(c) \cup Elems(conn[c].down)
Answered(m) == QueryResponsePacketType(m.kind) # "none"

\* The thread of the request that m is, or answers, still waits on c, or has gone
\* without its answer.
Owned(m, c) ==
    \/ m.of \in unmet
    \/ \E u \in Threads : thr[u].pc = "wait" /\ thr[u].n = m.of /\ thr[u].c = c

\* A request is on its way, in the reader's hands or answered, never twice.
FlowInv(c) ==
    /\ \A m \in Requests(c) : m.of \in 1..calls
    /\ \A m \in Elems(conn[c].down) : m = Config \/ (m.kind # "config" /\ m.of \in 1..calls)
    /\ Distinct(conn[c].up) /\ Distinct(reader[c].got)
    /\ \A m \in Elems(conn[c].up), k \in Elems(reader[c].got) : m.of # k.of
    /\ \A m \in Requests(c), k \in Elems(conn[c].down) : m.of # k.of
    /\ reader[c].at = "handle" <=> reader[c].got # <<>>
    /\ conn[c].state \in {"new", "queued"} => reader[c].at = "none"
    /\ \A m \in Requests(c) : Answered(m) => Owned(m, c)
    /\ \A m \in Elems(conn[c].down) : m.kind # "config" => Owned(m, c)
    /\ Config \in Elems(conn[c].down) => mode = "sanitizer"

\* A call has a number of its own, ...
UniqueInv ==
    /\ \A t \in Threads : thr[t].pc # "idle" => thr[t].n \in 1..calls
    /\ \A t, u \in Threads :
          thr[t].pc # "idle" /\ thr[u].pc # "idle" /\ thr[t].n = thr[u].n => t = u

\* ... which is in no message before the call sends it, and once its answer has been
\* received in none any more.
UsedInv(t) ==
    /\ thr[t].pc \in Before => \A c \in Conns : \A m \in Messages(c) : m.of # thr[t].n
    /\ thr[t].pc = "wait" /\ (\E k \in Elems(thr[t].buf) : k.of = thr[t].n) =>
           \A c \in Conns : thr[t].c = c => \A m \in Messages(c) : m.of # thr[t].n

\* Who calls what, on which connection: a profiler request holds communtionMx_ from
\* before it is sent, and nobody else calls while the singleton is constructed.
ModeInv(t) ==
    /\ thr[t].pc # "idle" /\ mode = "sanitizer" => thr[t].c \in Devices /\ thr[t].kind \in SanitizerKinds
    /\ thr[t].pc # "idle" /\ mode = "profiler" =>
           /\ thr[t].c = General
           /\ \/ /\ thr[t].kind = "init" /\ instance = "making"
                 /\ \A u \in Threads : u # t => thr[u].pc = "idle"
              \/ /\ thr[t].kind \in ProfilerKinds /\ instance = "made"
                 /\ thr[t].pc \in {"send", "wait"} => communtionMx = t
    /\ mode = "profiler" /\ instance = "none" => thr[t].pc = "idle"

\* What the call has done by now, and what its wait has received so far.
CallInv(t) ==
    /\ thr[t].pc # "wait" => thr[t].buf = <<>>
    /\ thr[t].pc \in {"config", "configWait"} => thr[t].kind \in Interacts \cup {"getConfig"}
    /\ thr[t].pc = "configWait" => configMutex = t /\ configMap[thr[t].c] = "none"
    /\ thr[t].pc = "lock" => thr[t].kind \in ProfilerKinds
    /\ thr[t].pc \in {"send", "wait"} /\ thr[t].kind \in Interacts => configMap[thr[t].c] # "none"
    /\ thr[t].pc = "wait" => QueryResponsePacketType(thr[t].kind) # "none"
    /\ \A m \in Elems(thr[t].buf) : m.of = thr[t].n \/ Explained(m, thr[t].c)

\* Two waits on one connection are two Interacts on a device.
TogetherInv ==
    \A t, u \in Threads :
        t # u /\ thr[t].pc = "wait" /\ thr[u].pc = "wait" /\ thr[t].c = thr[u].c =>
            thr[t].c \in Devices /\ thr[t].n \in mixed

\* The tool has not yet sent the configuration of d.
Pending(d) ==
    \/ conn[d].state \in {"new", "queued"}
    \/ server.acceptor = "hook" /\ server.client = d

\* The configuration is sent once, first, and received before the first request.
ConfigInv(d) ==
    /\ configMap[d] = "none" =>
           /\ \A m \in Requests(d) : ~Answered(m)
           /\ conn[d].down \in {<<>>, <<Config>>}
    /\ Pending(d) => Config \notin Elems(conn[d].down) /\ configMap[d] # "config"
    /\ configMap[d] = "config" => Config \notin Elems(conn[d].down)
    /\ configMap[d] = "default" => d \in configOut

\* A reader that was started is in readWorker_; those the destructor has walked over
\* are done; and nobody adds to the vector once the destructor walks it.
Walked ==
    /\ \A c \in Conns : reader[c].at # "none" =>
                          \E i \in 1..Len(server.readWorker) : server.readWorker[i] = c
    /\ server.joined <= Len(server.readWorker)
    /\ \A i \in 1..server.joined : reader[server.readWorker[i]].at = "done"

ServerInv ==
    /\ server.acceptor = "hook" =>
           server.client \in Conns /\ conn[server.client].state \notin {"new", "queued"}
    /\ server.life \in {"off", "failed"} => server.acceptor = "none"
    /\ server.life \in {"joined", "gone"} => server.acceptor \in {"none", "done"}
    /\ server.life = "gone" => /\ server.joined = Len(server.readWorker)
                               /\ \A c \in Conns : conn[c].state \notin {"queued", "accepted"}
    /\ Walked

LinkInv ==
    /\ TypeOK
    /\ \A c \in Conns : FlowInv(c)
    /\ UniqueInv
    /\ \A t \in Threads : UsedInv(t) /\ ModeInv(t) /\ CallInv(t)
    /\ TogetherInv
    /\ \A d \in Devices : ConfigInv(d)
    /\ OwnAnswer
    /\ ServerInv

-----------------------------------------------------------------------------
(* Sequences of messages.                                                  *)

\* An empty socket holds no message.
LEMMA ElemsEmpty == Elems(<<>>) = {} /\ Distinct(<<>>) /\ <<>> \in Seq(Msg)
BY DEF Elems, Distinct

\* A socket with one message holds that message.
LEMMA ElemsOne == ASSUME NEW m PROVE Elems(<<m>>) = {m}
BY DEF Elems

\* Writing adds one message, and keeps them distinct if its number is new.
LEMMA ElemsAppend ==
    ASSUME NEW s \in Seq(Msg), NEW m \in Msg
    PROVE  /\ Append(s, m) \in Seq(Msg) /\ Elems(Append(s, m)) = Elems(s) \cup {m}
           /\ Distinct(s) /\ (\A k \in Elems(s) : k.of # m.of) => Distinct(Append(s, m))
<1>1. /\ Append(s, m) \in Seq(Msg) /\ DOMAIN Append(s, m) = 1..(Len(s) + 1) /\ Len(s) \in Nat
      /\ DOMAIN s = 1..Len(s)
      /\ \A i \in 1..Len(s) : Append(s, m)[i] = s[i]
      /\ Append(s, m)[Len(s) + 1] = m
  OBVIOUS
<1>2. Elems(Append(s, m)) = Elems(s) \cup {m}
  BY <1>1 DEF Elems
<1>3. ASSUME Distinct(s), \A k \in Elems(s) : k.of # m.of PROVE Distinct(Append(s, m))
  BY <1>1, <1>3 DEF Elems, Distinct
<1> QED BY <1>1, <1>2, <1>3

\* Handling the first message leaves the others.
LEMMA ElemsHead ==
    ASSUME NEW s \in Seq(Msg), s # <<>>
    PROVE  /\ Head(s) \in Msg /\ Tail(s) \in Seq(Msg) /\ Elems(s) = {Head(s)} \cup Elems(Tail(s))
           /\ Distinct(s) => Distinct(Tail(s)) /\ \A k \in Elems(Tail(s)) : k.of # Head(s).of
<1>1. /\ Tail(s) \in Seq(Msg) /\ Len(s) \in Nat \ {0} /\ DOMAIN s = 1..Len(s) /\ Head(s) = s[1]
      /\ Head(s) \in Msg /\ DOMAIN Tail(s) = 1..(Len(s) - 1)
      /\ \A i \in 1..(Len(s) - 1) : Tail(s)[i] = s[i + 1]
  OBVIOUS
<1>2. Elems(s) = {Head(s)} \cup Elems(Tail(s))
  <2>1. ASSUME NEW i \in 1..Len(s) PROVE s[i] \in {Head(s)} \cup Elems(Tail(s))
    <3>1. CASE i = 1
      BY <1>1, <3>1
    <3>2. CASE i # 1
      <4>1. i - 1 \in 1..(Len(s) - 1) /\ s[i] = Tail(s)[i - 1]
        BY <1>1, <3>2
      <4> QED BY <1>1, <4>1 DEF Elems
    <3> QED BY <3>1, <3>2
  <2>2. Elems(Tail(s)) \subseteq Elems(s)
    BY <1>1 DEF Elems
  <2>3. Head(s) \in Elems(s)
    BY <1>1 DEF Elems
  <2> QED BY <1>1, <2>1, <2>2, <2>3 DEF Elems
<1>3. ASSUME Distinct(s) PROVE Distinct(Tail(s)) /\ \A k \in Elems(Tail(s)) : k.of # Head(s).of
  BY <1>1, <1>3 DEF Elems, Distinct
<1> QED BY <1>1, <1>2, <1>3

\* What a wait has received is what it had and what it reads now.
LEMMA ElemsCat ==
    ASSUME NEW s \in Seq(Msg), NEW r \in Seq(Msg)
    PROVE  s \o r \in Seq(Msg) /\ Elems(s \o r) = Elems(s) \cup Elems(r)
<1>1. /\ s \o r \in Seq(Msg) /\ Len(s) \in Nat /\ Len(r) \in Nat
      /\ DOMAIN s = 1..Len(s) /\ DOMAIN r = 1..Len(r) /\ DOMAIN (s \o r) = 1..(Len(s) + Len(r))
      /\ \A i \in 1..(Len(s) + Len(r)) : (s \o r)[i] = IF i <= Len(s) THEN s[i] ELSE r[i - Len(s)]
  OBVIOUS
<1>2. Elems(s \o r) \subseteq Elems(s) \cup Elems(r)
  <2>1. ASSUME NEW i \in 1..(Len(s) + Len(r)) PROVE (s \o r)[i] \in Elems(s) \cup Elems(r)
    <3>1. CASE i <= Len(s)
      BY <1>1, <3>1 DEF Elems
    <3>2. CASE ~(i <= Len(s))
      <4>1. i - Len(s) \in 1..Len(r) /\ (s \o r)[i] = r[i - Len(s)]
        BY <1>1, <3>2
      <4> QED BY <1>1, <4>1 DEF Elems
    <3> QED BY <3>1, <3>2
  <2> QED BY <1>1, <2>1 DEF Elems
<1>3. Elems(s) \subseteq Elems(s \o r)
  <2>1. ASSUME NEW i \in 1..Len(s) PROVE s[i] \in Elems(s \o r)
    <3>1. i \in 1..(Len(s) + Len(r)) /\ (s \o r)[i] = s[i]
      BY <1>1
    <3> QED BY <1>1, <3>1 DEF Elems
  <2> QED BY <1>1, <2>1 DEF Elems
<1>4. Elems(r) \subseteq Elems(s \o r)
  <2>1. ASSUME NEW i \in 1..Len(r) PROVE r[i] \in Elems(s \o r)
    <3>1. Len(s) + i \in 1..(Len(s) + Len(r)) /\ (s \o r)[Len(s) + i] = r[i]
      BY <1>1
    <3> QED BY <1>1, <3>1 DEF Elems
  <2> QED BY <1>1, <2>1 DEF Elems
<1> QED BY <1>1, <1>2, <1>3, <1>4

-----------------------------------------------------------------------------
(* Types.                                                                  *)

\* A call in progress has a connection.
LEMMA CallConn ==
    ASSUME TypeOK, NEW t \in Threads, ModeInv(t), thr[t].pc # "idle" PROVE thr[t].c \in Conns
BY DEF TypeOK, ModeInv, Conns

\* The configuration and the answers are messages; an answer has the number of its
\* request and is never the configuration.
LEMMA MsgFacts ==
    /\ Config \in Msg /\ Config.kind = "config" /\ Config.of = 0
    /\ \A m \in Msg : /\ AnswerTo(m) \in Msg /\ AnswerTo(m).of = m.of
                      /\ AnswerTo(m).kind = QueryResponsePacketType(m.kind)
                      /\ AnswerTo(m).kind # "config"
BY DEF Config, Msg, Kind, AnswerTo, QueryResponsePacketType

\* The variables have their types at the start.
LEMMA InitType == Init => TypeOK
<1> SUFFICES ASSUME Init PROVE TypeOK
  OBVIOUS
<1>1. [state |-> "new", up |-> <<>>, down |-> <<>>] \in ConnRec
  BY ElemsEmpty DEF ConnRec
<1>2. Idle \in Thr
  BY ElemsEmpty DEF Idle, Thr, Kind
<1>3. NoCall \in [c : Conns \cup {None}, of : Nat, buf : Seq(Msg)]
  BY ElemsEmpty DEF NoCall
<1>4. [life |-> "off", acceptor |-> "none", client |-> None, num |-> 0, readWorker |-> <<>>,
       joined |-> 0] \in Server
  <2>1. <<>> \in Seq(Conns)
    OBVIOUS
  <2> QED BY <2>1 DEF Server
<1>5. [at |-> "none", got |-> <<>>] \in Reader
  BY ElemsEmpty DEF Reader
<1> QED BY <1>1, <1>2, <1>3, <1>4, <1>5 DEF Init, TypeOK

\* A socket changes its state, gets a message from the process, or from the server.
LEMMA ConnState ==
    ASSUME TypeOK, NEW c \in Conns, NEW s \in {"new", "queued", "accepted", "leaked", "refused", "closed"},
           conn' = [conn EXCEPT ![c].state = s]
    PROVE  /\ conn' \in [Conns -> ConnRec] /\ conn'[c].state = s
           /\ conn'[c].up = conn[c].up /\ conn'[c].down = conn[c].down
           /\ \A x \in Conns : x # c => conn'[x] = conn[x]
BY DEF TypeOK, ConnRec

\* A socket with other requests of the process in it.
LEMMA ConnUp ==
    ASSUME TypeOK, NEW c \in Conns, NEW s \in Seq(Msg), conn' = [conn EXCEPT ![c].up = s]
    PROVE  /\ conn' \in [Conns -> ConnRec] /\ conn'[c].up = s
           /\ conn'[c].state = conn[c].state /\ conn'[c].down = conn[c].down
           /\ \A x \in Conns : x # c => conn'[x] = conn[x]
BY DEF TypeOK, ConnRec

\* A socket with other messages of the server in it.
LEMMA ConnDown ==
    ASSUME TypeOK, NEW c \in Conns, NEW s \in Seq(Msg), conn' = [conn EXCEPT ![c].down = s]
    PROVE  /\ conn' \in [Conns -> ConnRec] /\ conn'[c].down = s
           /\ conn'[c].state = conn[c].state /\ conn'[c].up = conn[c].up
           /\ \A x \in Conns : x # c => conn'[x] = conn[x]
BY DEF TypeOK, ConnRec

\* A thread goes on to its next step, or keeps what it has read.
LEMMA ThrPc ==
    ASSUME TypeOK, NEW t \in Threads, NEW l \in Before \cup {"idle", "wait"}, Goto(t, l)
    PROVE  /\ thr' \in [Threads -> Thr] /\ thr'[t].pc = l /\ thr'[t].kind = thr[t].kind
           /\ thr'[t].c = thr[t].c /\ thr'[t].n = thr[t].n /\ thr'[t].buf = thr[t].buf
           /\ \A u \in Threads : u # t => thr'[u] = thr[u]
BY ZenonT(30) DEF TypeOK, Thr, Goto

\* A wait keeps what it has read.
LEMMA ThrBuf ==
    ASSUME TypeOK, NEW t \in Threads, NEW b \in Seq(Msg), thr' = [thr EXCEPT ![t].buf = b]
    PROVE  /\ thr' \in [Threads -> Thr] /\ thr'[t].pc = thr[t].pc /\ thr'[t].kind = thr[t].kind
           /\ thr'[t].c = thr[t].c /\ thr'[t].n = thr[t].n /\ thr'[t].buf = b
           /\ \A u \in Threads : u # t => thr'[u] = thr[u]
BY DEF TypeOK, Thr

\* A call returns.
LEMMA Finishes ==
    ASSUME TypeOK, NEW t \in Threads, NEW b \in Seq(Msg), Finish(t, b)
    PROVE  /\ thr' \in [Threads -> Thr] /\ thr'[t].pc = "idle" /\ thr'[t].buf = <<>>
           /\ \A u \in Threads : u # t => thr'[u] = thr[u] /\ last'[u] = last[u]
           /\ last' \in [Threads -> [c : Conns \cup {None}, of : Nat, buf : Seq(Msg)]]
           /\ last'[t].c = thr[t].c /\ last'[t].of = thr[t].n /\ last'[t].buf = b
           /\ instance' \in {"none", "making", "made"}
<1>1. Idle \in Thr /\ Idle.pc = "idle" /\ Idle.buf = <<>>
  BY ElemsEmpty DEF Idle, Thr, Kind
<1>2. /\ thr' = [thr EXCEPT ![t] = Idle] /\ instance' \in {"made", instance}
      /\ last' = [last EXCEPT ![t] = [c |-> thr[t].c, of |-> thr[t].n, buf |-> b]]
  BY DEF Finish
<1>3. thr[t].c \in Conns \cup {None} /\ thr[t].n \in Nat
  BY DEF TypeOK, Thr
<1>4. [c |-> thr[t].c, of |-> thr[t].n, buf |-> b] \in [c : Conns \cup {None}, of : Nat, buf : Seq(Msg)]
  BY <1>3
<1>5. thr' \in [Threads -> Thr] /\ thr'[t] = Idle /\ \A u \in Threads : u # t => thr'[u] = thr[u]
  BY <1>1, <1>2 DEF TypeOK
<1>6. /\ last' \in [Threads -> [c : Conns \cup {None}, of : Nat, buf : Seq(Msg)]]
      /\ last'[t] = [c |-> thr[t].c, of |-> thr[t].n, buf |-> b]
      /\ \A u \in Threads : u # t => last'[u] = last[u]
  BY <1>2, <1>4 DEF TypeOK
<1>7. last'[t].c = thr[t].c /\ last'[t].of = thr[t].n /\ last'[t].buf = b
  BY <1>6
<1> QED BY <1>1, <1>2, <1>5, <1>6, <1>7 DEF TypeOK

-----------------------------------------------------------------------------
(* The effects of the steps.                                               *)

\* The other threads stay where they are.
Alone(t) == \A u \in Threads : u # t => thr'[u] = thr[u] /\ last'[u] = last[u]

\* What is in the sockets and in the readers' hands stays.
SameMessages == (\A c \in Conns : conn'[c].up = conn[c].up /\ conn'[c].down = conn[c].down) /\ UNCHANGED reader

\* What Begin does: a call with the next number, of a kind and on a connection that the
\* mode allows.
LEMMA BeginEffect ==
    ASSUME TypeOK, NEW t \in Threads, Begin(t)
    PROVE  /\ TypeOK' /\ thr[t].pc = "idle" /\ Alone(t) /\ calls' = calls + 1 /\ last'[t].buf = <<>>
           /\ UNCHANGED <<mode, conn, configMutex, configMap, communtionMx, server, reader, unmet, mixed,
                          configOut>>
           /\ thr'[t].n = calls + 1 /\ thr'[t].buf = <<>> /\ thr'[t].c \in Conns
           /\ thr'[t].pc \in {"connect", FirstStep(thr'[t].kind)} /\ thr'[t].pc \in Before
           /\ mode = "sanitizer" => thr'[t].kind \in SanitizerKinds /\ thr'[t].c \in Devices
           /\ mode = "profiler" =>
                 /\ thr'[t].c = General /\ instance # "making"
                 /\ instance = "made" => thr'[t].kind \in ProfilerKinds
                 /\ instance = "none" => thr'[t].kind = "init"
           /\ instance' = IF thr'[t].kind = "init" THEN "making" ELSE instance
<1>1. PICK k \in SanitizerKinds \cup ProfilerKinds \cup {"init"}, c \in Conns :
         /\ IF mode = "sanitizer" THEN k \in SanitizerKinds /\ c \in Devices
            ELSE c = General /\ k \in IF instance = "made" THEN ProfilerKinds ELSE {"init"}
         /\ mode = "profiler" => instance # "making"
         /\ instance' = IF k = "init" THEN "making" ELSE instance
         /\ thr' = [thr EXCEPT ![t] = [pc |-> IF conn[c].state = "new" THEN "connect" ELSE FirstStep(k),
                                       kind |-> k, c |-> c, n |-> calls + 1, buf |-> <<>>]]
  BY Zenon DEF Begin, Conns
<1> DEFINE r == [pc |-> IF conn[c].state = "new" THEN "connect" ELSE FirstStep(k),
                 kind |-> k, c |-> c, n |-> calls + 1, buf |-> <<>>]
<1>2. k \in Kind /\ FirstStep(k) \in Before
  BY DEF Kind, SanitizerKinds, ProfilerKinds, Interacts, FirstStep, Before
<1>3. /\ thr[t].pc = "idle" /\ calls' = calls + 1 /\ last' = [last EXCEPT ![t] = NoCall]
      /\ UNCHANGED <<mode, conn, configMutex, configMap, communtionMx, server, reader, unmet, mixed,
                     configOut>>
  BY DEF Begin, serverVars
<1>4. calls + 1 \in Nat
  BY DEF TypeOK
<1>5. /\ r.pc \in Before /\ r.pc \in {"connect", FirstStep(k)} /\ r.kind = k /\ r.c = c
      /\ r.n = calls + 1 /\ r.buf = <<>>
  BY <1>2 DEF Before
<1>6. r \in Thr
  BY <1>2, <1>4, <1>5, ElemsEmpty DEF Thr
<1>7. NoCall \in [c : Conns \cup {None}, of : Nat, buf : Seq(Msg)] /\ NoCall.buf = <<>>
  BY ElemsEmpty DEF NoCall
<1>8. thr' = [thr EXCEPT ![t] = r]
  BY <1>1
<1> HIDE DEF r
<1>9. thr' \in [Threads -> Thr] /\ thr'[t] = r /\ \A u \in Threads : u # t => thr'[u] = thr[u]
  BY <1>6, <1>8 DEF TypeOK
<1>10. /\ last' \in [Threads -> [c : Conns \cup {None}, of : Nat, buf : Seq(Msg)]]
       /\ last'[t].buf = <<>> /\ \A u \in Threads : u # t => last'[u] = last[u]
  BY <1>3, <1>7 DEF TypeOK
<1>11. TypeOK'
  BY <1>1, <1>3, <1>4, <1>9, <1>10 DEF TypeOK
<1>12. mode \in {"sanitizer", "profiler"} /\ instance \in {"none", "making", "made"}
  BY DEF TypeOK
<1> QED BY <1>1, <1>3, <1>5, <1>9, <1>10, <1>11, <1>12 DEF Alone

\* A socket keeps its state, or is new and asks for a server that is not gone.
Queues(c) ==
    \/ conn'[c].state = conn[c].state
    \/ /\ conn[c].state = "new" /\ conn'[c].state \in {"queued", "refused"}
       /\ conn'[c].state = "queued" => server.life # "gone"

\* What Connect does: the socket leaves "new" and the call goes on to its first step.
LEMMA ConnectEffect ==
    ASSUME TypeOK, NEW t \in Threads, thr[t].c \in Conns, Connect(t)
    PROVE  /\ TypeOK' /\ thr[t].pc = "connect" /\ Alone(t) /\ SameMessages
           /\ UNCHANGED <<calls, mode, configMutex, configMap, communtionMx, instance, server, last, unmet,
                          mixed, configOut>>
           /\ thr'[t].pc = FirstStep(thr[t].kind) /\ thr'[t].pc \in Before
           /\ thr'[t].kind = thr[t].kind /\ thr'[t].c = thr[t].c
           /\ thr'[t].n = thr[t].n /\ thr'[t].buf = thr[t].buf
           /\ \A c \in Conns : Queues(c)
<1>1. FirstStep(thr[t].kind) \in Before
  BY DEF FirstStep, Before
<1>2. /\ Goto(t, FirstStep(thr[t].kind)) /\ thr[t].pc = "connect"
      /\ UNCHANGED <<calls, mode, configMutex, configMap, communtionMx, instance, server, reader, last,
                     unmet, mixed, configOut>>
  BY DEF Connect, serverVars
<1>3. /\ conn' \in [Conns -> ConnRec]
      /\ \A c \in Conns : conn'[c].up = conn[c].up /\ conn'[c].down = conn[c].down
      /\ \A c \in Conns : Queues(c)
  <2>1. CASE UNCHANGED conn
    BY <2>1 DEF TypeOK, Queues
  <2>2. CASE /\ conn[thr[t].c].state = "new"
             /\ conn' = [conn EXCEPT ![thr[t].c].state = IF Listening THEN "queued" ELSE "refused"]
    <3>1. (IF Listening THEN "queued" ELSE "refused") \in
              {"new", "queued", "accepted", "leaked", "refused", "closed"}
      OBVIOUS
    <3>2. /\ conn' \in [Conns -> ConnRec]
          /\ \A c \in Conns : conn'[c].up = conn[c].up /\ conn'[c].down = conn[c].down
          /\ conn'[thr[t].c].state = IF Listening THEN "queued" ELSE "refused"
          /\ \A c \in Conns : c # thr[t].c => conn'[c] = conn[c]
      BY ZenonT(30), <2>2, <3>1, ConnState
    <3>3. \A c \in Conns : Queues(c)
      BY <2>2, <3>2 DEF Queues, Listening
    <3> QED BY <3>2, <3>3
  <2> QED BY <2>1, <2>2 DEF Connect
<1>4. /\ thr' \in [Threads -> Thr] /\ thr'[t].pc = FirstStep(thr[t].kind) /\ thr'[t].kind = thr[t].kind
      /\ thr'[t].c = thr[t].c /\ thr'[t].n = thr[t].n /\ thr'[t].buf = thr[t].buf
      /\ \A u \in Threads : u # t => thr'[u] = thr[u]
  BY <1>1, <1>2, ThrPc
<1>5. TypeOK'
  BY <1>2, <1>3, <1>4 DEF TypeOK
<1> QED BY <1>1, <1>2, <1>3, <1>4, <1>5 DEF Alone, SameMessages

\* What LockCommuntion does: the lock was free and is the thread's.
LEMMA LockEffect ==
    ASSUME TypeOK, NEW t \in Threads, LockCommuntion(t)
    PROVE  /\ TypeOK' /\ thr[t].pc = "lock" /\ Alone(t) /\ communtionMx = None /\ communtionMx' = t
           /\ UNCHANGED <<calls, mode, conn, configMutex, configMap, instance, server, reader, last, unmet,
                          mixed, configOut>>
           /\ thr'[t].pc = "send" /\ thr'[t].kind = thr[t].kind /\ thr'[t].c = thr[t].c
           /\ thr'[t].n = thr[t].n /\ thr'[t].buf = thr[t].buf
<1>1. /\ Goto(t, "send") /\ thr[t].pc = "lock" /\ communtionMx = None /\ communtionMx' = t
      /\ UNCHANGED <<calls, mode, conn, configMutex, configMap, instance, server, reader, last, unmet,
                     mixed, configOut>>
  BY DEF LockCommuntion, serverVars
<1>2. "send" \in Before
  BY DEF Before
<1>3. /\ thr' \in [Threads -> Thr] /\ thr'[t].pc = "send" /\ thr'[t].kind = thr[t].kind
      /\ thr'[t].c = thr[t].c /\ thr'[t].n = thr[t].n /\ thr'[t].buf = thr[t].buf
      /\ \A u \in Threads : u # t => thr'[u] = thr[u]
  BY <1>1, <1>2, ThrPc
<1>4. TypeOK'
  BY <1>1, <1>3 DEF TypeOK
<1> QED BY <1>1, <1>3, <1>4 DEF Alone

\* The call goes on at l, or returns with the messages of b.
GoesOn(t, l) ==
    /\ thr'[t].pc = l /\ thr'[t].kind = thr[t].kind /\ thr'[t].c = thr[t].c
    /\ thr'[t].n = thr[t].n /\ UNCHANGED <<last, unmet, communtionMx, instance>>
Returns(t, b) ==
    /\ thr'[t].pc = "idle" /\ thr'[t].buf = <<>>
    /\ last'[t].c = thr[t].c /\ last'[t].of = thr[t].n /\ last'[t].buf = b
    /\ unmet \subseteq unmet'
    /\ thr[t].pc = "wait" /\ (\A m \in Elems(b) : m.of # thr[t].n) => thr[t].n \in unmet'
    /\ communtionMx' = IF communtionMx = t THEN None ELSE communtionMx
    /\ instance' = IF thr[t].kind = "init" THEN "made" ELSE instance

\* Finish in terms of the messages that were received.
LEMMA FinishReturns ==
    ASSUME TypeOK, NEW t \in Threads, NEW b \in Seq(Msg), Finish(t, b) PROVE Returns(t, b)
<1>1. /\ thr'[t].pc = "idle" /\ thr'[t].buf = <<>> /\ last'[t].c = thr[t].c /\ last'[t].of = thr[t].n
      /\ last'[t].buf = b
  BY Finishes
<1>2. /\ unmet' = IF thr[t].pc = "wait" /\ \A i \in DOMAIN b : b[i].of # thr[t].n
                  THEN unmet \cup {thr[t].n} ELSE unmet
      /\ communtionMx' = IF communtionMx = t THEN None ELSE communtionMx
      /\ instance' = IF thr[t].kind = "init" THEN "made" ELSE instance
  BY DEF Finish
<1>3. (\A m \in Elems(b) : m.of # thr[t].n) => \A i \in DOMAIN b : b[i].of # thr[t].n
  BY DEF Elems
<1> QED BY <1>1, <1>2, <1>3 DEF Returns

\* What GetConfig does: the configuration is known, or the thread waits for it with the
\* mutex.
LEMMA GetConfigEffect ==
    ASSUME TypeOK, NEW t \in Threads, GetConfig(t)
    PROVE  /\ TypeOK' /\ thr[t].pc = "config" /\ configMutex = None /\ Alone(t)
           /\ UNCHANGED <<calls, mode, conn, configMap, server, reader, mixed, configOut>>
           /\ \/ /\ configMap[thr[t].c] # "none" /\ UNCHANGED configMutex
                 /\ \/ GoesOn(t, "send") /\ thr'[t].buf = thr[t].buf
                    \/ Returns(t, <<>>)
              \/ /\ configMap[thr[t].c] = "none" /\ configMutex' = t
                 /\ GoesOn(t, "configWait") /\ thr'[t].buf = thr[t].buf
<1>1. /\ thr[t].pc = "config" /\ configMutex = None
      /\ UNCHANGED <<calls, mode, conn, configMap, server, reader, mixed, configOut>>
  BY DEF GetConfig, serverVars
<1>2. "send" \in Before /\ "configWait" \in Before
  BY DEF Before
<1>3. CASE configMap[thr[t].c] # "none" /\ thr[t].kind = "getConfig"
  <2>1. Finish(t, <<>>) /\ UNCHANGED configMutex
    BY <1>3 DEF GetConfig, AfterConfig
  <2>2. Returns(t, <<>>)
    BY <2>1, FinishReturns, ElemsEmpty
  <2>3. TypeOK' /\ Alone(t)
    BY <1>1, <2>1, Finishes, ElemsEmpty DEF TypeOK, Alone
  <2> QED BY <1>1, <1>3, <2>1, <2>2, <2>3
<1>4. CASE configMap[thr[t].c] # "none" /\ thr[t].kind # "getConfig"
  <2>1. Goto(t, "send") /\ UNCHANGED <<last, unmet, communtionMx, instance>> /\ UNCHANGED configMutex
    BY <1>4 DEF GetConfig, AfterConfig
  <2>2. thr'[t].buf = thr[t].buf /\ GoesOn(t, "send")
    BY <1>2, <2>1, ThrPc DEF GoesOn
  <2>3. TypeOK' /\ Alone(t)
    BY <1>1, <1>2, <2>1, ThrPc DEF TypeOK, Alone
  <2> QED BY <1>1, <1>4, <2>1, <2>2, <2>3
<1>5. CASE configMap[thr[t].c] = "none"
  <2>1. Goto(t, "configWait") /\ UNCHANGED <<last, unmet, communtionMx, instance>> /\ configMutex' = t
    BY <1>5 DEF GetConfig
  <2>2. thr'[t].buf = thr[t].buf /\ GoesOn(t, "configWait")
    BY <1>2, <2>1, ThrPc DEF GoesOn
  <2>3. TypeOK' /\ Alone(t)
    BY <1>1, <1>2, <2>1, ThrPc DEF TypeOK, Alone
  <2> QED BY <1>1, <1>5, <2>1, <2>2, <2>3
<1> QED BY <1>3, <1>4, <1>5

\* The process has read all that was in the socket c.
Emptied(c) ==
    /\ conn'[c].down = <<>> /\ conn'[c].up = conn[c].up /\ conn'[c].state = conn[c].state
    /\ \A x \in Conns : x # c => conn'[x] = conn[x]
    /\ UNCHANGED reader

\* A read leaves the socket empty.
LEMMA TakenEmpties ==
    ASSUME TypeOK, NEW c \in Conns, conn' = Taken(c), UNCHANGED reader
    PROVE  Emptied(c) /\ conn' \in [Conns -> ConnRec]
BY ConnDown, ElemsEmpty DEF Taken, Emptied

\* What ConfigWait does: it empties the socket, settles the device's configuration and
\* frees the mutex.
LEMMA ConfigWaitEffect ==
    ASSUME TypeOK, NEW t \in Threads, thr[t].c \in Devices, ConfigWait(t)
    PROVE  /\ TypeOK' /\ thr[t].pc = "configWait" /\ configMutex' = None /\ Alone(t)
           /\ Emptied(thr[t].c) /\ UNCHANGED <<calls, mode, server, mixed>>
           /\ configMap'[thr[t].c] = IF conn[thr[t].c].down = <<Config>> THEN "config" ELSE "default"
           /\ \A d \in Devices : d # thr[t].c => configMap'[d] = configMap[d]
           /\ configOut' = IF conn[thr[t].c].down = <<>> THEN configOut \cup {thr[t].c} ELSE configOut
           /\ \/ GoesOn(t, "send") /\ thr'[t].buf = thr[t].buf
              \/ Returns(t, <<>>)
<1>1. /\ thr[t].pc = "configWait" /\ configMutex' = None /\ conn' = Taken(thr[t].c)
      /\ UNCHANGED <<calls, mode, server, reader, mixed>> /\ AfterConfig(t)
      /\ configMap' = [configMap EXCEPT ![thr[t].c] = IF conn[thr[t].c].down = <<Config>> THEN "config"
                                                      ELSE "default"]
      /\ configOut' = IF conn[thr[t].c].down = <<>> THEN configOut \cup {thr[t].c} ELSE configOut
  BY DEF ConfigWait, serverVars
<1>2. Emptied(thr[t].c) /\ conn' \in [Conns -> ConnRec]
  BY <1>1, TakenEmpties DEF Conns
<1>3. /\ configMap' \in [Devices -> {"none", "config", "default"}]
      /\ configMap'[thr[t].c] = IF conn[thr[t].c].down = <<Config>> THEN "config" ELSE "default"
      /\ \A d \in Devices : d # thr[t].c => configMap'[d] = configMap[d]
  BY <1>1 DEF TypeOK
<1>4. "send" \in Before
  BY DEF Before
<1>5. CASE thr[t].kind = "getConfig"
  <2>1. Finish(t, <<>>)
    BY <1>1, <1>5 DEF AfterConfig
  <2>2. Returns(t, <<>>)
    BY <2>1, FinishReturns, ElemsEmpty
  <2>3. TypeOK' /\ Alone(t)
    BY <1>1, <1>2, <1>3, <2>1, Finishes, ElemsEmpty DEF TypeOK, Alone
  <2> QED BY <1>1, <1>2, <1>3, <2>1, <2>2, <2>3
<1>6. CASE thr[t].kind # "getConfig"
  <2>1. Goto(t, "send") /\ UNCHANGED <<last, unmet, communtionMx, instance>>
    BY <1>1, <1>6 DEF AfterConfig
  <2>2. thr'[t].buf = thr[t].buf /\ GoesOn(t, "send")
    BY <1>4, <2>1, ThrPc DEF GoesOn
  <2>3. TypeOK' /\ Alone(t)
    BY <1>1, <1>2, <1>3, <1>4, <2>1, ThrPc DEF TypeOK, Alone
  <2> QED BY <1>1, <1>2, <1>3, <2>1, <2>2, <2>3
<1> QED BY <1>5, <1>6

\* What Send does: one request more on a connected socket, and the call waits or
\* returns.
LEMMA SendEffect ==
    ASSUME TypeOK, NEW t \in Threads, thr[t].c \in Conns, Send(t)
    PROVE  /\ TypeOK' /\ thr[t].pc = "send" /\ Alone(t)
           /\ UNCHANGED <<calls, mode, configMutex, configMap, server, reader, configOut>>
           /\ Request(t) \in Msg /\ Request(t).of = thr[t].n /\ Request(t).kind = thr[t].kind
           /\ conn'[thr[t].c].down = conn[thr[t].c].down /\ conn'[thr[t].c].state = conn[thr[t].c].state
           /\ \A x \in Conns : x # thr[t].c => conn'[x] = conn[x]
           /\ \/ conn'[thr[t].c].up = Append(conn[thr[t].c].up, Request(t)) /\ Connected(thr[t].c)
              \/ conn'[thr[t].c].up = conn[thr[t].c].up /\ ~Connected(thr[t].c)
           /\ mixed \subseteq mixed'
           /\ \/ /\ Awaits(t) /\ GoesOn(t, "wait") /\ thr'[t].buf = thr[t].buf
                 /\ thr[t].c \in Devices =>
                       \A u \in Threads : u # t /\ thr[u].pc = "wait" /\ thr[u].c = thr[t].c =>
                           thr[u].n \in mixed' /\ thr[t].n \in mixed'
              \/ ~Awaits(t) /\ Returns(t, <<>>)
<1> DEFINE with == {u \in Threads \ {t} : thr[u].pc = "wait" /\ thr[u].c = thr[t].c}
<1>1. /\ thr[t].pc = "send" /\ conn' = Written(thr[t].c, Request(t))
      /\ mixed' = IF Awaits(t) /\ with # {} /\ thr[t].c \in Devices
                  THEN mixed \cup {thr[u].n : u \in with \cup {t}} ELSE mixed
      /\ UNCHANGED <<calls, mode, configMutex, configMap, server, reader, configOut>>
  BY DEF Send, serverVars
<1>2. Request(t) \in Msg /\ Request(t).of = thr[t].n /\ Request(t).kind = thr[t].kind
  BY DEF TypeOK, Thr, Request, Msg
<1>3. /\ conn' \in [Conns -> ConnRec]
      /\ conn'[thr[t].c].down = conn[thr[t].c].down /\ conn'[thr[t].c].state = conn[thr[t].c].state
      /\ \A x \in Conns : x # thr[t].c => conn'[x] = conn[x]
      /\ \/ conn'[thr[t].c].up = Append(conn[thr[t].c].up, Request(t)) /\ Connected(thr[t].c)
         \/ conn'[thr[t].c].up = conn[thr[t].c].up /\ ~Connected(thr[t].c)
  <2>1. CASE Connected(thr[t].c)
    <3>1. conn' = [conn EXCEPT ![thr[t].c].up = Append(conn[thr[t].c].up, Request(t))]
      BY <1>1, <2>1 DEF Written
    <3>2. conn[thr[t].c].up \in Seq(Msg)
      BY DEF TypeOK, ConnRec
    <3>3. Append(conn[thr[t].c].up, Request(t)) \in Seq(Msg)
      BY <1>2, <3>2, ElemsAppend
    <3> QED BY ZenonT(30), <2>1, <3>1, <3>3, ConnUp
  <2>2. CASE ~Connected(thr[t].c)
    BY <1>1, <2>2 DEF Written, TypeOK
  <2> QED BY <2>1, <2>2
<1>4. mixed \subseteq mixed'
  BY <1>1
<1>5. CASE Awaits(t)
  <2>1. Goto(t, "wait") /\ UNCHANGED <<last, unmet, communtionMx, instance>>
    BY <1>5 DEF Send
  <2>2. GoesOn(t, "wait") /\ thr'[t].buf = thr[t].buf
    BY <2>1, ThrPc DEF GoesOn
  <2>3. TypeOK' /\ Alone(t)
    BY <1>1, <1>3, <2>1, ThrPc DEF TypeOK, Alone
  <2>4. thr[t].c \in Devices =>
           \A u \in Threads : u # t /\ thr[u].pc = "wait" /\ thr[u].c = thr[t].c =>
               thr[u].n \in mixed' /\ thr[t].n \in mixed'
    BY <1>1, <1>5
  <2> QED BY <1>1, <1>2, <1>3, <1>4, <1>5, <2>2, <2>3, <2>4
<1>6. CASE ~Awaits(t)
  <2>1. Finish(t, <<>>)
    BY <1>6 DEF Send
  <2>2. Returns(t, <<>>)
    BY <2>1, FinishReturns, ElemsEmpty
  <2>3. TypeOK' /\ Alone(t)
    BY <1>1, <1>3, <2>1, Finishes, ElemsEmpty DEF TypeOK, Alone
  <2> QED BY <1>1, <1>2, <1>3, <1>4, <1>6, <2>2, <2>3
<1> QED BY <1>5, <1>6

\* What Read does: all that arrived goes to the wait, which ends or goes on.
LEMMA ReadEffect ==
    ASSUME TypeOK, NEW t \in Threads, thr[t].c \in Conns, Read(t)
    PROVE  /\ TypeOK' /\ thr[t].pc = "wait" /\ Alone(t) /\ Emptied(thr[t].c)
           /\ UNCHANGED <<calls, mode, configMutex, configMap, server, mixed, configOut>>
           /\ \/ /\ GoesOn(t, "wait")
                 /\ Elems(thr'[t].buf) = Elems(thr[t].buf) \cup Elems(conn[thr[t].c].down)
              \/ \E b \in Seq(Msg) : /\ Elems(b) = Elems(thr[t].buf) \cup Elems(conn[thr[t].c].down)
                                     /\ Returns(t, b)
<1> DEFINE b == thr[t].buf \o conn[thr[t].c].down
<1>1. /\ thr[t].pc = "wait" /\ conn' = Taken(thr[t].c)
      /\ UNCHANGED <<calls, mode, configMutex, configMap, server, reader, mixed, configOut>>
  BY DEF Read, serverVars
<1>2. Emptied(thr[t].c) /\ conn' \in [Conns -> ConnRec]
  BY <1>1, TakenEmpties
<1>3. thr[t].buf \in Seq(Msg) /\ conn[thr[t].c].down \in Seq(Msg)
  BY DEF TypeOK, ConnRec, Thr
<1>4. b \in Seq(Msg) /\ Elems(b) = Elems(thr[t].buf) \cup Elems(conn[thr[t].c].down)
  BY <1>3, ElemsCat
<1>5. CASE Complete(thr[t].kind, b)
  <2>1. Finish(t, b)
    BY <1>5 DEF Read
  <2> HIDE DEF b
  <2>2. Returns(t, b)
    BY <1>4, <2>1, FinishReturns
  <2>3. TypeOK' /\ Alone(t)
    BY <1>1, <1>2, <1>4, <2>1, Finishes DEF TypeOK, Alone
  <2> QED BY <1>1, <1>2, <1>4, <2>2, <2>3
<1>6. CASE ~Complete(thr[t].kind, b)
  <2>1. thr' = [thr EXCEPT ![t].buf = b] /\ UNCHANGED <<last, unmet, communtionMx, instance>>
    BY <1>6 DEF Read
  <2> HIDE DEF b
  <2>2. GoesOn(t, "wait") /\ thr'[t].buf = b
    BY <1>1, <1>4, <2>1, ThrBuf DEF GoesOn
  <2>3. TypeOK' /\ Alone(t)
    BY <1>1, <1>2, <1>4, <2>1, ThrBuf DEF TypeOK, Alone
  <2> QED BY <1>1, <1>2, <1>4, <2>2, <2>3
<1> QED BY <1>5, <1>6

\* What Expire does: the call returns with what it has.
LEMMA ExpireEffect ==
    ASSUME TypeOK, NEW t \in Threads, Expire(t)
    PROVE  /\ TypeOK' /\ thr[t].pc = "wait" /\ Alone(t)
           /\ UNCHANGED <<calls, mode, conn, configMutex, configMap, server, reader, mixed, configOut>>
           /\ thr[t].buf \in Seq(Msg) /\ Returns(t, thr[t].buf)
<1>1. /\ thr[t].pc = "wait" /\ Finish(t, thr[t].buf)
      /\ UNCHANGED <<calls, mode, conn, configMutex, configMap, server, reader, mixed, configOut>>
  BY DEF Expire, serverVars
<1>2. thr[t].buf \in Seq(Msg)
  BY DEF TypeOK, Thr
<1>3. TypeOK' /\ Alone(t)
  BY <1>1, <1>2, Finishes DEF TypeOK, Alone
<1> QED BY <1>1, <1>2, <1>3, FinishReturns

\* The process does not move.
ProcessStays == UNCHANGED processVars /\ UNCHANGED mode

\* What the steps of the server do that touch neither a socket nor a reader.
LEMMA QuietServerEffect ==
    ASSUME TypeOK, ServerInv, \/ Start \/ AcceptOther \/ Stop \/ AcceptorLoop \/ AcceptTimesOut
                              \/ JoinAcceptor \/ JoinReader
    PROVE  /\ TypeOK' /\ ProcessStays /\ UNCHANGED <<conn, reader>> /\ ServerInv'
           /\ server'.client = server.client
           /\ server'.acceptor = "hook" <=> server.acceptor = "hook"
<1>1. ProcessStays /\ UNCHANGED <<conn, reader>>
  BY DEF Start, AcceptOther, Stop, AcceptorLoop, AcceptTimesOut, JoinAcceptor, JoinReader,
         ProcessStays
<1>2. /\ server' \in Server /\ server'.client = server.client
      /\ server'.acceptor = "hook" <=> server.acceptor = "hook"
      /\ ServerInv'
  <2>0. /\ server \in Server /\ Walked /\ server.num \in Nat /\ server.num + 1 \in Nat
        /\ server.acceptor \in {"none", "loop", "accept", "hook", "done"}
        /\ server.life \in {"off", "running", "failed", "stopping", "joined", "gone"}
    BY DEF TypeOK, ServerInv, Server
  <2>1. ASSUME server' \in Server, server'.client = server.client,
               server'.joined = server.joined, server'.readWorker = server.readWorker,
               server'.acceptor = "hook" <=> server.acceptor = "hook",
               server'.life \in {"off", "failed"} => server'.acceptor = "none",
               server'.life = "joined" => server'.acceptor \in {"none", "done"},
               server'.life # "gone"
        PROVE  ServerInv'
    <3>1. Walked'
      BY <1>1, <2>0, <2>1 DEF Walked
    <3> QED BY <1>1, <2>1, <3>1 DEF ServerInv
  <2>2. CASE Start
    <3>1. server.acceptor = "none"
      BY <2>2 DEF Start, ServerInv
    <3>2. /\ server' \in Server /\ server'.client = server.client
          /\ server'.joined = server.joined /\ server'.readWorker = server.readWorker
          /\ \/ server'.life = "running" /\ server'.acceptor = "loop"
             \/ server'.life = "failed" /\ server'.acceptor = "none"
      BY <2>0, <2>2, <3>1 DEF Start, Server
    <3> QED BY <2>1, <3>1, <3>2
  <2>3. CASE AcceptOther
    <3>1. server.acceptor = "accept" /\ server.life \notin {"off", "failed", "joined", "gone"}
      BY <2>3 DEF AcceptOther, ServerInv
    <3>2. /\ server' \in Server /\ server'.client = server.client
          /\ server'.joined = server.joined /\ server'.readWorker = server.readWorker
          /\ server'.life = server.life /\ server'.acceptor = "loop"
      BY <2>0, <2>3 DEF AcceptOther, Server
    <3> QED BY <2>1, <3>1, <3>2
  <2>4. CASE Stop
    <3>1. /\ server' \in Server /\ server'.client = server.client
          /\ server'.joined = server.joined /\ server'.readWorker = server.readWorker
          /\ server'.life = "stopping" /\ server'.acceptor = server.acceptor
      BY <2>0, <2>4 DEF Stop, Server
    <3> QED BY <2>1, <3>1
  <2>5. CASE AcceptorLoop \/ AcceptTimesOut
    <3>1. server.acceptor \in {"loop", "accept"} /\ server.life \notin {"off", "failed", "joined", "gone"}
      BY <2>5 DEF AcceptorLoop, AcceptTimesOut, ServerInv
    <3>2. /\ server' \in Server /\ server'.client = server.client
          /\ server'.joined = server.joined /\ server'.readWorker = server.readWorker
          /\ server'.life = server.life /\ server'.acceptor \in {"loop", "accept", "done"}
      BY <2>0, <2>5 DEF AcceptorLoop, AcceptTimesOut, Server
    <3> QED BY <2>1, <3>1, <3>2
  <2>6. CASE JoinAcceptor
    <3>1. /\ server' \in Server /\ server'.client = server.client
          /\ server'.joined = server.joined /\ server'.readWorker = server.readWorker
          /\ server'.life = "joined" /\ server'.acceptor = server.acceptor
          /\ server.acceptor \in {"none", "done"}
      BY <2>0, <2>6 DEF JoinAcceptor, Server
    <3> QED BY <2>1, <3>1
  <2>7. CASE JoinReader
    <3>1. /\ server' = [server EXCEPT !.joined = server.joined + 1] /\ server.life = "joined"
          /\ server.joined < Len(server.readWorker)
          /\ reader[server.readWorker[server.joined + 1]].at = "done"
      BY <2>7 DEF JoinReader
    <3>2. server.joined \in Nat /\ server.joined + 1 \in Nat /\ server.readWorker \in Seq(Conns)
      BY <2>0 DEF Server
    <3>3. /\ server'.joined = server.joined + 1 /\ server'.readWorker = server.readWorker
          /\ server'.life = server.life /\ server'.acceptor = server.acceptor
          /\ server'.client = server.client /\ server' \in Server
      BY <2>0, <3>1, <3>2 DEF Server
    <3>4. \A i \in 1..(server.joined + 1) : i \in 1..server.joined \/ i = server.joined + 1
      BY <3>2
    <3>5. server.joined + 1 <= Len(server.readWorker)
      BY <3>1, <3>2
    <3>6. Walked'
      BY <1>1, <2>0, <3>1, <3>3, <3>4, <3>5 DEF Walked
    <3> QED BY <1>1, <3>1, <3>3, <3>6 DEF ServerInv
  <2> QED BY <2>2, <2>3, <2>4, <2>5, <2>6, <2>7
<1>3. TypeOK'
  BY <1>1, <1>2 DEF TypeOK, ProcessStays, processVars
<1> QED BY <1>1, <1>2, <1>3

\* What the process does leaves the server's invariant alone.
LEMMA ServerStays ==
    ASSUME ServerInv, UNCHANGED <<server, reader>>, \A c \in Conns : Queues(c)
    PROVE  ServerInv'
<1>1. Walked'
  BY DEF ServerInv, Walked
<1>2. \A c \in Conns : conn[c].state \notin {"new", "queued"} => conn'[c].state = conn[c].state
  BY DEF Queues
<1>3. server.life = "gone" => \A c \in Conns : conn'[c].state \in {conn[c].state, "refused"}
  BY DEF Queues
<1> QED BY <1>1, <1>2, <1>3 DEF ServerInv

\* A reader that starts is appended to readWorker_.
LEMMA StartedWalked ==
    ASSUME Walked, server.readWorker \in Seq(Conns), server.joined \in Nat, NEW c \in Conns,
           reader[c].at # "done", reader'[c].at = "loop", \A x \in Conns : x # c => reader'[x] = reader[x],
           server'.joined = server.joined, server'.readWorker = Append(server.readWorker, c)
    PROVE  Walked'
<1> DEFINE n == Len(server.readWorker)
<1>1. /\ n \in Nat /\ Len(server'.readWorker) = n + 1 /\ server'.readWorker[n + 1] = c
      /\ \A i \in 1..n : server'.readWorker[i] = server.readWorker[i] /\ server.readWorker[i] \in Conns
  OBVIOUS
<1>2. \A i \in 1..n : i \in 1..(n + 1)
  BY <1>1
<1>3. n + 1 \in 1..(n + 1)
  BY <1>1
<1>4. server'.joined <= Len(server'.readWorker)
  BY <1>1 DEF Walked
<1>5. \A i \in 1..server.joined : i \in 1..n
  BY <1>1 DEF Walked
<1>6. \A x \in Conns : reader'[x].at # "none" =>
                       \E i \in 1..(n + 1) : server'.readWorker[i] = x
  BY <1>1, <1>2, <1>3 DEF Walked
<1>7. \A i \in 1..server'.joined : reader'[server'.readWorker[i]].at = "done"
  BY <1>1, <1>5 DEF Walked
<1> QED BY <1>1, <1>4, <1>6, <1>7 DEF Walked

\* A reader that goes through its loop is still to be joined.
LEMMA ReaderWalked ==
    ASSUME Walked, UNCHANGED server, NEW c \in Conns, reader[c].at \notin {"none", "done"},
           \A x \in Conns : x # c => reader'[x] = reader[x],
           server.readWorker \in Seq(Conns), server.joined \in Nat
    PROVE  Walked'
<1>1. \A i \in 1..server.joined : server.readWorker[i] \in Conns /\ server.readWorker[i] # c
  BY DEF Walked
<1> QED BY <1>1 DEF Walked

\* So do the steps of a reader that leave the state of the sockets alone.
LEMMA ReaderKeeps ==
    ASSUME TypeOK, ServerInv, UNCHANGED server, NEW c \in Conns,
           reader[c].at \notin {"none", "done"},
           \A x \in Conns : x # c => reader'[x] = reader[x],
           \A x \in Conns : conn'[x].state = conn[x].state
    PROVE  ServerInv'
<1>1. server.readWorker \in Seq(Conns) /\ server.joined \in Nat
  BY DEF TypeOK, Server
<1>2. Walked'
  BY <1>1, ReaderWalked DEF ServerInv
<1> QED BY <1>2 DEF ServerInv

\* What Accept does: the client leaves the queue, and if it is accepted its reader
\* starts and the hook is due.
LEMMA AcceptEffect ==
    ASSUME TypeOK, ServerInv, NEW c \in Conns, FlowInv(c), Accept(c)
    PROVE  /\ TypeOK' /\ ProcessStays /\ ServerInv' /\ conn[c].state = "queued"
           /\ \A x \in Conns : conn'[x].up = conn[x].up /\ conn'[x].down = conn[x].down
           /\ \A x \in Conns : reader'[x].got = reader[x].got
           /\ \A x \in Conns : x # c => conn'[x] = conn[x] /\ reader'[x] = reader[x]
           /\ conn'[c].state \notin {"new", "queued"} /\ reader'[c].at \in {"loop", reader[c].at}
           /\ server.acceptor = "accept"
           /\ server'.acceptor = "hook" => server'.client = c
<1>1. /\ server.acceptor = "accept" /\ conn[c].state = "queued" /\ ProcessStays
      /\ server.life \notin {"joined", "gone"}
      /\ server \in Server /\ reader \in [Conns -> Reader]
      /\ server.readWorker \in Seq(Conns) /\ server.joined \in Nat /\ Walked
      /\ reader[c].at = "none"
  BY DEF Accept, ProcessStays, ServerInv, TypeOK, Server, FlowInv
<1>2. CASE /\ conn' = [conn EXCEPT ![c].state = "accepted"]
           /\ server' = [server EXCEPT !.acceptor = "hook", !.client = c, !.num = @ + 1,
                                       !.readWorker = Append(@, c)]
           /\ reader' = [reader EXCEPT ![c].at = "loop"]
  <2>1. /\ conn' \in [Conns -> ConnRec] /\ conn'[c].state = "accepted"
        /\ conn'[c].up = conn[c].up /\ conn'[c].down = conn[c].down
        /\ \A x \in Conns : x # c => conn'[x] = conn[x]
    BY <1>2, ConnState
  <2>2. /\ server' \in Server /\ server'.acceptor = "hook" /\ server'.client = c
        /\ server'.life = server.life /\ server'.joined = server.joined
        /\ server'.readWorker = Append(server.readWorker, c)
    <3>1. server.num + 1 \in Nat /\ Append(server.readWorker, c) \in Seq(Conns)
      BY <1>1 DEF Server
    <3> QED BY <1>1, <1>2, <3>1 DEF Server
  <2>3. /\ reader' \in [Conns -> Reader] /\ reader'[c].at = "loop"
        /\ \A x \in Conns : reader'[x].got = reader[x].got
        /\ \A x \in Conns : x # c => reader'[x] = reader[x]
    BY <1>1, <1>2 DEF Reader
  <2>4. TypeOK'
    BY <1>1, <2>1, <2>2, <2>3 DEF TypeOK, ProcessStays, processVars
  <2>5. Walked'
    BY <1>1, <2>2, <2>3, StartedWalked
  <2>6. ServerInv'
    BY <1>1, <2>1, <2>2, <2>5 DEF ServerInv
  <2> QED BY <1>1, <2>1, <2>2, <2>3, <2>4, <2>6
<1>3. ASSUME NEW s \in {"closed", "leaked"}, conn' = [conn EXCEPT ![c].state = s],
             server' = [server EXCEPT !.acceptor = "loop"], UNCHANGED reader
      PROVE  /\ TypeOK' /\ ServerInv'
             /\ \A x \in Conns : conn'[x].up = conn[x].up /\ conn'[x].down = conn[x].down
             /\ \A x \in Conns : x # c => conn'[x] = conn[x]
             /\ conn'[c].state \notin {"new", "queued"}
  <2>1. /\ conn' \in [Conns -> ConnRec] /\ conn'[c].state = s
        /\ conn'[c].up = conn[c].up /\ conn'[c].down = conn[c].down
        /\ \A x \in Conns : x # c => conn'[x] = conn[x]
    BY <1>3, ConnState
  <2>2. /\ server' \in Server /\ server'.acceptor = "loop" /\ server'.life = server.life
        /\ server'.joined = server.joined /\ server'.readWorker = server.readWorker
    BY <1>1, <1>3 DEF Server
  <2>3. TypeOK'
    BY <1>1, <1>3, <2>1, <2>2 DEF TypeOK, ProcessStays, processVars
  <2>4. ServerInv'
    <3>1. Walked'
      BY <1>1, <1>3, <2>2 DEF Walked
    <3> QED BY <1>1, <2>2, <3>1 DEF ServerInv
  <2> QED BY <2>1, <2>3, <2>4
<1>4. CASE /\ \E s \in {"closed", "leaked"} : conn' = [conn EXCEPT ![c].state = s]
           /\ server' = [server EXCEPT !.acceptor = "loop"] /\ UNCHANGED reader
  <2>1. server'.acceptor = "loop"
    BY <1>1, <1>4 DEF Server
  <2> QED BY <1>1, <1>3, <1>4, <2>1
<1> QED BY <1>2, <1>4 DEF Accept

\* What ConnectHook does: one configuration to a sanitizer client.
LEMMA HookEffect ==
    ASSUME TypeOK, ServerInv, ConnectHook
    PROVE  /\ TypeOK' /\ ProcessStays /\ ServerInv' /\ UNCHANGED reader
           /\ server.acceptor = "hook" /\ server.client \in Conns /\ server'.acceptor = "loop"
           /\ conn[server.client].state \notin {"new", "queued"}
           /\ \A x \in Conns : conn'[x].up = conn[x].up /\ conn'[x].state = conn[x].state
           /\ \A x \in Conns : x # server.client => conn'[x] = conn[x]
           /\ conn'[server.client].down = IF mode = "sanitizer" THEN Append(conn[server.client].down, Config)
                                          ELSE conn[server.client].down
<1>1. /\ server.acceptor = "hook" /\ server.client \in Conns /\ UNCHANGED reader /\ ProcessStays
      /\ conn[server.client].state \notin {"new", "queued"}
  BY DEF ConnectHook, ServerInv, ProcessStays
<1>2. /\ conn' \in [Conns -> ConnRec]
      /\ \A x \in Conns : conn'[x].up = conn[x].up /\ conn'[x].state = conn[x].state
      /\ \A x \in Conns : x # server.client => conn'[x] = conn[x]
      /\ conn'[server.client].down = IF mode = "sanitizer" THEN Append(conn[server.client].down, Config)
                                     ELSE conn[server.client].down
  <2>1. CASE mode = "sanitizer"
    <3>1. conn' = [conn EXCEPT ![server.client].down = Append(conn[server.client].down, Config)]
      BY <2>1 DEF ConnectHook, ServerWritten
    <3>2. Append(conn[server.client].down, Config) \in Seq(Msg)
      BY <1>1, ElemsAppend, MsgFacts DEF TypeOK, ConnRec
    <3>3. /\ conn' \in [Conns -> ConnRec]
          /\ conn'[server.client].down = Append(conn[server.client].down, Config)
          /\ conn'[server.client].state = conn[server.client].state
          /\ conn'[server.client].up = conn[server.client].up
          /\ \A x \in Conns : x # server.client => conn'[x] = conn[x]
      BY <1>1, <3>1, <3>2, ConnDown
    <3> QED BY <2>1, <3>3
  <2>2. CASE mode # "sanitizer"
    BY <2>2 DEF ConnectHook, TypeOK
  <2> QED BY <2>1, <2>2
<1>3. /\ server' \in Server /\ server'.acceptor = "loop" /\ server'.life = server.life
      /\ server'.joined = server.joined /\ server'.readWorker = server.readWorker
  BY DEF ConnectHook, TypeOK, Server
<1>4. TypeOK'
  BY <1>1, <1>2, <1>3 DEF TypeOK, ProcessStays, processVars
<1>5. ServerInv'
  <2>1. Walked'
    BY <1>1, <1>3 DEF ServerInv, Walked
  <2> QED BY <1>1, <1>3, <2>1 DEF ServerInv
<1> QED BY <1>1, <1>2, <1>3, <1>4, <1>5

\* What ListenRead does: all that arrived is in the reader's hands.
LEMMA ListenReadEffect ==
    ASSUME TypeOK, ServerInv, NEW c \in Conns, ListenRead(c)
    PROVE  /\ TypeOK' /\ ProcessStays /\ ServerInv' /\ UNCHANGED server
           /\ reader[c].at = "read" /\ conn[c].up # <<>>
           /\ reader'[c].at = "handle" /\ reader'[c].got = conn[c].up
           /\ conn'[c].up = <<>> /\ conn'[c].down = conn[c].down /\ conn'[c].state = conn[c].state
           /\ \A x \in Conns : x # c => conn'[x] = conn[x] /\ reader'[x] = reader[x]
<1>1. /\ reader[c].at = "read" /\ conn[c].up # <<>>
      /\ reader' = [reader EXCEPT ![c] = [at |-> "handle", got |-> conn[c].up]]
      /\ conn' = [conn EXCEPT ![c].up = <<>>] /\ UNCHANGED server /\ ProcessStays
  BY DEF ListenRead, ServerTaken, ProcessStays
<1>2. /\ conn' \in [Conns -> ConnRec] /\ conn'[c].up = <<>> /\ conn'[c].down = conn[c].down
      /\ conn'[c].state = conn[c].state /\ \A x \in Conns : x # c => conn'[x] = conn[x]
  BY <1>1, ConnUp, ElemsEmpty
<1>3. conn[c].up \in Seq(Msg)
  BY DEF TypeOK, ConnRec
<1>4. /\ reader' \in [Conns -> Reader] /\ reader'[c].at = "handle" /\ reader'[c].got = conn[c].up
      /\ \A x \in Conns : x # c => reader'[x] = reader[x]
  BY <1>1, <1>3 DEF TypeOK, Reader
<1>5. TypeOK'
  BY <1>1, <1>2, <1>4 DEF TypeOK, ProcessStays, processVars
<1>6. ServerInv'
  BY <1>1, <1>2, <1>4, ReaderKeeps
<1> QED BY <1>1, <1>2, <1>4, <1>5, <1>6

\* What Handle does: the first message leaves the reader, its answer goes out.
LEMMA HandleEffect ==
    ASSUME TypeOK, ServerInv, NEW c \in Conns, FlowInv(c), Handle(c)
    PROVE  LET m == Head(reader[c].got) IN
           /\ TypeOK' /\ ProcessStays /\ ServerInv' /\ UNCHANGED server
           /\ reader[c].got \in Seq(Msg) /\ reader[c].got # <<>> /\ m \in Msg
           /\ reader'[c].got = Tail(reader[c].got)
           /\ reader'[c].at = "handle" <=> reader'[c].got # <<>>
           /\ conn'[c].up = conn[c].up /\ conn'[c].state = conn[c].state
           /\ conn'[c].down = IF Answered(m) THEN Append(conn[c].down, AnswerTo(m)) ELSE conn[c].down
           /\ \A x \in Conns : x # c => conn'[x] = conn[x] /\ reader'[x] = reader[x]
           /\ reader[c].at # "none"
<1> DEFINE m == Head(reader[c].got)
           left == Tail(reader[c].got)
<1>1. /\ reader[c].at = "handle" /\ UNCHANGED server /\ ProcessStays
      /\ reader' = [reader EXCEPT ![c] = [at |-> IF left = <<>> THEN "loop" ELSE "handle", got |-> left]]
      /\ conn' = IF Answered(m) THEN ServerWritten(c, AnswerTo(m)) ELSE conn
  BY DEF Handle, ProcessStays, Answered
<1>2. reader[c].got \in Seq(Msg) /\ reader[c].got # <<>>
  BY <1>1 DEF FlowInv, TypeOK, Reader
<1>3. m \in Msg /\ left \in Seq(Msg)
  BY <1>2, ElemsHead
<1> HIDE DEF m, left
<1>4. /\ conn' \in [Conns -> ConnRec]
      /\ conn'[c].up = conn[c].up /\ conn'[c].state = conn[c].state
      /\ conn'[c].down = IF Answered(m) THEN Append(conn[c].down, AnswerTo(m)) ELSE conn[c].down
      /\ \A x \in Conns : x # c => conn'[x] = conn[x]
  <2>1. CASE Answered(m)
    <3>1. conn' = [conn EXCEPT ![c].down = Append(conn[c].down, AnswerTo(m))]
      BY <1>1, <2>1 DEF ServerWritten
    <3>2. Append(conn[c].down, AnswerTo(m)) \in Seq(Msg)
      BY <1>3, ElemsAppend, MsgFacts DEF TypeOK, ConnRec
    <3>3. /\ conn' \in [Conns -> ConnRec] /\ conn'[c].down = Append(conn[c].down, AnswerTo(m))
          /\ conn'[c].state = conn[c].state /\ conn'[c].up = conn[c].up
          /\ \A x \in Conns : x # c => conn'[x] = conn[x]
      BY <3>1, <3>2, ConnDown
    <3> QED BY <2>1, <3>3
  <2>2. CASE ~Answered(m)
    BY <1>1, <2>2 DEF TypeOK
  <2> QED BY <2>1, <2>2
<1>5. /\ reader' \in [Conns -> Reader] /\ reader'[c].got = left
      /\ reader'[c].at = "handle" <=> left # <<>>
      /\ \A x \in Conns : x # c => reader'[x] = reader[x]
  BY <1>1, <1>3 DEF TypeOK, Reader
<1>6. TypeOK'
  BY <1>1, <1>4, <1>5 DEF TypeOK, ProcessStays, processVars
<1>7. ServerInv'
  <2>1. \A x \in Conns : conn'[x].state = conn[x].state
    BY <1>4
  <2> QED BY <1>1, <1>5, <2>1, ReaderKeeps
<1> QED BY <1>1, <1>2, <1>3, <1>4, <1>5, <1>6, <1>7 DEF m, left

\* What the test of the flag and a read that times out do: the reader has nothing in
\* its hands.
LEMMA ListenIdlesEffect ==
    ASSUME TypeOK, ServerInv, NEW c \in Conns, ListenLoop(c) \/ ListenTimesOut(c)
    PROVE  /\ TypeOK' /\ ProcessStays /\ ServerInv' /\ UNCHANGED <<server, conn>>
           /\ reader[c].at \in {"loop", "read"} /\ reader'[c].at \in {"loop", "read", "done"}
           /\ reader'[c].got = reader[c].got
           /\ \A x \in Conns : x # c => reader'[x] = reader[x]
<1>1. /\ reader[c].at \in {"loop", "read"} /\ UNCHANGED <<server, conn>> /\ ProcessStays
      /\ \E l \in {"loop", "read", "done"} : reader' = [reader EXCEPT ![c].at = l]
  BY DEF ListenLoop, ListenTimesOut, ProcessStays
<1>2. /\ reader' \in [Conns -> Reader] /\ reader'[c].at \in {"loop", "read", "done"}
      /\ reader'[c].got = reader[c].got
      /\ \A x \in Conns : x # c => reader'[x] = reader[x]
  BY <1>1 DEF TypeOK, Reader
<1>3. TypeOK'
  BY <1>1, <1>2 DEF TypeOK, ProcessStays, processVars
<1>4. ServerInv'
  BY <1>1, <1>2, ReaderKeeps
<1> QED BY <1>1, <1>2, <1>3, <1>4

\* What the end of the destructor does: the sockets are closed.
LEMMA DestroyedEffect ==
    ASSUME TypeOK, ServerInv, Destroyed
    PROVE  /\ TypeOK' /\ ProcessStays /\ ServerInv' /\ UNCHANGED reader
           /\ server'.acceptor = server.acceptor /\ server.acceptor # "hook"
           /\ \A x \in Conns : /\ conn'[x].up \in {<<>>, conn[x].up} /\ conn'[x].down = conn[x].down
                               /\ conn'[x].state \in {"closed", conn[x].state}
<1>1. /\ server.life = "joined" /\ server' = [server EXCEPT !.life = "gone"]
      /\ server.joined = Len(server.readWorker) /\ conn' = ClosedSockets
      /\ UNCHANGED reader /\ ProcessStays
  BY DEF Destroyed, ProcessStays
<1>2. /\ server' \in Server /\ server'.acceptor = server.acceptor /\ server'.life = "gone"
      /\ server'.joined = server.joined /\ server'.readWorker = server.readWorker
  BY <1>1 DEF TypeOK, Server
<1>3. ASSUME NEW x \in Conns
      PROVE  /\ ClosedSockets[x] \in ConnRec
             /\ ClosedSockets[x].up \in {<<>>, conn[x].up} /\ ClosedSockets[x].down = conn[x].down
             /\ ClosedSockets[x].state \in {"closed", conn[x].state}
             /\ ClosedSockets[x].state \notin {"queued", "accepted"}
  <2>1. ClosedSockets[x] = IF conn[x].state \in {"queued", "accepted"}
                           THEN [conn[x] EXCEPT !.state = "closed", !.up = <<>>] ELSE conn[x]
    BY DEF ClosedSockets
  <2>2. conn[x] \in ConnRec
    BY DEF TypeOK
  <2> QED BY <2>1, <2>2, ElemsEmpty DEF ConnRec
<1>4. conn' \in [Conns -> ConnRec]
  BY <1>1, <1>3 DEF ClosedSockets
<1>5. TypeOK'
  BY <1>1, <1>2, <1>4 DEF TypeOK, ProcessStays, processVars
<1>6. ServerInv'
  <2>1. Walked'
    BY <1>1, <1>2 DEF ServerInv, Walked
  <2> QED BY <1>1, <1>2, <1>3, <2>1 DEF ServerInv
<1> QED BY <1>1, <1>2, <1>3, <1>5, <1>6 DEF ServerInv

-----------------------------------------------------------------------------
(* The messages.                                                           *)

\* Sockets are emptied, or nothing happens to them.
Less(c) ==
    /\ conn'[c].up \in {<<>>, conn[c].up} /\ conn'[c].down \in {<<>>, conn[c].down}
    /\ reader'[c].got = reader[c].got /\ (reader'[c].at = "handle" <=> reader[c].at = "handle")
    /\ conn'[c].state \in {"new", "queued"} => reader'[c].at = "none"

\* A socket that is emptied or left alone holds no new message.
LEMMA LessMessages ==
    ASSUME NEW c \in Conns, Less(c)
    PROVE  /\ Messages(c)' \subseteq Messages(c) /\ Requests(c)' \subseteq Requests(c)
           /\ Elems(conn'[c].up) \subseteq Elems(conn[c].up)
           /\ Elems(conn'[c].down) \subseteq Elems(conn[c].down)
<1>1. Elems(conn'[c].up) \subseteq Elems(conn[c].up) /\ Elems(conn'[c].down) \subseteq Elems(conn[c].down)
  BY ElemsEmpty DEF Less
<1>2. Elems(reader'[c].got) = Elems(reader[c].got)
  BY DEF Less
<1>3. /\ Requests(c)' = Elems(conn'[c].up) \cup Elems(reader'[c].got)
      /\ Messages(c)' = Requests(c)' \cup Elems(conn'[c].down)
  BY DEF Requests, Messages, Elems
<1> QED BY <1>1, <1>2, <1>3 DEF Requests, Messages

\* A connection on which messages only disappear keeps its part of the invariant.
LEMMA FlowLess ==
    ASSUME TypeOK, TypeOK', NEW c \in Conns, FlowInv(c), Less(c), UNCHANGED mode, calls <= calls',
           \A m \in Messages(c)' : Owned(m, c) => Owned(m, c)'
    PROVE  FlowInv(c)'
<1>0. calls \in Nat /\ calls' \in Nat
  BY DEF TypeOK
<1>1. /\ Messages(c)' \subseteq Messages(c) /\ Requests(c)' \subseteq Requests(c)
      /\ Elems(conn'[c].up) \subseteq Elems(conn[c].up)
      /\ Elems(conn'[c].down) \subseteq Elems(conn[c].down)
  BY LessMessages
<1>2. /\ Messages(c)' = Requests(c)' \cup Elems(conn'[c].down)
      /\ reader'[c].got = reader[c].got
  BY DEF Messages, Less, Elems
<1>3. /\ \A m \in Requests(c)' : m.of \in 1..calls'
      /\ \A m \in Elems(conn'[c].down) : m = Config \/ (m.kind # "config" /\ m.of \in 1..calls')
  BY <1>0, <1>1 DEF FlowInv
<1>4. Distinct(conn'[c].up) /\ Distinct(reader'[c].got)
  BY <1>2, ElemsEmpty DEF FlowInv, Less
<1>5. /\ \A m \in Elems(conn'[c].up), k \in Elems(reader'[c].got) : m.of # k.of
      /\ \A m \in Requests(c)', k \in Elems(conn'[c].down) : m.of # k.of
  BY <1>1, <1>2 DEF FlowInv
<1>6. /\ reader'[c].at = "handle" <=> reader'[c].got # <<>>
      /\ conn'[c].state \in {"new", "queued"} => reader'[c].at = "none"
  BY DEF FlowInv, Less
<1>7. \A m \in Requests(c)' : Answered(m) => Owned(m, c)'
  BY <1>1, <1>2 DEF FlowInv
<1>8. \A m \in Elems(conn'[c].down) : m.kind # "config" => Owned(m, c)'
  BY <1>1, <1>2 DEF FlowInv
<1>9. Config \in Elems(conn'[c].down) => mode' = "sanitizer"
  BY <1>1 DEF FlowInv
<1> QED BY <1>3, <1>4, <1>5, <1>6, <1>7, <1>8, <1>9 DEF FlowInv, Config, Answered, Elems

\* The answer of t's request is settled: t does not wait for it, still waits, has
\* gone without it, or has it.
Settled(t) ==
    \/ thr[t].pc # "wait"
    \/ thr'[t].pc = "wait" /\ thr'[t].n = thr[t].n /\ thr'[t].c = thr[t].c
    \/ thr[t].n \in unmet'
    \/ \A c \in Conns : c = thr[t].c => \A m \in Messages(c)' : m.of # thr[t].n

\* A message keeps its owner when the thread that moves has settled its request.
LEMMA OwnedKept ==
    ASSUME NEW t \in Threads, Alone(t), unmet \subseteq unmet', Settled(t), NEW c \in Conns,
           NEW m \in Messages(c)', Owned(m, c)
    PROVE  Owned(m, c)'
<1>1. CASE m.of \in unmet
  BY <1>1 DEF Owned
<1>2. ASSUME NEW u \in Threads, thr[u].pc = "wait", thr[u].n = m.of, thr[u].c = c PROVE Owned(m, c)'
  <2>1. CASE u # t
    BY <1>2, <2>1 DEF Alone, Owned
  <2>2. CASE u = t
    BY <1>2, <2>2 DEF Settled, Owned
  <2> QED BY <2>1, <2>2
<1> QED BY <1>1, <1>2 DEF Owned

\* Read and Expire settle the request of their call.
LEMMA ReturnSettles ==
    ASSUME NEW t \in Threads, thr[t].pc = "wait", NEW c \in Conns, c = thr[t].c, UsedInv(t), FlowInv(c),
           NEW b, Returns(t, b), UNCHANGED reader, conn'[c].up = conn[c].up,
           \/ Elems(b) = Elems(thr[t].buf) /\ UNCHANGED conn
           \/ Elems(b) = Elems(thr[t].buf) \cup Elems(conn[c].down) /\ conn'[c].down = <<>>
    PROVE  Settled(t)
<1>1. CASE \A m \in Elems(b) : m.of # thr[t].n
  BY <1>1 DEF Returns, Settled
<1>2. Messages(c)' = Elems(conn'[c].up) \cup Elems(reader'[c].got) \cup Elems(conn'[c].down)
  BY DEF Messages, Requests, Elems
<1>3. Requests(c) = Elems(conn'[c].up) \cup Elems(reader'[c].got)
  BY DEF Requests
<1>4. CASE \E k \in Elems(thr[t].buf) : k.of = thr[t].n
  <2>1. \A m \in Messages(c) : m.of # thr[t].n
    BY <1>4 DEF UsedInv
  <2>2. Elems(conn'[c].down) \subseteq Elems(conn[c].down)
    BY ElemsEmpty
  <2> QED BY <1>2, <1>3, <2>1, <2>2 DEF Settled, Messages
<1>5. CASE /\ \E k \in Elems(conn[c].down) : k.of = thr[t].n
           /\ conn'[c].down = <<>>
  <2>1. \A m \in Requests(c) : m.of # thr[t].n
    BY <1>5 DEF FlowInv
  <2> QED BY <1>2, <1>3, <1>5, <2>1, ElemsEmpty DEF Settled
<1> QED BY <1>1, <1>4, <1>5

\* A socket and its reader that a step leaves alone.
LEMMA LessSame ==
    ASSUME NEW c \in Conns, FlowInv(c), conn'[c].up = conn[c].up, conn'[c].down \in {<<>>, conn[c].down},
           conn'[c].state = conn[c].state \/ conn[c].state = "new", reader'[c] = reader[c]
    PROVE  Less(c)
BY DEF FlowInv, Less

\* Steps of the process that send nothing.
LEMMA ProcessFlow ==
    ASSUME LinkInv, TypeOK', NEW t \in Threads, Alone(t), unmet \subseteq unmet', Settled(t),
           UNCHANGED <<mode, reader>>, calls <= calls', NEW c \in Conns, conn'[c].up = conn[c].up,
           conn'[c].down \in {<<>>, conn[c].down},
           conn'[c].state = conn[c].state \/ conn[c].state = "new"
    PROVE  FlowInv(c)'
<1>1. TypeOK /\ FlowInv(c)
  BY DEF LinkInv
<1>2. Less(c)
  BY <1>1, LessSame
<1>3. \A m \in Messages(c)' : Owned(m, c) => Owned(m, c)'
  BY OwnedKept
<1> QED BY <1>1, <1>2, <1>3, FlowLess

\* Steps of the server that send nothing.
LEMMA ServerFlow ==
    ASSUME LinkInv, TypeOK', ProcessStays, NEW c \in Conns, Less(c) PROVE FlowInv(c)'
<1>1. TypeOK /\ FlowInv(c) /\ calls \in Nat
  BY DEF LinkInv, TypeOK
<1>2. UNCHANGED <<mode, calls, unmet, thr>>
  BY DEF ProcessStays, processVars
<1>3. \A m \in Messages(c)' : Owned(m, c) => Owned(m, c)'
  BY <1>2 DEF Owned
<1> QED BY <1>1, <1>2, <1>3, FlowLess

\* Notify puts a request with a number of its own on the connection.
LEMMA SendFlow ==
    ASSUME LinkInv, NEW t \in Threads, thr[t].c \in Conns, Send(t), NEW c \in Conns
    PROVE  FlowInv(c)'
<1>0. /\ TypeOK /\ FlowInv(c) /\ UniqueInv /\ UsedInv(t) /\ calls \in Nat
  BY DEF LinkInv, TypeOK
<1>1. /\ TypeOK' /\ thr[t].pc = "send" /\ Alone(t)
      /\ UNCHANGED <<calls, mode, configMutex, configMap, server, reader, configOut>>
      /\ Request(t) \in Msg /\ Request(t).of = thr[t].n /\ Request(t).kind = thr[t].kind
      /\ conn'[thr[t].c].down = conn[thr[t].c].down /\ conn'[thr[t].c].state = conn[thr[t].c].state
      /\ \A x \in Conns : x # thr[t].c => conn'[x] = conn[x]
      /\ \/ conn'[thr[t].c].up = Append(conn[thr[t].c].up, Request(t)) /\ Connected(thr[t].c)
         \/ conn'[thr[t].c].up = conn[thr[t].c].up /\ ~Connected(thr[t].c)
      /\ \/ Awaits(t) /\ GoesOn(t, "wait")
         \/ ~Awaits(t) /\ Returns(t, <<>>)
  BY <1>0, SendEffect
<1>2. unmet \subseteq unmet' /\ Settled(t) /\ calls <= calls'
  BY SMTT(30), <1>0, <1>1 DEF GoesOn, Returns, Settled
<1>3. CASE c # thr[t].c \/ conn'[c].up = conn[c].up
  BY <1>1, <1>2, <1>3, ProcessFlow
<1>4. CASE c = thr[t].c /\ conn'[c].up = Append(conn[c].up, Request(t)) /\ Connected(thr[t].c)
  <2>0. PICK r \in Msg : r = Request(t)
    BY <1>1
  <2>1. /\ conn[c].up \in Seq(Msg) /\ r \in Msg /\ r.of = thr[t].n /\ r.kind = thr[t].kind
    BY <1>0, <1>1, <2>0 DEF TypeOK, ConnRec
  <2>2. \A m \in Messages(c) : m.of # r.of
    BY <1>0, <1>1, <2>1 DEF UsedInv, Before
  <2>3. Elems(conn[c].up) \subseteq Messages(c) /\ Requests(c) \subseteq Messages(c)
        /\ Elems(conn[c].down) \subseteq Messages(c) /\ Elems(reader[c].got) \subseteq Messages(c)
    BY DEF Messages, Requests
  <2>4. conn'[c].up = Append(conn[c].up, r) /\ conn'[c].down = conn[c].down /\ reader' = reader
        /\ conn'[c].state = conn[c].state
    BY <1>1, <1>4, <2>0
  <2>5. Elems(conn'[c].up) = Elems(conn[c].up) \cup {r} /\ Distinct(conn'[c].up)
    BY <1>0, <2>1, <2>2, <2>3, <2>4, ElemsAppend DEF FlowInv
  <2>6. Requests(c)' = Requests(c) \cup {r} /\ Messages(c)' = Messages(c) \cup {r}
    <3>1. /\ Requests(c)' = Elems(conn'[c].up) \cup Elems(reader'[c].got)
          /\ Messages(c)' = Requests(c)' \cup Elems(conn'[c].down)
      BY DEF Requests, Messages, Elems
    <3> QED BY <2>4, <2>5, <3>1 DEF Requests, Messages
  <2>7. r.of \in 1..calls'
    BY <1>0, <1>1, <2>1 DEF UniqueInv
  <2>8. Answered(r) => Owned(r, c)'
    <3>1. CASE Awaits(t)
      BY <1>1, <1>4, <2>1, <3>1 DEF GoesOn, Owned
    <3>2. CASE ~Awaits(t)
      BY <1>4, <2>1, <3>2 DEF Awaits, Answered
    <3> QED BY <3>1, <3>2
  <2>9. \A m \in Messages(c) : Owned(m, c) => Owned(m, c)'
    BY <1>1, <1>2, <2>6, OwnedKept
  <2>10. /\ \A m \in Requests(c)' : m.of \in 1..calls'
         /\ \A m \in Elems(conn'[c].down) : m = Config \/ (m.kind # "config" /\ m.of \in 1..calls')
    BY <1>0, <1>1, <2>4, <2>6, <2>7 DEF FlowInv
  <2>11. Distinct(reader'[c].got)
    BY <1>0, <2>4 DEF FlowInv
  <2>12. /\ \A m \in Elems(conn'[c].up), k \in Elems(reader'[c].got) : m.of # k.of
         /\ \A m \in Requests(c)', k \in Elems(conn'[c].down) : m.of # k.of
    BY <1>0, <2>2, <2>3, <2>4, <2>5, <2>6 DEF FlowInv
  <2>13. /\ \A m \in Requests(c)' : Answered(m) => Owned(m, c)'
         /\ \A m \in Elems(conn'[c].down) : m.kind # "config" => Owned(m, c)'
    BY <1>0, <2>3, <2>4, <2>6, <2>8, <2>9 DEF FlowInv
  <2>14. /\ reader'[c].at = "handle" <=> reader'[c].got # <<>>
         /\ conn'[c].state \in {"new", "queued"} => reader'[c].at = "none"
         /\ Config \in Elems(conn'[c].down) => mode' = "sanitizer"
    BY <1>0, <1>1, <2>4 DEF FlowInv
  <2> QED BY <2>5, <2>10, <2>11, <2>12, <2>13, <2>14 DEF FlowInv, Config, Answered, Elems
<1> QED BY <1>1, <1>3, <1>4

\* What a connection holds after a step.
LEMMA PrimedMessages ==
    ASSUME NEW c \in Conns
    PROVE  /\ Requests(c)' = Elems(conn'[c].up) \cup Elems(reader'[c].got)
           /\ Messages(c)' = Elems(conn'[c].up) \cup Elems(reader'[c].got) \cup Elems(conn'[c].down)
BY DEF Requests, Messages, Elems

\* The connect hook sends the configuration.
LEMMA HookFlow ==
    ASSUME LinkInv, ConnectHook, NEW c \in Conns
    PROVE  FlowInv(c)' /\ \A m \in Messages(c)' : m \in Messages(c) \/ m = Config
<1>0. TypeOK /\ FlowInv(c) /\ ServerInv
  BY DEF LinkInv
<1>1. /\ TypeOK' /\ ProcessStays /\ UNCHANGED reader
      /\ conn'[c].up = conn[c].up /\ conn'[c].state = conn[c].state
      /\ \/ conn'[c].down = conn[c].down
         \/ conn'[c].down = Append(conn[c].down, Config) /\ mode = "sanitizer"
  BY <1>0, HookEffect
<1>2. CASE conn'[c].down = conn[c].down
  <2>1. Less(c)
    BY <1>0, <1>1, <1>2, LessSame
  <2> QED BY <1>1, <2>1, ServerFlow, LessMessages
<1>3. CASE conn'[c].down = Append(conn[c].down, Config) /\ mode = "sanitizer"
  <2>1. Elems(conn'[c].down) = Elems(conn[c].down) \cup {Config}
    BY <1>0, <1>3, ElemsAppend, MsgFacts DEF TypeOK, ConnRec
  <2>2. /\ Requests(c)' = Requests(c) /\ Messages(c)' = Messages(c) \cup {Config}
    BY <1>1, <2>1, PrimedMessages DEF Requests, Messages
  <2>3. UNCHANGED <<mode, calls, unmet, thr>> /\ calls \in Nat
    BY <1>0, <1>1 DEF ProcessStays, processVars, TypeOK
  <2>4. \A m \in Messages(c) : Owned(m, c) => Owned(m, c)'
    BY <2>3 DEF Owned
  <2>5. /\ \A m \in Requests(c)' : m.of \in 1..calls'
        /\ \A m \in Elems(conn'[c].down) : m = Config \/ (m.kind # "config" /\ m.of \in 1..calls')
    BY <1>0, <2>1, <2>2, <2>3 DEF FlowInv
  <2>6. /\ Distinct(conn'[c].up) /\ Distinct(reader'[c].got)
        /\ \A m \in Elems(conn'[c].up), k \in Elems(reader'[c].got) : m.of # k.of
        /\ reader'[c].at = "handle" <=> reader'[c].got # <<>>
        /\ conn'[c].state \in {"new", "queued"} => reader'[c].at = "none"
    BY <1>0, <1>1 DEF FlowInv
  <2>7. \A m \in Requests(c)', k \in Elems(conn'[c].down) : m.of # k.of
    BY <1>0, <2>1, <2>2, MsgFacts DEF FlowInv
  <2>8. /\ \A m \in Requests(c)' : Answered(m) => Owned(m, c)'
        /\ \A m \in Elems(conn'[c].down) : m.kind # "config" => Owned(m, c)'
    BY <1>0, <2>1, <2>2, <2>4, MsgFacts DEF FlowInv, Messages
  <2>9. FlowInv(c)'
    BY <1>3, <2>3, <2>5, <2>6, <2>7, <2>8 DEF FlowInv, Config, Answered, Elems
  <2> QED BY <2>2, <2>9
<1> QED BY <1>1, <1>2, <1>3

\* The reader takes what has arrived.
LEMMA ListenReadFlow ==
    ASSUME LinkInv, NEW x \in Conns, ListenRead(x), NEW c \in Conns
    PROVE  FlowInv(c)' /\ Messages(c)' = Messages(c) /\ Requests(c)' = Requests(c)
<1>0. TypeOK /\ FlowInv(c) /\ ServerInv
  BY DEF LinkInv
<1>1. /\ TypeOK' /\ ProcessStays
      /\ reader[x].at = "read" /\ conn[x].up # <<>>
      /\ reader'[x].at = "handle" /\ reader'[x].got = conn[x].up
      /\ conn'[x].up = <<>> /\ conn'[x].down = conn[x].down /\ conn'[x].state = conn[x].state
      /\ \A y \in Conns : y # x => conn'[y] = conn[y] /\ reader'[y] = reader[y]
  BY <1>0, ListenReadEffect
<1>2. CASE c # x
  <2>1. Less(c)
    BY <1>0, <1>1, <1>2, LessSame
  <2>2. Messages(c)' = Messages(c) /\ Requests(c)' = Requests(c)
    BY <1>1, <1>2, PrimedMessages DEF Messages, Requests
  <2> QED BY <1>1, <2>1, <2>2, ServerFlow
<1>3. CASE c = x
  <2>1. Elems(reader[c].got) = {}
    BY <1>0, <1>1, <1>3, ElemsEmpty DEF FlowInv
  <2>2. Elems(conn'[c].up) = {} /\ Elems(reader'[c].got) = Elems(conn[c].up)
    BY <1>1, <1>3, ElemsEmpty
  <2>3. Requests(c)' = Requests(c) /\ Messages(c)' = Messages(c)
    BY <1>1, <1>3, <2>1, <2>2, PrimedMessages DEF Requests, Messages
  <2>4. UNCHANGED <<mode, calls, unmet, thr>>
    BY <1>1 DEF ProcessStays, processVars
  <2>5. \A m \in Messages(c) : Owned(m, c) => Owned(m, c)'
    BY <2>4 DEF Owned
  <2>6. /\ \A m \in Requests(c)' : m.of \in 1..calls'
        /\ \A m \in Elems(conn'[c].down) : m = Config \/ (m.kind # "config" /\ m.of \in 1..calls')
        /\ Config \in Elems(conn'[c].down) => mode' = "sanitizer"
        /\ \A m \in Requests(c)', k \in Elems(conn'[c].down) : m.of # k.of
    BY <1>0, <1>1, <1>3, <2>3, <2>4 DEF FlowInv
  <2>7. /\ Distinct(conn'[c].up) /\ Distinct(reader'[c].got)
        /\ \A m \in Elems(conn'[c].up), k \in Elems(reader'[c].got) : m.of # k.of
    BY <1>0, <1>1, <1>3, <2>2, ElemsEmpty DEF FlowInv
  <2>8. /\ reader'[c].at = "handle" <=> reader'[c].got # <<>>
        /\ conn'[c].state \in {"new", "queued"} => reader'[c].at = "none"
    BY <1>0, <1>1, <1>3 DEF FlowInv
  <2>9. /\ \A m \in Requests(c)' : Answered(m) => Owned(m, c)'
        /\ \A m \in Elems(conn'[c].down) : m.kind # "config" => Owned(m, c)'
    BY <1>0, <1>1, <1>3, <2>3, <2>5 DEF FlowInv, Messages
  <2>10. FlowInv(c)'
    BY <2>6, <2>7, <2>8, <2>9 DEF FlowInv, Config, Answered, Elems
  <2> QED BY <2>3, <2>10
<1> QED BY <1>2, <1>3

\* The tool answers a request with the number of the request.
LEMMA HandleFlow ==
    ASSUME LinkInv, NEW x \in Conns, Handle(x), NEW c \in Conns
    PROVE  /\ FlowInv(c)'
           /\ Requests(c)' \subseteq Requests(c)
           /\ \A m \in Messages(c)' : \E k \in Messages(c) : k.of = m.of
           /\ \A m \in Elems(conn'[c].down) :
                 \/ m \in Elems(conn[c].down)
                 \/ m.kind # "config" /\ \E k \in Requests(c) : Answered(k) /\ m = AnswerTo(k)
           /\ conn'[c].down = conn[c].down \/ \E k \in Requests(c) : Answered(k)
<1>0. TypeOK /\ FlowInv(c) /\ FlowInv(x) /\ ServerInv
  BY DEF LinkInv
<1>1. PICK r \in Msg : r = Head(reader[x].got)
  BY <1>0, HandleEffect
<1>2. /\ TypeOK' /\ ProcessStays
      /\ reader[x].got \in Seq(Msg) /\ reader[x].got # <<>>
      /\ reader'[x].got = Tail(reader[x].got)
      /\ reader'[x].at = "handle" <=> reader'[x].got # <<>>
      /\ conn'[x].up = conn[x].up /\ conn'[x].state = conn[x].state
      /\ conn'[x].down = IF Answered(r) THEN Append(conn[x].down, AnswerTo(r)) ELSE conn[x].down
      /\ \A y \in Conns : y # x => conn'[y] = conn[y] /\ reader'[y] = reader[y]
      /\ reader[x].at # "none"
  BY <1>0, <1>1, HandleEffect
<1>3. CASE c # x
  <2>1. Less(c)
    BY <1>0, <1>2, <1>3, LessSame
  <2>2. Messages(c)' = Messages(c) /\ Requests(c)' = Requests(c)
    BY <1>2, <1>3, PrimedMessages DEF Messages, Requests
  <2> QED BY <1>2, <1>3, <2>1, <2>2, ServerFlow
<1>4. CASE c = x
  <2>1. /\ Elems(reader[c].got) = {r} \cup Elems(reader'[c].got) /\ Distinct(reader'[c].got)
        /\ \A k \in Elems(reader'[c].got) : k.of # r.of
    BY <1>0, <1>1, <1>2, <1>4, ElemsHead DEF FlowInv
  <2>2. /\ AnswerTo(r) \in Msg /\ AnswerTo(r).of = r.of /\ AnswerTo(r).kind # "config"
        /\ AnswerTo(r).kind = QueryResponsePacketType(r.kind)
    BY MsgFacts
  <2>3. Elems(conn'[c].down) = IF Answered(r) THEN Elems(conn[c].down) \cup {AnswerTo(r)}
                               ELSE Elems(conn[c].down)
    <3>1. conn[c].down \in Seq(Msg)
      BY <1>0 DEF TypeOK, ConnRec
    <3>2. Elems(Append(conn[c].down, AnswerTo(r))) = Elems(conn[c].down) \cup {AnswerTo(r)}
      BY <2>2, <3>1, ElemsAppend
    <3> QED BY <1>2, <1>4, <3>2
  <2>4. /\ Requests(c) = Elems(conn[c].up) \cup {r} \cup Elems(reader'[c].got)
        /\ Requests(c)' = Elems(conn[c].up) \cup Elems(reader'[c].got)
        /\ Messages(c)' = Requests(c)' \cup Elems(conn'[c].down)
        /\ Messages(c) = Requests(c) \cup Elems(conn[c].down)
    BY <1>2, <1>4, <2>1, PrimedMessages DEF Requests, Messages
  <2>5. UNCHANGED <<mode, calls, unmet, thr>>
    BY <1>2 DEF ProcessStays, processVars
  <2>6. \A m \in Messages(c) : Owned(m, c) => Owned(m, c)'
    BY <2>5 DEF Owned
  <2>7. /\ \A m \in Requests(c)' : m.of \in 1..calls'
        /\ \A m \in Elems(conn'[c].down) : m = Config \/ (m.kind # "config" /\ m.of \in 1..calls')
    BY <1>0, <2>2, <2>3, <2>4, <2>5 DEF FlowInv
  <2>8. Config \in Elems(conn'[c].down) => mode' = "sanitizer"
    BY <1>0, <2>2, <2>3, <2>5, MsgFacts DEF FlowInv
  <2>9. /\ Distinct(conn'[c].up)
        /\ \A m \in Elems(conn'[c].up), k \in Elems(reader'[c].got) : m.of # k.of
    BY <1>0, <1>2, <1>4, <2>1 DEF FlowInv
  <2>10. \A m \in Requests(c)' : m.of # r.of
    BY <1>0, <2>1, <2>4 DEF FlowInv
  <2>11. \A m \in Requests(c)', k \in Elems(conn'[c].down) : m.of # k.of
    BY <1>0, <2>2, <2>3, <2>4, <2>10 DEF FlowInv
  <2>12. /\ reader'[c].at = "handle" <=> reader'[c].got # <<>>
         /\ conn'[c].state \in {"new", "queued"} => reader'[c].at = "none"
    BY <1>0, <1>2, <1>4 DEF FlowInv
  <2>13. \A m \in Requests(c)' : Answered(m) => Owned(m, c)'
    BY <1>0, <2>4, <2>6 DEF FlowInv
  <2>14. ASSUME NEW m \in Elems(conn'[c].down), m.kind # "config" PROVE Owned(m, c)'
    <3>1. CASE m \in Elems(conn[c].down)
      BY <1>0, <2>4, <2>6, <2>14, <3>1 DEF FlowInv
    <3>2. CASE m \notin Elems(conn[c].down)
      <4>1. Answered(r) /\ m.of = r.of
        BY <2>2, <2>3, <2>14, <3>2
      <4>2. Owned(r, c)'
        BY <1>0, <2>4, <2>6, <4>1 DEF FlowInv
      <4> QED BY <4>1, <4>2 DEF Owned
    <3> QED BY <3>1, <3>2
  <2>15. FlowInv(c)'
    BY <2>1, <2>7, <2>8, <2>9, <2>11, <2>12, <2>13, <2>14 DEF FlowInv, Config, Answered, Elems
  <2>16. \A m \in Messages(c)' : \E k \in Messages(c) : k.of = m.of
    BY <2>2, <2>3, <2>4
  <2>17. \A m \in Elems(conn'[c].down) :
            \/ m \in Elems(conn[c].down)
            \/ m.kind # "config" /\ \E k \in Requests(c) : Answered(k) /\ m = AnswerTo(k)
    BY <2>2, <2>3, <2>4
  <2>18. conn'[c].down = conn[c].down \/ \E k \in Requests(c) : Answered(k)
    BY <1>2, <1>4, <2>4
  <2> QED BY <2>4, <2>15, <2>16, <2>17, <2>18
<1> QED BY <1>3, <1>4

-----------------------------------------------------------------------------
(* The steps of the server.                                                *)

\* A configuration that has been received or given up stays so.
LEMMA ConfigKept ==
    ASSUME NEW d \in Devices, ConfigInv(d), configMap'[d] = configMap[d], configOut \subseteq configOut',
           Pending(d)' => Pending(d), Requests(d)' \subseteq Requests(d),
           \/ conn'[d].down \in {<<>>, conn[d].down}
           \/ /\ \E k \in Requests(d) : Answered(k)
              /\ Config \in Elems(conn'[d].down) => Config \in Elems(conn[d].down)
    PROVE  ConfigInv(d)'
<1>1. configMap[d] = "none" => conn'[d].down \in {<<>>, conn[d].down}
  BY DEF ConfigInv
<1>2. Config \in Elems(conn'[d].down) => Config \in Elems(conn[d].down)
  BY ElemsEmpty
<1>3. configMap'[d] = "none" => /\ \A m \in Requests(d)' : ~Answered(m)
                                /\ conn'[d].down \in {<<>>, <<Config>>}
  BY <1>1 DEF ConfigInv
<1>4. /\ Pending(d)' => Config \notin Elems(conn'[d].down) /\ configMap'[d] # "config"
      /\ configMap'[d] = "config" => Config \notin Elems(conn'[d].down)
      /\ configMap'[d] = "default" => d \in configOut'
  BY <1>2 DEF ConfigInv
<1> QED BY <1>3, <1>4 DEF ConfigInv, Config, Answered, Elems

\* What the process knows does not change while the server runs.
LEMMA ServerProcess ==
    ASSUME LinkInv, ProcessStays,
           \A c \in Conns : \A m \in Messages(c)' : m.of = 0 \/ \E k \in Messages(c) : k.of = m.of
    PROVE  /\ UniqueInv' /\ TogetherInv' /\ OwnAnswer'
           /\ \A t \in Threads : UsedInv(t)' /\ ModeInv(t)' /\ CallInv(t)'
<1>1. UNCHANGED <<mode, calls, thr, configMutex, configMap, communtionMx, instance, last, unmet, mixed,
                  configOut>>
  BY DEF ProcessStays, processVars
<1>2. UniqueInv' /\ TogetherInv'
  BY <1>1 DEF LinkInv, UniqueInv, TogetherInv
<1>3. OwnAnswer'
  BY <1>1 DEF LinkInv, OwnAnswer, Explained
<1>4. ASSUME NEW t \in Threads PROVE UsedInv(t)' /\ ModeInv(t)' /\ CallInv(t)'
  <2>1. UsedInv(t) /\ ModeInv(t) /\ CallInv(t) /\ TypeOK /\ UniqueInv
    BY DEF LinkInv
  <2>2. ModeInv(t)'
    BY <1>1, <2>1 DEF ModeInv
  <2>3. CallInv(t)'
    BY <1>1, <2>1 DEF CallInv, Explained, Elems
  <2>4. thr[t].pc # "idle" => thr[t].n # 0
    BY <2>1 DEF UniqueInv, TypeOK
  <2>5. ASSUME thr[t].pc # "idle", NEW c \in Conns, \A m \in Messages(c) : m.of # thr[t].n
        PROVE  \A m \in Messages(c)' : m.of # thr[t].n
    BY <2>4, <2>5
  <2>6. thr'[t].pc \in Before => \A c \in Conns : \A m \in Messages(c)' : m.of # thr'[t].n
    BY <1>1, <2>1, <2>5 DEF UsedInv, Before
  <2>7. thr'[t].pc = "wait" /\ (\E k \in Elems(thr'[t].buf) : k.of = thr'[t].n) =>
           \A c \in Conns : thr'[t].c = c => \A m \in Messages(c)' : m.of # thr'[t].n
    BY <1>1, <2>1, <2>5 DEF UsedInv
  <2>8. UsedInv(t)'
    BY <2>6, <2>7 DEF UsedInv, Elems
  <2> QED BY <2>2, <2>3, <2>8
<1> QED BY <1>2, <1>3, <1>4

\* Steps that move no message.
LEMMA ServerCalm ==
    ASSUME LinkInv, TypeOK', ServerInv', ProcessStays, \A c \in Conns : Less(c),
           \A d \in Devices : Pending(d)' => Pending(d)
    PROVE  LinkInv'
<1>1. \A c \in Conns : FlowInv(c)'
  BY ServerFlow
<1>2. \A c \in Conns : Messages(c)' \subseteq Messages(c)
  BY LessMessages
<1>3. /\ UniqueInv' /\ TogetherInv' /\ OwnAnswer'
      /\ \A t \in Threads : UsedInv(t)' /\ ModeInv(t)' /\ CallInv(t)'
  BY <1>2, ServerProcess
<1>4. ASSUME NEW d \in Devices PROVE ConfigInv(d)'
  <2>1. d \in Conns /\ ConfigInv(d) /\ Less(d)
    BY DEF Conns, LinkInv
  <2>2. UNCHANGED <<configMap, configOut>>
    BY DEF ProcessStays, processVars
  <2>3. Requests(d)' \subseteq Requests(d) /\ conn'[d].down \in {<<>>, conn[d].down}
    BY <2>1, LessMessages DEF Less
  <2> QED BY <2>1, <2>2, <2>3, ConfigKept
<1> QED BY <1>1, <1>3, <1>4 DEF LinkInv

\* A step of the server keeps the invariant.
LEMMA ServerStep ==
    ASSUME LinkInv, \/ Start \/ AcceptOther \/ Stop \/ AcceptorStep \/ DestructorStep
                    \/ \E c \in Conns : ReaderStep(c)
    PROVE  LinkInv'
<1>0. TypeOK /\ ServerInv /\ (\A c \in Conns : FlowInv(c)) /\ \A d \in Devices : d \in Conns
  BY DEF LinkInv, Conns
<1>1. CASE \/ Start \/ AcceptOther \/ Stop \/ AcceptorLoop \/ AcceptTimesOut
           \/ JoinAcceptor \/ JoinReader
  <2>1. /\ TypeOK' /\ ProcessStays /\ UNCHANGED <<conn, reader>> /\ ServerInv'
        /\ server'.client = server.client
        /\ server'.acceptor = "hook" <=> server.acceptor = "hook"
    BY <1>0, <1>1, QuietServerEffect
  <2>2. \A c \in Conns : Less(c)
    BY <1>0, <2>1, LessSame
  <2>3. \A d \in Devices : Pending(d)' => Pending(d)
    BY <2>1 DEF Pending
  <2> QED BY <2>1, <2>2, <2>3, ServerCalm
<1>2. ASSUME NEW c \in Conns, Accept(c) PROVE LinkInv'
  <2>1. /\ TypeOK' /\ ProcessStays /\ ServerInv' /\ conn[c].state = "queued"
        /\ \A x \in Conns : conn'[x].up = conn[x].up /\ conn'[x].down = conn[x].down
        /\ \A x \in Conns : reader'[x].got = reader[x].got
        /\ \A x \in Conns : x # c => conn'[x] = conn[x] /\ reader'[x] = reader[x]
        /\ conn'[c].state \notin {"new", "queued"} /\ reader'[c].at \in {"loop", reader[c].at}
        /\ server.acceptor = "accept"
        /\ server'.acceptor = "hook" => server'.client = c
    BY <1>0, <1>2, AcceptEffect
  <2>2. ASSUME NEW x \in Conns PROVE Less(x)
    <3>1. CASE x = c
      <4>1. reader[c].at = "none"
        BY <1>0, <2>1 DEF FlowInv
      <4> QED BY <2>1, <3>1, <4>1 DEF Less
    <3>2. CASE x # c
      BY <1>0, <2>1, <3>2, LessSame
    <3> QED BY <3>1, <3>2
  <2>3. \A d \in Devices : Pending(d)' => Pending(d)
    BY <1>0, <2>1 DEF Pending
  <2> QED BY <2>1, <2>2, <2>3, ServerCalm
<1>3. CASE ConnectHook
  <2>1. /\ TypeOK' /\ ProcessStays /\ ServerInv' /\ UNCHANGED reader
        /\ server.acceptor = "hook" /\ server.client \in Conns /\ server'.acceptor = "loop"
        /\ conn[server.client].state \notin {"new", "queued"}
        /\ \A x \in Conns : conn'[x].up = conn[x].up /\ conn'[x].state = conn[x].state
        /\ \A x \in Conns : x # server.client => conn'[x] = conn[x]
        /\ conn'[server.client].down = IF mode = "sanitizer" THEN Append(conn[server.client].down, Config)
                                       ELSE conn[server.client].down
    BY <1>0, <1>3, HookEffect
  <2>2. \A c \in Conns : FlowInv(c)' /\ \A m \in Messages(c)' : m \in Messages(c) \/ m = Config
    BY <1>3, HookFlow
  <2>3. /\ UniqueInv' /\ TogetherInv' /\ OwnAnswer'
        /\ \A t \in Threads : UsedInv(t)' /\ ModeInv(t)' /\ CallInv(t)'
    BY <2>1, <2>2, ServerProcess, MsgFacts
  <2>4. ASSUME NEW d \in Devices PROVE ConfigInv(d)'
    <3>1. UNCHANGED <<configMap, configOut>> /\ d \in Conns /\ ConfigInv(d)
      BY <1>0, <2>1 DEF ProcessStays, processVars, LinkInv
    <3>2. Requests(d)' = Requests(d)
      BY <2>1, <3>1, PrimedMessages DEF Requests
    <3>3. Pending(d)' => Pending(d)
      BY <2>1, <3>1 DEF Pending
    <3>4. CASE conn'[d].down = conn[d].down
      BY <3>1, <3>2, <3>3, <3>4, ConfigKept
    <3>5. CASE d = server.client /\ conn'[d].down = Append(conn[d].down, Config)
      <4>1. Pending(d) /\ ~Pending(d)'
        BY <2>1, <3>1, <3>5 DEF Pending
      <4>2. Config \notin Elems(conn[d].down) /\ configMap[d] # "config"
        BY <3>1, <4>1 DEF ConfigInv
      <4>3. configMap[d] = "none" => conn'[d].down = <<Config>>
        <5>1. ASSUME configMap[d] = "none" PROVE conn[d].down = <<>>
          BY <3>1, <4>2, <5>1, ElemsOne DEF ConfigInv
        <5>2. Append(<<>>, Config) = <<Config>>
          OBVIOUS
        <5> QED BY <3>5, <5>1, <5>2
      <4>4. configMap'[d] = "none" => /\ \A m \in Requests(d)' : ~Answered(m)
                                      /\ conn'[d].down \in {<<>>, <<Config>>}
        BY <3>1, <3>2, <4>3 DEF ConfigInv
      <4> QED BY <3>1, <4>1, <4>2, <4>4 DEF ConfigInv, Config, Answered, Elems
    <3> QED BY <2>1, <3>1, <3>4, <3>5
  <2> QED BY <2>1, <2>2, <2>3, <2>4 DEF LinkInv
<1>4. ASSUME NEW c \in Conns, ListenRead(c) \/ Handle(c) PROVE LinkInv'
  <2>1. /\ TypeOK' /\ ProcessStays /\ ServerInv' /\ UNCHANGED server
        /\ \A x \in Conns : conn'[x].state = conn[x].state
    <3>1. CASE ListenRead(c)
      BY <1>0, <3>1, ListenReadEffect
    <3>2. CASE Handle(c)
      BY <1>0, <3>2, HandleEffect
    <3> QED BY <1>4, <3>1, <3>2
  <2>2. ASSUME NEW x \in Conns
        PROVE  /\ FlowInv(x)' /\ Requests(x)' \subseteq Requests(x)
               /\ \A m \in Messages(x)' : \E k \in Messages(x) : k.of = m.of
               /\ Config \in Elems(conn'[x].down) => Config \in Elems(conn[x].down)
               /\ conn'[x].down = conn[x].down \/ \E k \in Requests(x) : Answered(k)
    <3>1. CASE ListenRead(c)
      <4>1. conn'[x].down = conn[x].down
        BY <1>0, <3>1, ListenReadEffect
      <4> QED BY <3>1, <4>1, ListenReadFlow
    <3>2. CASE Handle(c)
      BY <3>2, HandleFlow, MsgFacts
    <3> QED BY <1>4, <3>1, <3>2
  <2>3. /\ UniqueInv' /\ TogetherInv' /\ OwnAnswer'
        /\ \A t \in Threads : UsedInv(t)' /\ ModeInv(t)' /\ CallInv(t)'
    BY <2>1, <2>2, ServerProcess
  <2>4. ASSUME NEW d \in Devices PROVE ConfigInv(d)'
    <3>1. UNCHANGED <<configMap, configOut>> /\ d \in Conns /\ ConfigInv(d)
      BY <1>0, <2>1 DEF ProcessStays, processVars, LinkInv
    <3>2. Pending(d)' => Pending(d)
      BY <2>1, <3>1 DEF Pending
    <3> QED BY <2>2, <3>1, <3>2, ConfigKept
  <2> QED BY <2>1, <2>2, <2>3, <2>4 DEF LinkInv
<1>5. ASSUME NEW c \in Conns, ListenLoop(c) \/ ListenTimesOut(c) PROVE LinkInv'
  <2>1. /\ TypeOK' /\ ProcessStays /\ ServerInv' /\ UNCHANGED <<server, conn>>
        /\ reader[c].at \in {"loop", "read"} /\ reader'[c].at \in {"loop", "read", "done"}
        /\ reader'[c].got = reader[c].got
        /\ \A x \in Conns : x # c => reader'[x] = reader[x]
    BY <1>0, <1>5, ListenIdlesEffect
  <2>2. ASSUME NEW x \in Conns PROVE Less(x)
    BY <1>0, <2>1 DEF Less, FlowInv
  <2>3. \A d \in Devices : Pending(d)' => Pending(d)
    BY <2>1 DEF Pending
  <2> QED BY <2>1, <2>2, <2>3, ServerCalm
<1>6. CASE Destroyed
  <2>1. /\ TypeOK' /\ ProcessStays /\ ServerInv' /\ UNCHANGED reader
        /\ server'.acceptor = server.acceptor /\ server.acceptor # "hook"
        /\ \A x \in Conns : /\ conn'[x].up \in {<<>>, conn[x].up} /\ conn'[x].down = conn[x].down
                            /\ conn'[x].state \in {"closed", conn[x].state}
    BY <1>0, <1>6, DestroyedEffect
  <2>2. ASSUME NEW x \in Conns PROVE Less(x)
    BY <1>0, <2>1 DEF Less, FlowInv
  <2>3. \A d \in Devices : Pending(d)' => Pending(d)
    BY <1>0, <2>1 DEF Pending
  <2> QED BY <2>1, <2>2, <2>3, ServerCalm
<1> QED BY <1>1, <1>2, <1>3, <1>4, <1>5, <1>6 DEF AcceptorStep, DestructorStep, ReaderStep

-----------------------------------------------------------------------------
(* The steps of the process.                                               *)

\* What the last call of t received is its answer or explained.
Answers(t) ==
    \A m \in Elems(last[t].buf) : m.of = last[t].of \/ Explained(m, last[t].c)

\* What a step of thread t leaves to the other threads: the locks they hold, and no
\* less of the history that explains what they received.
Moves(t) ==
    /\ Alone(t) /\ UNCHANGED <<mode, calls, server, reader>>
    /\ unmet \subseteq unmet' /\ mixed \subseteq mixed' /\ configOut \subseteq configOut'
    /\ configMutex \in {None, t} \/ UNCHANGED <<configMutex, configMap>>
    /\ instance' \in {"made", instance}
    /\ communtionMx' = communtionMx \/ communtionMx \in {None, t}
    /\ \A d \in Devices : configMap'[d] = configMap[d] \/ configMap'[d] # "none"

\* OwnAnswer, thread by thread.
LEMMA AnswersEach == /\ OwnAnswer <=> \A t \in Threads : Answers(t)
                     /\ (\A t \in Threads : Answers(t)') => OwnAnswer'
<1>1. OwnAnswer <=> \A t \in Threads : Answers(t)
  BY DEF OwnAnswer, Answers, Elems
<1>2. (\A t \in Threads : Answers(t)') => OwnAnswer'
  BY DEF OwnAnswer, Answers, Elems
<1> QED BY <1>1, <1>2

\* What is explained stays explained.
LEMMA ExplainedGrows ==
    ASSUME NEW m, NEW c, Explained(m, c), unmet \subseteq unmet', mixed \subseteq mixed',
           configOut \subseteq configOut'
    PROVE  Explained(m, c)'
BY DEF Explained

\* The last call of a thread that the step does not end.
LEMMA AnswersKept ==
    ASSUME OwnAnswer, NEW u \in Threads, last'[u] = last[u], unmet \subseteq unmet',
           mixed \subseteq mixed', configOut \subseteq configOut'
    PROVE  Answers(u)'
<1>1. Answers(u)
  BY AnswersEach
<1>2. PICK r : r = last[u]
  OBVIOUS
<1>3. \A m \in Elems(r.buf) : m.of = r.of \/ Explained(m, r.c)'
  BY <1>1, <1>2, ExplainedGrows DEF Answers
<1> QED BY <1>2, <1>3 DEF Answers, Elems, Explained

\* The calls of the other threads.
LEMMA OthersStay ==
    ASSUME LinkInv, NEW t \in Threads, thr[t].pc # "idle", Moves(t), NEW u \in Threads, u # t
    PROVE  ModeInv(u)' /\ CallInv(u)' /\ Answers(u)'
<1>0. /\ TypeOK /\ ModeInv(u) /\ CallInv(u) /\ OwnAnswer /\ thr'[u] = thr[u] /\ last'[u] = last[u]
      /\ None # u
  BY LinkAssumption DEF LinkInv, Moves, Alone
<1>1. PICK r : r = thr[u]
  OBVIOUS
<1>2. r.pc # "idle" /\ mode = "profiler" =>
         /\ r.kind \in ProfilerKinds /\ instance = "made"
         /\ r.pc \in {"send", "wait"} => communtionMx = u
  BY <1>0, <1>1 DEF ModeInv
<1>3. ModeInv(u)'
  BY <1>0, <1>1, <1>2 DEF ModeInv, Moves, TypeOK
<1>4. r.kind \in Interacts /\ r.pc # "idle" => r.c \in Devices
  BY <1>0, <1>1, <1>2 DEF ModeInv, TypeOK, ProfilerKinds, Interacts
<1>5. r.pc = "configWait" => configMutex' = u /\ configMap'[r.c] = "none"
  BY <1>0, <1>1 DEF CallInv, Moves
<1>6. r.pc \in {"send", "wait"} /\ r.kind \in Interacts => configMap'[r.c] # "none"
  BY <1>0, <1>1, <1>4 DEF CallInv, Moves
<1>7. \A m \in Elems(r.buf) : m.of = r.n \/ Explained(m, r.c)'
  BY <1>0, <1>1, ExplainedGrows DEF CallInv, Moves
<1>8. CallInv(u)'
  BY <1>0, <1>1, <1>5, <1>6, <1>7 DEF CallInv, Elems, Explained
<1>9. Answers(u)'
  BY <1>0, AnswersKept DEF Moves
<1> QED BY <1>3, <1>8, <1>9

\* The call of t itself, while it goes on: a profiler request gets on to its sending
\* with the lock.
LEMMA SelfMode ==
    ASSUME LinkInv, NEW t \in Threads, thr[t].pc # "idle", Moves(t), UNCHANGED instance,
           thr'[t].kind = thr[t].kind, thr'[t].c = thr[t].c,
           thr[t].kind \in ProfilerKinds /\ thr'[t].pc \in {"send", "wait"} => communtionMx' = t
    PROVE  ModeInv(t)'
BY DEF LinkInv, ModeInv, Moves, Alone, TypeOK

\* A thread without a call.
LEMMA SelfIdle ==
    ASSUME NEW t \in Threads, thr'[t].pc = "idle", thr'[t].buf = <<>>
    PROVE  ModeInv(t)' /\ CallInv(t)' /\ UsedInv(t)'
<1>1. ModeInv(t)' /\ UsedInv(t)'
  BY DEF ModeInv, UsedInv, Before
<1>2. CallInv(t)'
  BY ElemsEmpty DEF CallInv, Elems
<1> QED BY <1>1, <1>2

\* A step of thread t on its way, which sends nothing, keeps the invariant when it does
\* for its own call and the configurations.
LEMMA MovesKeep ==
    ASSUME LinkInv, TypeOK', NEW t \in Threads, thr[t].pc # "idle", Moves(t), Settled(t),
           \A c \in Conns : /\ conn'[c].up = conn[c].up /\ conn'[c].down \in {<<>>, conn[c].down}
                            /\ Queues(c),
           thr'[t].pc = "idle" \/ (thr'[t].n = thr[t].n /\ thr'[t].c = thr[t].c),
           thr'[t].pc = "wait" => thr[t].pc = "wait",
           UsedInv(t)', ModeInv(t)', CallInv(t)', Answers(t)', \A d \in Devices : ConfigInv(d)'
    PROVE  LinkInv'
<1>0. /\ TypeOK /\ UniqueInv /\ TogetherInv /\ ServerInv /\ OwnAnswer
      /\ UNCHANGED <<mode, calls, server, reader>> /\ Alone(t) /\ unmet \subseteq unmet'
      /\ calls <= calls'
  BY DEF LinkInv, Moves, TypeOK
<1>1. \A c \in Conns : FlowInv(c)'
  BY <1>0, ProcessFlow DEF Queues
<1>2. UniqueInv'
  BY <1>0 DEF UniqueInv, Alone
<1>3. TogetherInv'
  BY <1>0 DEF TogetherInv, Alone, Moves
<1>4. ServerInv'
  BY <1>0, ServerStays
<1>5. \A c \in Conns : Messages(c)' \subseteq Messages(c)
  <2> TAKE c \in Conns
  <2>1. Elems(conn'[c].up) = Elems(conn[c].up) /\ Elems(conn'[c].down) \subseteq Elems(conn[c].down)
    BY ElemsEmpty
  <2> QED BY <1>0, <2>1, PrimedMessages DEF Messages, Requests
<1>6. ASSUME NEW u \in Threads PROVE UsedInv(u)' /\ ModeInv(u)' /\ CallInv(u)' /\ Answers(u)'
  <2>1. CASE u = t
    BY <2>1
  <2>2. CASE u # t
    <3>1. ModeInv(u)' /\ CallInv(u)' /\ Answers(u)'
      BY <2>2, OthersStay
    <3>2. UsedInv(u) /\ thr'[u] = thr[u]
      BY <1>0, <2>2 DEF LinkInv, Alone
    <3>3. UsedInv(u)'
      BY <1>5, <3>2 DEF UsedInv, Elems
    <3> QED BY <3>1, <3>3
  <2> QED BY <2>1, <2>2
<1> QED BY <1>1, <1>2, <1>3, <1>4, <1>6, AnswersEach DEF LinkInv

\* Where a call goes once its connection exists.
LEMMA FirstSteps ==
    ASSUME NEW k
    PROVE  /\ FirstStep(k) \in {"config", "lock", "send"} /\ FirstStep(k) \in Before
           /\ k \in ProfilerKinds <=> FirstStep(k) = "lock"
           /\ FirstStep(k) = "config" <=> k \in Interacts \cup {"getConfig"}
BY DEF FirstStep, Before, ProfilerKinds, Interacts

\* A call that has not sent yet: its number is still in no message.
LEMMA UsedBefore ==
    ASSUME LinkInv, NEW t \in Threads, thr[t].pc \in Before, thr'[t].pc \in Before,
           thr'[t].n = thr[t].n, UNCHANGED reader,
           \A c \in Conns : conn'[c].up = conn[c].up /\ conn'[c].down \in {<<>>, conn[c].down}
    PROVE  UsedInv(t)'
<1>1. \A c \in Conns : \A m \in Messages(c) : m.of # thr[t].n
  BY DEF LinkInv, UsedInv
<1>2. ASSUME NEW c \in Conns PROVE Messages(c)' \subseteq Messages(c)
  <2>1. Elems(conn'[c].up) = Elems(conn[c].up) /\ Elems(conn'[c].down) \subseteq Elems(conn[c].down)
    BY <1>2, ElemsEmpty
  <2> QED BY <2>1, PrimedMessages DEF Messages, Requests
<1> QED BY <1>1, <1>2 DEF UsedInv, Before

\* A device whose configuration the step does not touch.
LEMMA ConfigSame ==
    ASSUME LinkInv, NEW d \in Devices, configMap'[d] = configMap[d], configOut \subseteq configOut',
           UNCHANGED <<server, reader>>, conn'[d].up = conn[d].up,
           conn'[d].down \in {<<>>, conn[d].down}, conn'[d].state = conn[d].state \/ conn[d].state = "new"
    PROVE  ConfigInv(d)'
<1>1. d \in Conns /\ ConfigInv(d)
  BY DEF LinkInv, Conns
<1>2. Requests(d)' = Requests(d)
  BY <1>1, PrimedMessages DEF Requests
<1>3. Pending(d)' => Pending(d)
  BY DEF Pending
<1> QED BY <1>1, <1>2, <1>3, ConfigKept

\* Nothing received yet.
LEMMA SelfEmpty ==
    ASSUME NEW t \in Threads, thr'[t].buf = <<>>, thr'[t].pc \in Before,
           thr'[t].pc \in {"config", "configWait"} => thr'[t].kind \in Interacts \cup {"getConfig"},
           thr'[t].pc = "configWait" => configMutex' = t /\ configMap'[thr'[t].c] = "none",
           thr'[t].pc = "lock" => thr'[t].kind \in ProfilerKinds,
           thr'[t].pc = "send" /\ thr'[t].kind \in Interacts => configMap'[thr'[t].c] # "none"
    PROVE  CallInv(t)'
<1>1. thr'[t].pc # "wait"
  BY DEF Before
<1>2. Elems(thr'[t].buf) = {}
  BY ElemsEmpty
<1> QED BY <1>1, <1>2 DEF CallInv, Elems

\* The steps of a thread, one by one, keep the invariant: Connect.
LEMMA ConnectKeeps == ASSUME LinkInv, NEW t \in Threads, Connect(t) PROVE LinkInv'
<1>0. TypeOK /\ ModeInv(t) /\ CallInv(t) /\ OwnAnswer /\ thr[t].pc = "connect"
  BY DEF LinkInv, Connect
<1>1. thr[t].c \in Conns
  BY <1>0, CallConn
<1>2. /\ TypeOK' /\ Alone(t) /\ SameMessages
      /\ UNCHANGED <<calls, mode, configMutex, configMap, communtionMx, instance, server, last, unmet,
                     mixed, configOut>>
      /\ thr'[t].pc = FirstStep(thr[t].kind) /\ thr'[t].pc \in Before
      /\ thr'[t].kind = thr[t].kind /\ thr'[t].c = thr[t].c
      /\ thr'[t].n = thr[t].n /\ thr'[t].buf = thr[t].buf
      /\ \A c \in Conns : Queues(c)
  BY <1>0, <1>1, ConnectEffect
<1>3. Moves(t) /\ Settled(t) /\ UNCHANGED reader
  BY <1>0, <1>2 DEF Moves, Settled, SameMessages
<1>4. \A c \in Conns : conn'[c].up = conn[c].up /\ conn'[c].down \in {<<>>, conn[c].down}
  BY <1>2 DEF SameMessages
<1>5. UsedInv(t)'
  BY <1>0, <1>2, <1>3, <1>4, UsedBefore DEF Before
<1>6. ModeInv(t)'
  BY <1>0, <1>2, <1>3, FirstSteps, SelfMode
<1>7. CallInv(t)'
  BY <1>0, <1>2, FirstSteps, SelfEmpty DEF CallInv
<1>8. Answers(t)'
  BY <1>0, <1>2, AnswersKept
<1>9. \A d \in Devices : ConfigInv(d)'
  BY <1>2, <1>3, <1>4, ConfigSame DEF Conns, Queues
<1>10. thr'[t].pc # "wait"
  BY <1>2, FirstSteps
<1> QED BY <1>0, <1>2, <1>3, <1>4, <1>5, <1>6, <1>7, <1>8, <1>9, <1>10, MovesKeep

\* LockCommuntion.
LEMMA LockKeeps == ASSUME LinkInv, NEW t \in Threads, LockCommuntion(t) PROVE LinkInv'
<1>0. TypeOK /\ ModeInv(t) /\ CallInv(t) /\ OwnAnswer /\ "send" \in Before /\ "lock" \in Before
  BY DEF LinkInv, Before
<1>1. /\ TypeOK' /\ thr[t].pc = "lock" /\ Alone(t) /\ communtionMx = None /\ communtionMx' = t
      /\ UNCHANGED <<calls, mode, conn, configMutex, configMap, instance, server, reader, last, unmet,
                     mixed, configOut>>
      /\ thr'[t].pc = "send" /\ thr'[t].kind = thr[t].kind /\ thr'[t].c = thr[t].c
      /\ thr'[t].n = thr[t].n /\ thr'[t].buf = thr[t].buf
  BY <1>0, LockEffect
<1>2. Moves(t) /\ Settled(t)
  BY <1>1 DEF Moves, Settled
<1>3. UsedInv(t)'
  BY <1>0, <1>1, UsedBefore
<1>4. ModeInv(t)'
  BY <1>1, <1>2, SelfMode
<1>5. CallInv(t)'
  BY <1>0, <1>1, SelfEmpty DEF CallInv, ProfilerKinds, Interacts
<1>6. Answers(t)'
  BY <1>0, <1>1, AnswersKept
<1>7. \A d \in Devices : ConfigInv(d)'
  BY <1>1, ConfigSame
<1> QED BY <1>1, <1>2, <1>3, <1>4, <1>5, <1>6, <1>7, MovesKeep DEF Queues

\* A call in GetConfig is on a device.
LEMMA ConfigDevice ==
    ASSUME LinkInv, NEW t \in Threads, thr[t].pc \in {"config", "configWait"}
    PROVE  thr[t].c \in Devices /\ thr[t].kind \notin ProfilerKinds
BY DEF LinkInv, TypeOK, ModeInv, CallInv, ProfilerKinds, Interacts

\* GetConfig: the mutex is free, so no other thread is in its wait.
LEMMA GetConfigKeeps == ASSUME LinkInv, NEW t \in Threads, GetConfig(t) PROVE LinkInv'
<1>0. /\ TypeOK /\ ModeInv(t) /\ CallInv(t) /\ OwnAnswer
      /\ "send" \in Before /\ "config" \in Before /\ "configWait" \in Before
  BY DEF LinkInv, Before
<1>1. /\ TypeOK' /\ thr[t].pc = "config" /\ configMutex = None /\ Alone(t)
      /\ UNCHANGED <<calls, mode, conn, configMap, server, reader, mixed, configOut>>
      /\ \/ /\ configMap[thr[t].c] # "none" /\ UNCHANGED configMutex
            /\ \/ GoesOn(t, "send") /\ thr'[t].buf = thr[t].buf
               \/ Returns(t, <<>>)
         \/ /\ configMap[thr[t].c] = "none" /\ configMutex' = t
            /\ GoesOn(t, "configWait") /\ thr'[t].buf = thr[t].buf
  BY <1>0, GetConfigEffect
<1>2. Moves(t) /\ Settled(t)
  BY <1>1 DEF Moves, Settled, GoesOn, Returns
<1>3. \A d \in Devices : ConfigInv(d)'
  BY <1>1, ConfigSame
<1>4. CASE Returns(t, <<>>)
  <2>1. UsedInv(t)' /\ ModeInv(t)' /\ CallInv(t)' /\ thr'[t].pc = "idle"
    BY <1>4, SelfIdle DEF Returns
  <2>2. Answers(t)'
    BY <1>4, ElemsEmpty DEF Returns, Answers, Elems
  <2> QED BY <1>1, <1>2, <1>3, <2>1, <2>2, MovesKeep DEF Queues
<1>5. CASE /\ \/ GoesOn(t, "send") /\ configMap[thr[t].c] # "none"
              \/ GoesOn(t, "configWait") /\ configMap[thr[t].c] = "none" /\ configMutex' = t
           /\ thr'[t].buf = thr[t].buf
  <2>1. /\ thr'[t].pc \in {"send", "configWait"} /\ thr'[t].kind = thr[t].kind /\ thr'[t].c = thr[t].c
        /\ thr'[t].n = thr[t].n /\ UNCHANGED <<last, unmet, communtionMx, instance>>
    BY <1>5 DEF GoesOn
  <2>2. UsedInv(t)'
    BY <1>0, <1>1, <2>1, UsedBefore
  <2>3. ModeInv(t)'
    BY <1>1, <1>2, <2>1, ConfigDevice, SelfMode
  <2>4. CallInv(t)'
    BY <1>0, <1>1, <1>5, <2>1, SelfEmpty DEF CallInv, GoesOn
  <2>5. Answers(t)'
    BY <1>0, <1>1, <2>1, AnswersKept
  <2> QED BY <1>1, <1>2, <1>3, <2>1, <2>2, <2>3, <2>4, <2>5, MovesKeep DEF Queues
<1> QED BY <1>1, <1>4, <1>5

\* ConfigWait: no request has been sent, so only the configuration can be there.
LEMMA ConfigWaitKeeps == ASSUME LinkInv, NEW t \in Threads, ConfigWait(t) PROVE LinkInv'
<1>0. /\ TypeOK /\ ModeInv(t) /\ CallInv(t) /\ OwnAnswer /\ thr[t].pc = "configWait"
      /\ "send" \in Before /\ "configWait" \in Before
  BY DEF LinkInv, Before, ConfigWait
<1>1. thr[t].c \in Devices /\ thr[t].kind \notin ProfilerKinds
  BY <1>0, ConfigDevice
<1>2. /\ TypeOK' /\ configMutex' = None /\ Alone(t)
      /\ Emptied(thr[t].c) /\ UNCHANGED <<calls, mode, server, mixed>>
      /\ configMap'[thr[t].c] = IF conn[thr[t].c].down = <<Config>> THEN "config" ELSE "default"
      /\ \A d \in Devices : d # thr[t].c => configMap'[d] = configMap[d]
      /\ configOut' = IF conn[thr[t].c].down = <<>> THEN configOut \cup {thr[t].c} ELSE configOut
      /\ \/ GoesOn(t, "send") /\ thr'[t].buf = thr[t].buf
         \/ Returns(t, <<>>)
  BY <1>0, <1>1, ConfigWaitEffect
<1>3. configMutex = t /\ configMap[thr[t].c] = "none" /\ configMap'[thr[t].c] # "none"
  BY <1>0, <1>2 DEF CallInv
<1>4. Moves(t) /\ Settled(t)
  <2>1. \A d \in Devices : configMap'[d] = configMap[d] \/ configMap'[d] # "none"
    BY <1>2, <1>3
  <2>2. UNCHANGED reader /\ configOut \subseteq configOut'
    BY <1>2 DEF Emptied
  <2> QED BY <1>0, <1>2, <1>3, <2>1, <2>2 DEF Moves, Settled, GoesOn, Returns
<1>5. \A c \in Conns : /\ conn'[c].up = conn[c].up /\ conn'[c].down \in {<<>>, conn[c].down}
                       /\ conn'[c].state = conn[c].state
  BY <1>2 DEF Emptied
<1>6. ASSUME NEW d \in Devices PROVE ConfigInv(d)'
  <2>0. UNCHANGED <<server, reader>> /\ d \in Conns /\ configOut \subseteq configOut'
    BY <1>2, <1>4 DEF Emptied, Conns, Moves
  <2>1. CASE d # thr[t].c
    BY <1>2, <1>5, <2>0, <2>1, ConfigSame
  <2>2. CASE d = thr[t].c
    <3>1. conn[d].down \in {<<>>, <<Config>>} /\ conn'[d].down = <<>> /\ ConfigInv(d)
      BY <1>2, <1>3, <2>2 DEF LinkInv, ConfigInv, Emptied
    <3>2. Elems(conn'[d].down) = {} /\ Config \in Elems(<<Config>>)
      BY <3>1, ElemsEmpty, ElemsOne
    <3>3. configMap'[d] = "config" => ~Pending(d)
      BY <1>2, <2>2, <3>1, <3>2 DEF ConfigInv
    <3>4. Pending(d)' => Pending(d)
      BY <1>5, <2>0 DEF Pending
    <3>5. configMap'[d] = "default" => d \in configOut'
      BY <1>2, <2>2, <3>1
    <3> QED BY <1>3, <2>2, <3>2, <3>3, <3>4, <3>5 DEF ConfigInv, Elems, Config
  <2> QED BY <2>1, <2>2
<1>7. CASE Returns(t, <<>>)
  <2>1. UsedInv(t)' /\ ModeInv(t)' /\ CallInv(t)' /\ thr'[t].pc = "idle"
    BY <1>7, SelfIdle DEF Returns
  <2>2. Answers(t)'
    BY <1>7, ElemsEmpty DEF Returns, Answers, Elems
  <2> QED BY <1>0, <1>2, <1>4, <1>5, <1>6, <2>1, <2>2, MovesKeep DEF Queues
<1>8. CASE GoesOn(t, "send") /\ thr'[t].buf = thr[t].buf
  <2>1. /\ thr'[t].pc = "send" /\ thr'[t].kind = thr[t].kind /\ thr'[t].c = thr[t].c
        /\ thr'[t].n = thr[t].n /\ UNCHANGED <<last, unmet, communtionMx, instance, reader>>
    BY <1>2, <1>8 DEF GoesOn, Emptied
  <2>2. UsedInv(t)'
    BY <1>0, <1>5, <2>1, UsedBefore
  <2>3. ModeInv(t)'
    BY <1>0, <1>1, <1>4, <2>1, SelfMode
  <2>4. CallInv(t)'
    BY <1>0, <1>3, <1>8, <2>1, SelfEmpty DEF CallInv
  <2>5. Answers(t)'
    BY <1>0, <1>4, <2>1, AnswersKept DEF Moves
  <2> QED BY <1>0, <1>2, <1>4, <1>5, <1>6, <2>1, <2>2, <2>3, <2>4, <2>5, MovesKeep DEF Queues
<1> QED BY <1>2, <1>7, <1>8

\* What a wait finds in its socket is its answer or explained: an answer belongs to a
\* call that waits here too or has gone without it, and the configuration is here only
\* if the wait for it ran out.
LEMMA DownExplained ==
    ASSUME LinkInv, NEW t \in Threads, thr[t].pc = "wait", NEW c \in Conns, c = thr[t].c,
           NEW m \in Elems(conn[c].down)
    PROVE  m.of = thr[t].n \/ Explained(m, c)
<1>0. /\ TypeOK /\ FlowInv(c) /\ ModeInv(t) /\ CallInv(t) /\ TogetherInv
      /\ \A d \in Devices : ConfigInv(d)
  BY DEF LinkInv
<1>1. CASE m.kind = "config"
  <2>1. m = Config /\ mode = "sanitizer"
    BY <1>0, <1>1 DEF FlowInv
  <2>2. c \in Devices /\ thr[t].kind \in Interacts
    BY <1>0, <2>1 DEF ModeInv, CallInv, SanitizerKinds, Interacts, QueryResponsePacketType
  <2>3. configMap[c] \in {"config", "default"}
    BY <1>0, <2>2 DEF CallInv, TypeOK
  <2>4. c \in configOut
    BY <1>0, <2>1, <2>2, <2>3 DEF ConfigInv
  <2> QED BY <1>1, <2>4 DEF Explained
<1>2. CASE m.kind # "config"
  <2>1. CASE m.of \in unmet
    BY <2>1 DEF Explained
  <2>2. ASSUME NEW u \in Threads, thr[u].pc = "wait", thr[u].n = m.of, thr[u].c = c
        PROVE  m.of = thr[t].n \/ Explained(m, c)
    BY <1>0, <2>2 DEF TogetherInv, Explained
  <2>3. Owned(m, c)
    BY <1>0, <1>2 DEF FlowInv
  <2> QED BY <2>1, <2>2, <2>3 DEF Owned
<1> QED BY <1>1, <1>2

\* A wait that returns with messages that are its own or explained.
LEMMA AnswersReturn ==
    ASSUME NEW t \in Threads, NEW b, Returns(t, b), unmet \subseteq unmet', mixed \subseteq mixed',
           configOut \subseteq configOut', NEW c, c = thr[t].c,
           \A m \in Elems(b) : m.of = thr[t].n \/ Explained(m, c)
    PROVE  Answers(t)'
<1>1. last'[t].c = c /\ last'[t].of = thr[t].n /\ last'[t].buf = b
  BY DEF Returns
<1>2. \A m \in Elems(b) : m.of = thr[t].n \/ Explained(m, c)'
  BY ExplainedGrows
<1> QED BY <1>1, <1>2 DEF Answers, Elems, Explained

\* Expire: the answer is still to come, and the call is in unmet for it.
LEMMA ExpireKeeps == ASSUME LinkInv, NEW t \in Threads, Expire(t) PROVE LinkInv'
<1>0. TypeOK /\ ModeInv(t) /\ CallInv(t) /\ UsedInv(t)
  BY DEF LinkInv
<1>1. /\ TypeOK' /\ thr[t].pc = "wait" /\ Alone(t)
      /\ UNCHANGED <<calls, mode, conn, configMutex, configMap, server, reader, mixed, configOut>>
      /\ thr[t].buf \in Seq(Msg) /\ Returns(t, thr[t].buf)
  BY <1>0, ExpireEffect
<1>2. PICK c \in Conns : c = thr[t].c
  BY <1>0, <1>1, CallConn
<1>3. FlowInv(c)
  BY DEF LinkInv
<1>4. Settled(t)
  BY <1>0, <1>1, <1>2, <1>3, ReturnSettles
<1>5. Moves(t)
  BY <1>1 DEF Moves, Returns
<1>6. UsedInv(t)' /\ ModeInv(t)' /\ CallInv(t)' /\ thr'[t].pc = "idle"
  BY <1>1, SelfIdle DEF Returns
<1>7. Answers(t)'
  BY <1>0, <1>1, <1>2, <1>5, AnswersReturn DEF CallInv, Moves
<1>8. \A d \in Devices : ConfigInv(d)'
  BY <1>1, ConfigSame
<1> QED BY <1>1, <1>4, <1>5, <1>6, <1>7, <1>8, MovesKeep DEF Queues

\* Read: all it takes is its own or explained, and its own is then in no message.
LEMMA ReadKeeps == ASSUME LinkInv, NEW t \in Threads, Read(t) PROVE LinkInv'
<1>0. TypeOK /\ ModeInv(t) /\ CallInv(t) /\ UsedInv(t) /\ OwnAnswer /\ thr[t].pc = "wait"
  BY DEF LinkInv, Read
<1>1. PICK c \in Conns : c = thr[t].c
  BY <1>0, CallConn
<1>2. FlowInv(c)
  BY DEF LinkInv
<1>3. /\ TypeOK' /\ Alone(t) /\ Emptied(c)
      /\ UNCHANGED <<calls, mode, configMutex, configMap, server, mixed, configOut>>
      /\ \/ /\ GoesOn(t, "wait")
            /\ Elems(thr'[t].buf) = Elems(thr[t].buf) \cup Elems(conn[c].down)
         \/ \E b \in Seq(Msg) : /\ Elems(b) = Elems(thr[t].buf) \cup Elems(conn[c].down)
                                /\ Returns(t, b)
  BY <1>0, <1>1, ReadEffect
<1>4. Moves(t)
  BY <1>3 DEF Moves, GoesOn, Returns, Emptied
<1>5. \A x \in Conns : /\ conn'[x].up = conn[x].up /\ conn'[x].down \in {<<>>, conn[x].down}
                       /\ conn'[x].state = conn[x].state
  BY <1>3 DEF Emptied
<1>6. \A d \in Devices : ConfigInv(d)'
  BY <1>3, <1>4, <1>5, ConfigSame DEF Conns, Moves
<1>7. \A m \in Elems(thr[t].buf) \cup Elems(conn[c].down) : m.of = thr[t].n \/ Explained(m, c)
  BY <1>0, <1>1, DownExplained DEF CallInv
<1>8. ASSUME NEW b \in Seq(Msg), Elems(b) = Elems(thr[t].buf) \cup Elems(conn[c].down), Returns(t, b)
      PROVE  LinkInv'
  <2>1. Settled(t)
    BY <1>0, <1>1, <1>2, <1>3, <1>8, ReturnSettles DEF Emptied
  <2>2. UsedInv(t)' /\ ModeInv(t)' /\ CallInv(t)' /\ thr'[t].pc = "idle"
    BY <1>8, SelfIdle DEF Returns
  <2>3. Answers(t)'
    BY <1>1, <1>4, <1>7, <1>8, AnswersReturn DEF Moves
  <2> QED BY <1>0, <1>3, <1>4, <1>5, <1>6, <2>1, <2>2, <2>3, MovesKeep DEF Queues
<1>9. ASSUME GoesOn(t, "wait"), Elems(thr'[t].buf) = Elems(thr[t].buf) \cup Elems(conn[c].down)
      PROVE  LinkInv'
  <2>1. /\ thr'[t].pc = "wait" /\ thr'[t].kind = thr[t].kind /\ thr'[t].c = c
        /\ thr'[t].n = thr[t].n /\ UNCHANGED <<last, unmet, communtionMx, instance, reader>>
    BY <1>1, <1>3, <1>9 DEF GoesOn, Emptied
  <2>2. Settled(t)
    BY <1>1, <2>1 DEF Settled
  <2>3. ASSUME \E k \in Elems(thr'[t].buf) : k.of = thr[t].n PROVE \A m \in Messages(c)' : m.of # thr[t].n
    <3>1. Messages(c)' = Requests(c)
      BY <1>3, <2>1, PrimedMessages, ElemsEmpty DEF Emptied, Requests
    <3>2. CASE \E k \in Elems(thr[t].buf) : k.of = thr[t].n
      BY <1>0, <1>1, <3>1, <3>2 DEF UsedInv, Messages
    <3>3. CASE \E k \in Elems(conn[c].down) : k.of = thr[t].n
      BY <1>2, <3>1, <3>3 DEF FlowInv
    <3> QED BY <1>9, <2>3, <3>2, <3>3
  <2>4. UsedInv(t)'
    BY <2>1, <2>3 DEF UsedInv, Elems, Before
  <2>5. ModeInv(t)'
    BY <1>0, <1>1, <1>4, <2>1, SelfMode DEF ModeInv, ProfilerKinds, TypeOK, SanitizerKinds, Interacts
  <2>6. CallInv(t)'
    <3>1. \A m \in Elems(thr'[t].buf) : m.of = thr[t].n \/ Explained(m, c)'
      BY <1>4, <1>7, <1>9, ExplainedGrows DEF Moves
    <3>2. UNCHANGED <<configMap, configMutex>>
      BY <1>3
    <3> QED BY <1>0, <1>1, <2>1, <3>1, <3>2 DEF CallInv, Elems, Explained
  <2>7. Answers(t)'
    BY <1>0, <1>4, <2>1, AnswersKept DEF Moves
  <2> QED BY <1>0, <1>1, <1>3, <1>4, <1>5, <1>6, <2>1, <2>2, <2>4, <2>5, <2>6, <2>7, MovesKeep DEF Queues
<1> QED BY <1>3, <1>8, <1>9

\* Send: the number is in no message yet, and other waits on the device are mixed with
\* it.
LEMMA SendKeeps == ASSUME LinkInv, NEW t \in Threads, Send(t) PROVE LinkInv'
<1>0. /\ TypeOK /\ UniqueInv /\ TogetherInv /\ ServerInv /\ OwnAnswer
      /\ ModeInv(t) /\ CallInv(t) /\ UsedInv(t) /\ thr[t].pc = "send"
  BY DEF LinkInv, Send
<1>1. PICK c \in Conns : c = thr[t].c
  BY <1>0, CallConn
<1>2. PICK r \in Msg : r = Request(t)
  BY <1>0, <1>1, SendEffect
<1>3. /\ TypeOK' /\ Alone(t)
      /\ UNCHANGED <<calls, mode, configMutex, configMap, server, reader, configOut>>
      /\ r.of = thr[t].n /\ r.kind = thr[t].kind
      /\ conn'[c].down = conn[c].down /\ conn'[c].state = conn[c].state
      /\ \A x \in Conns : x # c => conn'[x] = conn[x]
      /\ conn'[c].up = Append(conn[c].up, r) \/ conn'[c].up = conn[c].up
      /\ mixed \subseteq mixed'
      /\ \/ /\ Awaits(t) /\ GoesOn(t, "wait") /\ thr'[t].buf = thr[t].buf
            /\ c \in Devices => \A u \in Threads : u # t /\ thr[u].pc = "wait" /\ thr[u].c = c =>
                                    thr[u].n \in mixed' /\ thr[t].n \in mixed'
         \/ ~Awaits(t) /\ Returns(t, <<>>)
  BY <1>0, <1>1, <1>2, SendEffect
<1>4. Moves(t)
  BY <1>3 DEF Moves, GoesOn, Returns
<1>5. \A x \in Conns : FlowInv(x)'
  BY <1>1, SendFlow
<1>6. ASSUME NEW x \in Conns
      PROVE  /\ Messages(x)' \subseteq Messages(x) \cup {r} /\ Requests(x)' \subseteq Requests(x) \cup {r}
             /\ x # c => Requests(x)' = Requests(x)
  <2>1. conn[c].up \in Seq(Msg)
    BY <1>0 DEF TypeOK, ConnRec
  <2>2. Elems(conn'[x].up) \subseteq Elems(conn[x].up) \cup {r} /\ conn'[x].down = conn[x].down
    <3>1. CASE x # c
      BY <1>3, <3>1
    <3>2. Elems(Append(conn[c].up, r)) = Elems(conn[c].up) \cup {r}
      BY <2>1, ElemsAppend
    <3>3. CASE x = c
      BY <1>3, <3>2, <3>3
    <3> QED BY <3>1, <3>3
  <2>3. x # c => Elems(conn'[x].up) = Elems(conn[x].up)
    BY <1>3
  <2> QED BY <1>3, <2>2, <2>3, PrimedMessages DEF Messages, Requests
<1>7. UniqueInv'
  BY <1>0, <1>3 DEF UniqueInv, Alone, GoesOn, Returns
<1>8. TogetherInv'
  <2>1. ASSUME NEW u \in Threads, u # t, thr[u].pc = "wait", thr[u].c = c, thr'[t].pc = "wait"
        PROVE  c \in Devices /\ thr[t].n \in mixed' /\ thr[u].n \in mixed'
    <3>1. c \in Devices
      BY <1>0, <1>1, <2>1 DEF ModeInv, LinkInv, TypeOK
    <3> QED BY <1>3, <2>1, <3>1 DEF Returns
  <2>2. thr'[t].pc = "wait" => thr'[t].c = c /\ thr'[t].n = thr[t].n
    BY <1>1, <1>3 DEF GoesOn, Returns
  <2> QED BY <1>0, <1>3, <2>1, <2>2 DEF TogetherInv, Alone
<1>9. ServerInv'
  BY <1>0, <1>3, ServerStays DEF Queues
<1>10. ASSUME NEW d \in Devices PROVE ConfigInv(d)'
  <2>0. d \in Conns /\ ConfigInv(d) /\ General \notin Devices
    BY LinkAssumption DEF LinkInv, Conns
  <2>1. conn'[d].down = conn[d].down /\ conn'[d].state = conn[d].state
    BY <1>3, <2>0
  <2>2. Pending(d)' => Pending(d)
    BY <1>3, <2>1 DEF Pending
  <2>3. CASE d # c
    BY <1>3, <1>6, <2>0, <2>1, <2>2, <2>3, ConfigKept
  <2>4. CASE d = c
    <3>1. mode = "sanitizer" /\ thr[t].kind \in SanitizerKinds
      BY <1>0, <1>1, <2>0, <2>4 DEF ModeInv, TypeOK
    <3>2. Answered(r) => thr[t].kind \in Interacts
      BY <1>3, <3>1 DEF Answered, SanitizerKinds, Interacts, QueryResponsePacketType
    <3>3. Answered(r) => configMap[d] # "none"
      BY <1>0, <1>1, <2>4, <3>2 DEF CallInv
    <3>4. configMap'[d] = "none" => /\ \A m \in Requests(d)' : ~Answered(m)
                                    /\ conn'[d].down \in {<<>>, <<Config>>}
      BY <1>3, <1>6, <2>0, <2>1, <3>3 DEF ConfigInv
    <3>5. /\ Pending(d)' => Config \notin Elems(conn'[d].down) /\ configMap'[d] # "config"
          /\ configMap'[d] = "config" => Config \notin Elems(conn'[d].down)
          /\ configMap'[d] = "default" => d \in configOut'
      BY <1>3, <2>0, <2>1, <2>2 DEF ConfigInv
    <3> QED BY <3>4, <3>5 DEF ConfigInv, Config, Answered, Elems
  <2> QED BY <2>3, <2>4
<1>11. ASSUME NEW u \in Threads, u # t PROVE UsedInv(u)' /\ ModeInv(u)' /\ CallInv(u)' /\ Answers(u)'
  <2>1. ModeInv(u)' /\ CallInv(u)' /\ Answers(u)'
    BY <1>0, <1>4, <1>11, OthersStay
  <2>2. UsedInv(u) /\ thr'[u] = thr[u]
    BY <1>3, <1>11 DEF LinkInv, Alone
  <2>3. thr[u].pc # "idle" => r.of # thr[u].n
    BY <1>0, <1>3, <1>11 DEF UniqueInv
  <2>4. UsedInv(u)'
    BY <1>6, <2>2, <2>3 DEF UsedInv, Elems, Before
  <2> QED BY <2>1, <2>4
<1>12. UsedInv(t)' /\ ModeInv(t)' /\ CallInv(t)' /\ Answers(t)'
  <2>1. CASE Returns(t, <<>>)
    <3>1. UsedInv(t)' /\ ModeInv(t)' /\ CallInv(t)'
      BY <2>1, SelfIdle DEF Returns
    <3>2. Answers(t)'
      BY <2>1, ElemsEmpty DEF Returns, Answers, Elems
    <3> QED BY <3>1, <3>2
  <2>2. CASE Awaits(t) /\ GoesOn(t, "wait") /\ thr'[t].buf = thr[t].buf
    <3>1. /\ thr'[t].pc = "wait" /\ thr'[t].kind = thr[t].kind /\ thr'[t].c = thr[t].c
          /\ thr'[t].n = thr[t].n /\ UNCHANGED <<last, unmet, communtionMx, instance>>
          /\ thr'[t].buf = <<>> /\ Elems(thr'[t].buf) = {}
      BY <1>0, <2>2, ElemsEmpty DEF GoesOn, CallInv
    <3>2. UsedInv(t)'
      BY <3>1 DEF UsedInv, Elems, Before
    <3>3. ModeInv(t)'
      BY <1>0, <1>4, <3>1, SelfMode DEF ModeInv, ProfilerKinds, TypeOK, SanitizerKinds, Interacts
    <3>4. CallInv(t)'
      BY <1>0, <1>3, <2>2, <3>1 DEF CallInv, Elems, Awaits
    <3>5. Answers(t)'
      BY <1>0, <1>4, <3>1, AnswersKept DEF Moves
    <3> QED BY <3>2, <3>3, <3>4, <3>5
  <2> QED BY <1>3, <2>1, <2>2
<1> QED BY <1>3, <1>5, <1>7, <1>8, <1>9, <1>10, <1>11, <1>12, AnswersEach DEF LinkInv

\* Begin: the number is new.
LEMMA BeginKeeps == ASSUME LinkInv, NEW t \in Threads, Begin(t) PROVE LinkInv'
<1>0. TypeOK /\ UniqueInv /\ TogetherInv /\ ServerInv /\ OwnAnswer /\ calls \in Nat
  BY DEF LinkInv, TypeOK
<1>1. /\ TypeOK' /\ thr[t].pc = "idle" /\ Alone(t) /\ calls' = calls + 1 /\ last'[t].buf = <<>>
      /\ UNCHANGED <<mode, conn, configMutex, configMap, communtionMx, server, reader, unmet, mixed,
                     configOut>>
      /\ thr'[t].n = calls + 1 /\ thr'[t].buf = <<>> /\ thr'[t].c \in Conns
      /\ thr'[t].pc \in {"connect", FirstStep(thr'[t].kind)} /\ thr'[t].pc \in Before
      /\ mode = "sanitizer" => thr'[t].kind \in SanitizerKinds /\ thr'[t].c \in Devices
      /\ mode = "profiler" =>
            /\ thr'[t].c = General /\ instance # "making"
            /\ instance = "made" => thr'[t].kind \in ProfilerKinds
            /\ instance = "none" => thr'[t].kind = "init"
      /\ instance' = IF thr'[t].kind = "init" THEN "making" ELSE instance
  BY <1>0, BeginEffect
<1>2. \A c \in Conns : FlowInv(c)'
  BY <1>0, <1>1, ProcessFlow DEF Settled
<1>3. \A c \in Conns : Messages(c)' = Messages(c)
  BY <1>1 DEF Messages, Requests, Elems
<1>4. UniqueInv'
  <2>1. \A u \in Threads : u # t /\ thr[u].pc # "idle" => thr[u].n \in 1..calls' /\ thr[u].n # calls + 1
    BY <1>0, <1>1 DEF UniqueInv
  <2> QED BY <1>0, <1>1, <2>1 DEF UniqueInv, Alone
<1>5. TogetherInv' /\ ServerInv'
  <2>1. ServerInv'
    BY <1>0, <1>1, ServerStays DEF Queues
  <2> QED BY <1>0, <1>1, <2>1 DEF TogetherInv, Alone, Before
<1>6. \A d \in Devices : ConfigInv(d)'
  BY <1>1, ConfigSame
<1>7. instance = "none" /\ mode = "profiler" => \A u \in Threads : thr[u].pc = "idle"
  BY DEF LinkInv, ModeInv
<1>8. UsedInv(t)' /\ ModeInv(t)' /\ CallInv(t)' /\ Answers(t)'
  <2>1. ASSUME NEW c \in Conns, NEW m \in Messages(c)' PROVE m.of # calls + 1
    <3>1. FlowInv(c) /\ m \in Messages(c)
      BY <1>3, <2>1 DEF LinkInv
    <3> QED BY <1>0, <3>1, MsgFacts DEF FlowInv, Messages
  <2>2. UsedInv(t)'
    BY <1>1, <2>1 DEF UsedInv, Before
  <2>3. ModeInv(t)'
    BY <1>0, <1>1, <1>7, FirstSteps DEF ModeInv, Alone, ProfilerKinds, TypeOK, Before
  <2>4. CallInv(t)'
    BY <1>1, FirstSteps, SelfEmpty
  <2>5. Answers(t)'
    BY <1>1, ElemsEmpty DEF Answers, Elems
  <2> QED BY <2>2, <2>3, <2>4, <2>5
<1>9. ASSUME NEW u \in Threads, u # t PROVE UsedInv(u)' /\ ModeInv(u)' /\ CallInv(u)' /\ Answers(u)'
  <2>1. UsedInv(u) /\ ModeInv(u) /\ CallInv(u) /\ thr'[u] = thr[u] /\ last'[u] = last[u]
    BY <1>1, <1>9 DEF LinkInv, Alone
  <2>2. UsedInv(u)'
    BY <1>3, <2>1 DEF UsedInv, Elems
  <2>3. ModeInv(u)'
    BY <1>0, <1>1, <1>7, <2>1 DEF ModeInv, TypeOK, ProfilerKinds
  <2>4. CallInv(u)'
    BY <1>1, <2>1 DEF CallInv, Elems, Explained
  <2>5. Answers(u)'
    BY <1>0, <1>1, <2>1, AnswersKept
  <2> QED BY <2>2, <2>3, <2>4, <2>5
<1> QED BY <1>1, <1>2, <1>4, <1>5, <1>6, <1>8, <1>9, AnswersEach DEF LinkInv

\* The invariant holds at the start.
LEMMA LinkInit == Init => LinkInv
<1> SUFFICES ASSUME Init PROVE LinkInv
  OBVIOUS
<1>1. TypeOK
  BY InitType
<1>2. \A t \in Threads : thr[t].pc = "idle" /\ thr[t].buf = <<>> /\ last[t].buf = <<>>
  BY DEF Init, Idle, NoCall
<1>3. \A c \in Conns : /\ conn[c].state = "new" /\ conn[c].up = <<>> /\ conn[c].down = <<>>
                       /\ reader[c].at = "none" /\ reader[c].got = <<>>
  BY DEF Init
<1>4. \A c \in Conns : Elems(conn[c].down) = {} /\ Requests(c) = {} /\ Messages(c) = {}
  BY <1>3, ElemsEmpty DEF Requests, Messages
<1>5. \A c \in Conns : FlowInv(c)
  BY <1>3, <1>4, ElemsEmpty DEF FlowInv, Requests
<1>6. UniqueInv /\ TogetherInv
  BY <1>2 DEF UniqueInv, TogetherInv
<1>7. \A t \in Threads : UsedInv(t) /\ ModeInv(t) /\ CallInv(t) /\ Answers(t)
  BY <1>2, ElemsEmpty DEF UsedInv, ModeInv, CallInv, Answers, Before
<1>8. \A d \in Devices : ConfigInv(d)
  BY <1>3, <1>4 DEF ConfigInv, Init, Conns
<1>9. ServerInv
  <2>1. /\ server.life = "off" /\ server.acceptor = "none" /\ server.readWorker = <<>>
        /\ server.joined = 0
    BY DEF Init
  <2>2. 1..0 = {} /\ Len(<<>>) = 0
    OBVIOUS
  <2>3. Walked
    BY <1>3, <2>1, <2>2 DEF Walked
  <2> QED BY <2>1, <2>3 DEF ServerInv
<1> QED BY <1>1, <1>5, <1>6, <1>7, <1>8, <1>9, AnswersEach DEF LinkInv

\* Every step keeps the invariant.
LEMMA LinkNext == LinkInv /\ [Next]_vars => LinkInv'
<1> SUFFICES ASSUME LinkInv, [Next]_vars PROVE LinkInv'
  OBVIOUS
<1>1. ASSUME NEW t \in Threads, Begin(t) \/ ThreadStep(t) PROVE LinkInv'
  BY <1>1, BeginKeeps, ConnectKeeps, GetConfigKeeps, ConfigWaitKeeps, LockKeeps, SendKeeps, ReadKeeps,
     ExpireKeeps DEF ThreadStep
<1>2. CASE \/ Start \/ AcceptOther \/ Stop \/ AcceptorStep \/ DestructorStep
           \/ \E c \in Conns : ReaderStep(c)
  BY <1>2, ServerStep
<1>3. CASE UNCHANGED vars
  <2>1. ProcessStays /\ UNCHANGED <<conn, reader, server>>
    BY <1>3 DEF vars, ProcessStays, processVars
  <2>2. TypeOK' /\ ServerInv'
    <3>1. ServerInv'
      BY <2>1, ServerStays DEF LinkInv, Queues
    <3> QED BY <1>3, <3>1 DEF LinkInv, TypeOK, vars
  <2>3. \A c \in Conns : Less(c)
    BY <2>1, LessSame DEF LinkInv
  <2>4. \A d \in Devices : Pending(d)' => Pending(d)
    BY <2>1 DEF Pending
  <2> QED BY <2>1, <2>2, <2>3, <2>4, ServerCalm
<1> QED BY <1>1, <1>2, <1>3 DEF Next

-----------------------------------------------------------------------------
(* The theorems.                                                           *)

\* The inductive invariant: every request and answer is where its call left it, one
\* copy of each, and every wait belongs to the messages it may receive.
THEOREM LinkInvariant == Spec => []LinkInv
<1>1. Init => LinkInv
  BY LinkInit
<1>2. LinkInv /\ [Next]_vars => LinkInv'
  BY LinkNext
<1> QED BY <1>1, <1>2, PTL DEF Spec

\* For any number of threads, devices and calls, a request receives its own answer and
\* nothing else, except for what an expired wait or another thread's unlocked Interact
\* left on the connection, and a device keeps the default configuration only if its
\* wait ran out (Interact, GetConfig, WaitForReply, WaitForPayload).
THEOREM AnswersStayTogether == Spec => []AnswersTogether
<1>1. LinkInv => AnswersTogether
  BY DEF LinkInv, ConfigInv, AnswersTogether, ConfigReceived
<1> QED BY <1>1, LinkInvariant, PTL

\* Once ~SocketServer has returned, neither the acceptor nor a reader is left and no
\* client waits on a socket of it, however many clients there were and however many of
\* them were accepted after isRunning_ was cleared.
THEOREM ServerEndsQuiet == Spec => []ServerQuiet
<1>1. LinkInv => ServerQuiet
  <2> SUFFICES ASSUME LinkInv, server.life = "gone"
               PROVE  /\ server.acceptor \in {"none", "done"}
                      /\ \A c \in Conns : /\ reader[c].at \in {"none", "done"}
                                           /\ conn[c].state \notin {"queued", "accepted"}
    BY DEF ServerQuiet
  <2>1. /\ ServerInv /\ Walked /\ server.joined = Len(server.readWorker)
    BY DEF LinkInv, ServerInv
  <2>2. ASSUME NEW c \in Conns, reader[c].at # "none" PROVE reader[c].at = "done"
    BY <2>1, <2>2 DEF Walked
  <2> QED BY <2>1, <2>2 DEF ServerInv
<1> QED BY <1>1, LinkInvariant, PTL
=============================================================================
