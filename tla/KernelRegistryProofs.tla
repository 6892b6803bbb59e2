------------------------ MODULE KernelRegistryProofs ------------------------
(***************************************************************************)
(* Proofs about KernelRegistry, for any number of threads, handles,        *)
(* kernels, loads, launches and instrumented binaries.                     *)
(***************************************************************************)
EXTENDS KernelRegistry, TLAPS

-----------------------------------------------------------------------------
(* The inductive invariant.                                                *)

Ctx == [id : Nat, load : Nat]
Work == [at : {"idle", "init", "store", "push"}, h : Handles \cup {NoHandle}, id : Nat, load : Nat]
Event == [load : Nat, stub : Nat]
Made == [load : Nat, k : Kernels \cup {"none"}, live : BOOLEAN]
Task == [tok : Nat, dir : BOOLEAN, stubTok : Nat]
Launch == [how : {"none", "acl", "handle", "stub"}, h : Handles \cup {NoHandle},
           k : Kernels \cup {"none"}, load : Nat, ctx : Ctx, tok : Nat, stubbed : BOOLEAN]

LoadType ==
    /\ lib \in [Handles -> Nat] /\ kind \in [Handles -> {"acl", "dev", "all"}] /\ loads \in Nat
    /\ work \in [Threads -> Work] /\ currentRegId_ \in Nat \ {0} /\ contexts_ \in [Handles -> Ctx]
FuncType ==
    /\ held \subseteq Handles \X Kernels /\ funcs \in [Handles \X Kernels -> Ctx]
    /\ stubs \in [Kernels -> Handles \cup {NoHandle}] /\ stubInfo_ \in [Kernels -> Handles \cup {NoHandle}]
RtType == registerEvents_ \in Seq(Event) /\ hdlToRegId_ \in [Handles -> Nat]
TaskType ==
    /\ DOMAIN taskPool_ = Threads /\ made \in Seq(Made)
    /\ \A t \in Threads : \A key \in DOMAIN taskPool_[t] : taskPool_[t][key] \in Task
LaunchType == launch \in [Threads -> Launch]
TypeOK == LoadType /\ FuncType /\ RtType /\ TaskType /\ LaunchType

\* A registration in progress has its handle to itself, and knows whether another of
\* its kind ran at the same time.
WorkInv(t) ==
    /\ work[t].at = "idle" => work[t].h = NoHandle
    /\ work[t].at # "idle" =>
          /\ work[t].h \in Handles /\ lib[work[t].h] = work[t].load /\ work[t].load # 0
          /\ work[t].at = "push" <=> kind[work[t].h] # "acl"
    /\ \A u \in Threads : u # t /\ work[u].h = work[t].h => work[t].h = NoHandle
    /\ work[t].at \in {"init", "push"} =>
          \A u \in Threads : u # t /\ work[u].at = work[t].at => work[t].load \in overlapped
    /\ work[t].at = "init" => work[t].id # 0 /\ work[t].id <= currentRegId_
    /\ work[t].at = "store" => work[t].id # 0 /\ work[t].id < currentRegId_
    /\ work[t].at = "push" => \/ hdlToRegId_[work[t].h] = Len(registerEvents_) + 1
                              \/ work[t].load \in overlapped

\* Nobody registers h.
Still(h) == \A u \in Threads : work[u].h # h

\* What RegisterManager and FuncManager know of h.
ContextInv(h) ==
    /\ contexts_[h].id = 0 => contexts_[h] = NoCtx
    /\ contexts_[h].id < currentRegId_
    /\ lib[h] # 0 /\ kind[h] = "acl" /\ Still(h) => contexts_[h].load = lib[h] \/ lib[h] \in unread
    /\ \A k \in Kernels :
          /\ funcs[<<h, k>>].id = 0 => funcs[<<h, k>>] = NoCtx
          /\ funcs[<<h, k>>].id < currentRegId_
          /\ contexts_[h] = NoCtx => funcs[<<h, k>>] = NoCtx
          /\ <<h, k>> \in held =>
                /\ lib[h] # 0 /\ kind[h] = "acl" /\ Still(h)
                /\ funcs[<<h, k>>] = NoCtx \/ funcs[<<h, k>>].load = lib[h] \/ lib[h] \in unread

\* What KernelContext knows of h, and of the stub functions.
EventInv(h) ==
    lib[h] # 0 /\ kind[h] # "acl" /\ Still(h) =>
        \/ lib[h] \in unread \cup overlapped
        \/ hdlToRegId_[h] \in DOMAIN registerEvents_ /\ registerEvents_[hdlToRegId_[h]].load = lib[h]
StubInv(k) ==
    stubs[k] # NoHandle => lib[stubs[k]] # 0 /\ kind[stubs[k]] = "dev" /\ Still(stubs[k])

\* Somewhere the tool holds the number i for the load n of an aclrt binary, ...
InContexts(i, n) == \E h \in Handles : contexts_[h].id = i /\ contexts_[h].load = n
InFuncs(i, n) == \E h \in Handles, k \in Kernels : funcs[<<h, k>>].id = i /\ funcs[<<h, k>>].load = n
InLaunches(i, n) == \E t \in Threads : launch[t].how = "acl" /\ launch[t].ctx.id = i /\ launch[t].ctx.load = n
InTasks(i, n) ==
    \E t \in Threads : \E key \in DOMAIN taskPool_[t] :
        /\ key[3] = "kernelName" /\ key[1] = i /\ taskPool_[t][key].tok # 0
        /\ made[taskPool_[t][key].tok].load = n
Numbered(i, n) == InContexts(i, n) \/ InFuncs(i, n) \/ InLaunches(i, n) \/ InTasks(i, n)
Numbering(i, n) ==
    \E t \in Threads : work[t].at \in {"init", "store"} /\ work[t].id = i /\ work[t].load = n
Pair(i, n) == Numbered(i, n) \/ Numbering(i, n)

\* ... and for no other, unless both were registered while another thread was at it.
NumberInv ==
    \A i \in Nat \ {0}, n, m \in Nat :
        /\ Pair(i, n) /\ Pair(i, m) => n = m \/ {n, m} \subseteq overlapped
        /\ Numbered(i, n) => i < currentRegId_

\* A task of t: its copy is loaded and was made of its kernel.
TaskInv(t, key) ==
    /\ taskPool_[t][key].tok \in 0..Len(made) /\ taskPool_[t][key].stubTok \in 0..Len(made)
    /\ taskPool_[t][key].tok # 0 => /\ made[taskPool_[t][key].tok].live
                                    /\ made[taskPool_[t][key].tok].k = key[4]
    /\ taskPool_[t][key].stubTok # 0 => made[taskPool_[t][key].stubTok].k = key[4]
    /\ key[3] # "kernelName" =>
          /\ key[1] \in DOMAIN registerEvents_
          /\ taskPool_[t][key].tok # 0 =>
                made[taskPool_[t][key].tok].load = registerEvents_[key[1]].load
          /\ taskPool_[t][key].stubTok # 0 =>
                made[taskPool_[t][key].stubTok].load = registerEvents_[key[1]].load

\* A copy belongs to one task.
OwnInv ==
    \A t, u \in Threads : \A key \in DOMAIN taskPool_[t], other \in DOMAIN taskPool_[u] :
        taskPool_[t][key].tok # 0 /\ taskPool_[u][other].tok = taskPool_[t][key].tok =>
            t = u /\ key = other

\* A launch in progress, what was found for it and the copy it runs.
LaunchInv(t) ==
    /\ launch[t].how = "none" => launch[t].ctx = NoCtx
    /\ launch[t].ctx.id = 0 => launch[t].ctx = NoCtx
    /\ launch[t].ctx = NoCtx => launch[t].tok = 0
    /\ launch[t].how \in {"handle", "stub"} /\ launch[t].ctx # NoCtx =>
          /\ launch[t].ctx.id \in DOMAIN registerEvents_
          /\ registerEvents_[launch[t].ctx.id].load = launch[t].ctx.load
    /\ launch[t].how = "stub" /\ launch[t].ctx # NoCtx =>
          launch[t].k \in Kernels /\ stubInfo_[launch[t].k] # NoHandle
    /\ launch[t].tok \in 0..Len(made)
    /\ launch[t].tok # 0 /\ ~launch[t].stubbed =>
          \E key \in DOMAIN taskPool_[t] : taskPool_[t][key].tok = launch[t].tok

\* The instrumented binary of a register event is the copy of a task of that event.
StubBinInv(i) ==
    registerEvents_[i].stub # 0 =>
        /\ registerEvents_[i].stub \in 1..Len(made)
        /\ \/ registerEvents_[i].stub \in orphaned
           \/ \E t \in Threads : \E key \in DOMAIN taskPool_[t] :
                 /\ key[3] # "kernelName" /\ key[1] = i
                 /\ taskPool_[t][key].tok = registerEvents_[i].stub

RegistryInv ==
    /\ TypeOK
    /\ \A t \in Threads : WorkInv(t)
    /\ \A h \in Handles : ContextInv(h) /\ EventInv(h)
    /\ \A k \in Kernels : StubInv(k)
    /\ NumberInv
    /\ \A t \in Threads : \A key \in DOMAIN taskPool_[t] : TaskInv(t, key)
    /\ OwnInv
    /\ \A t \in Threads : LaunchInv(t)
    /\ \A i \in DOMAIN registerEvents_ : StubBinInv(i)
    /\ RunsOwnCopy /\ FindsOwnBinary

-----------------------------------------------------------------------------
(* Types and the first facts.                                              *)

\* A load under a handle that is free.
LEMMA LoadedEffect ==
    ASSUME TypeOK, NEW h \in Handles, NEW how \in {"acl", "dev", "all"}, Loaded(h, how)
    PROVE  /\ lib' \in [Handles -> Nat] /\ kind' \in [Handles -> {"acl", "dev", "all"}]
           /\ loads' \in Nat /\ loads + 1 \in Nat
           /\ lib[h] = 0 /\ lib'[h] = loads + 1 /\ lib'[h] # 0 /\ kind'[h] = how
           /\ \A x \in Handles : x # h => lib'[x] = lib[x] /\ kind'[x] = kind[x]
<1>1. loads \in Nat /\ loads + 1 \in Nat /\ loads + 1 # 0
  BY DEF TypeOK, LoadType
<1> QED BY <1>1 DEF TypeOK, LoadType, Loaded

\* Nothing is known of a handle that is free.
LEMMA FreshHandle ==
    ASSUME RegistryInv, NEW h \in Handles, lib[h] = 0
    PROVE  /\ Still(h)
           /\ \A k \in Kernels : <<h, k>> \notin held
           /\ \A k \in Kernels : stubs[k] # h
<1>1. ASSUME NEW u \in Threads PROVE work[u].h # h
  <2>1. WorkInv(u) /\ work[u].at \in {"idle", "init", "store", "push"}
    BY DEF RegistryInv, TypeOK, LoadType, Work
  <2> QED BY <2>1, KernelRegistryAssumption DEF WorkInv
<1>2. \A k \in Kernels : <<h, k>> \notin held
  BY DEF RegistryInv, ContextInv
<1>3. \A k \in Kernels : stubs[k] # h
  BY KernelRegistryAssumption DEF RegistryInv, StubInv
<1> QED BY <1>1, <1>2, <1>3 DEF Still

\* The registrations of the other threads.
Others(t) == \A u \in Threads : u # t => work'[u] = work[u]

\* One thread's registration changes, the others' stay.
LEMMA WorkEffect ==
    ASSUME TypeOK, NEW t \in Threads, NEW w \in Work, work' = [work EXCEPT ![t] = w]
    PROVE  work' \in [Threads -> Work] /\ work'[t] = w /\ Others(t)
BY DEF TypeOK, LoadType, Others

\* The values that stand for nothing in progress, nothing found and nothing launched.
LEMMA WorkFacts ==
    /\ Idle \in Work /\ Idle.at = "idle" /\ Idle.h = NoHandle
    /\ NoCtx \in Ctx /\ NoCtx.id = 0 /\ NoCtx.load = 0
    /\ NoLaunch \in Launch /\ NoLaunch.how = "none" /\ NoLaunch.h = NoHandle /\ NoLaunch.tok = 0
    /\ NoLaunch.ctx = NoCtx
BY DEF Idle, Work, NoCtx, Ctx, NoLaunch, Launch

-----------------------------------------------------------------------------
(* What the steps leave alone.                                             *)

\* The parts of RunsOwnCopy and FindsOwnBinary about one launch.
RunsOwn(t) ==
    launch[t].tok # 0 =>
        \/ made[launch[t].tok].load = launch[t].ctx.load /\ made[launch[t].tok].k = launch[t].k
        \/ {made[launch[t].tok].load, launch[t].ctx.load} \subseteq overlapped
FindsOwn(t) ==
    launch[t].ctx # NoCtx =>
        \/ launch[t].ctx.load = launch[t].load
        \/ launch[t].load \in unread \cup overlapped
        \/ launch[t].how = "stub" /\ stubInfo_[launch[t].k] # launch[t].h

\* RunsOwnCopy and FindsOwnBinary hold when they hold of every thread's launch.
LEMMA OwnEach ==
    /\ RunsOwnCopy <=> \A t \in Threads : RunsOwn(t)
    /\ FindsOwnBinary <=> \A t \in Threads : FindsOwn(t)
    /\ (\A t \in Threads : RunsOwn(t)') => RunsOwnCopy'
    /\ (\A t \in Threads : FindsOwn(t)') => FindsOwnBinary'
<1>1. /\ RunsOwnCopy <=> \A t \in Threads : RunsOwn(t)
      /\ FindsOwnBinary <=> \A t \in Threads : FindsOwn(t)
  BY DEF RunsOwnCopy, RunsOwn, FindsOwnBinary, FindsOwn
<1>2. /\ (\A t \in Threads : RunsOwn(t)') => RunsOwnCopy'
      /\ (\A t \in Threads : FindsOwn(t)') => FindsOwnBinary'
  BY DEF RunsOwnCopy, RunsOwn, FindsOwnBinary, FindsOwn
<1> QED BY <1>1, <1>2

\* Instrumented binaries and register events are only added; the history grows.
MadeGrows ==
    /\ Len(made) <= Len(made')
    /\ \A i \in 1..Len(made) : made'[i].load = made[i].load /\ made'[i].k = made[i].k
EventsGrow ==
    /\ DOMAIN registerEvents_ \subseteq DOMAIN registerEvents_'
    /\ \A i \in DOMAIN registerEvents_ : registerEvents_'[i].load = registerEvents_[i].load
HistoryGrows == overlapped \subseteq overlapped' /\ unread \subseteq unread' /\ orphaned \subseteq orphaned'

\* A launch that goes on untouched.
LEMMA LaunchKept ==
    ASSUME RegistryInv, NEW u \in Threads, launch'[u] = launch[u], taskPool_'[u] = taskPool_[u],
           Len(made') \in Nat, MadeGrows, EventsGrow, HistoryGrows,
           \A k \in Kernels : stubInfo_[k] # NoHandle => stubInfo_'[k] = stubInfo_[k]
    PROVE  LaunchInv(u)' /\ RunsOwn(u)' /\ FindsOwn(u)'
<1>0. LaunchInv(u) /\ RunsOwn(u) /\ FindsOwn(u) /\ launch[u] \in Launch /\ Len(made) \in Nat
  BY OwnEach DEF RegistryInv, TypeOK, LaunchType, TaskType
<1>1. PICK l : l = launch[u]
  OBVIOUS
<1>2. /\ l.how = "none" => l.ctx = NoCtx
      /\ l.ctx.id = 0 => l.ctx = NoCtx
      /\ l.ctx = NoCtx => l.tok = 0
      /\ l.how \in {"handle", "stub"} /\ l.ctx # NoCtx =>
            l.ctx.id \in DOMAIN registerEvents_' /\ registerEvents_'[l.ctx.id].load = l.ctx.load
      /\ l.how = "stub" /\ l.ctx # NoCtx => /\ l.k \in Kernels /\ stubInfo_'[l.k] # NoHandle
                                            /\ stubInfo_'[l.k] = stubInfo_[l.k]
      /\ l.tok \in 0..Len(made')
      /\ l.tok # 0 => /\ l.tok \in 1..Len(made) /\ made'[l.tok].load = made[l.tok].load
                      /\ made'[l.tok].k = made[l.tok].k
  BY <1>0, <1>1 DEF LaunchInv, EventsGrow, MadeGrows
<1>3. LaunchInv(u)'
  BY <1>0, <1>1, <1>2 DEF LaunchInv
<1>4. RunsOwn(u)'
  BY <1>0, <1>1, <1>2 DEF RunsOwn, HistoryGrows
<1>5. FindsOwn(u)'
  BY <1>0, <1>1, <1>2 DEF FindsOwn, HistoryGrows
<1> QED BY <1>3, <1>4, <1>5

\* A task that stays as it is, its copy loaded.
LEMMA TaskKept ==
    ASSUME RegistryInv, NEW u \in Threads, NEW key \in DOMAIN taskPool_[u],
           taskPool_'[u][key] = taskPool_[u][key], Len(made') \in Nat, MadeGrows, EventsGrow,
           taskPool_[u][key].tok # 0 => made'[taskPool_[u][key].tok].live
    PROVE  TaskInv(u, key)'
<1>0. TaskInv(u, key) /\ Len(made) \in Nat /\ taskPool_[u][key] \in Task
  BY DEF RegistryInv, TypeOK, TaskType
<1>1. PICK x : x = taskPool_[u][key]
  OBVIOUS
<1>2. /\ x.tok \in 0..Len(made') /\ x.stubTok \in 0..Len(made')
      /\ x.tok # 0 => /\ x.tok \in 1..Len(made) /\ made'[x.tok].live /\ made'[x.tok].k = key[4]
                      /\ made'[x.tok].load = made[x.tok].load
      /\ x.stubTok # 0 => /\ x.stubTok \in 1..Len(made) /\ made'[x.stubTok].k = key[4]
                          /\ made'[x.stubTok].load = made[x.stubTok].load
      /\ key[3] # "kernelName" => /\ key[1] \in DOMAIN registerEvents_'
                                  /\ registerEvents_'[key[1]].load = registerEvents_[key[1]].load
  BY SMTT(30), <1>0, <1>1 DEF TaskInv, MadeGrows, EventsGrow
<1> QED BY <1>0, <1>1, <1>2 DEF TaskInv

\* Steps that concern neither tasks nor launches.
LEMMA TasksStay ==
    ASSUME RegistryInv, UNCHANGED <<taskVars, launch>>, EventsGrow, HistoryGrows,
           \A k \in Kernels : stubInfo_[k] # NoHandle => stubInfo_'[k] = stubInfo_[k],
           \A i \in DOMAIN registerEvents_' :
               registerEvents_'[i].stub = 0 \/ (i \in DOMAIN registerEvents_ /\ registerEvents_'[i] = registerEvents_[i])
    PROVE  /\ \A t \in Threads : \A key \in DOMAIN taskPool_'[t] : TaskInv(t, key)'
           /\ OwnInv' /\ RunsOwnCopy' /\ FindsOwnBinary'
           /\ \A t \in Threads : LaunchInv(t)'
           /\ \A i \in DOMAIN registerEvents_' : StubBinInv(i)'
<1>0. UNCHANGED <<taskPool_, made, orphaned, launch>> /\ Len(made') \in Nat /\ MadeGrows
  BY DEF RegistryInv, TypeOK, TaskType, taskVars, MadeGrows
<1>1. \A t \in Threads : \A key \in DOMAIN taskPool_'[t] : TaskInv(t, key)'
  <2> SUFFICES ASSUME NEW t \in Threads, NEW key \in DOMAIN taskPool_[t] PROVE TaskInv(t, key)'
    BY <1>0
  <2>1. TaskInv(t, key)
    BY DEF RegistryInv
  <2> QED BY <1>0, <2>1, TaskKept DEF TaskInv
<1>2. OwnInv'
  BY <1>0 DEF RegistryInv, OwnInv
<1>3. \A t \in Threads : LaunchInv(t)' /\ RunsOwn(t)' /\ FindsOwn(t)'
  BY <1>0, LaunchKept
<1>4. ASSUME NEW i \in DOMAIN registerEvents_' PROVE StubBinInv(i)'
  <2>1. CASE registerEvents_'[i].stub = 0
    BY <2>1 DEF StubBinInv
  <2>2. CASE i \in DOMAIN registerEvents_ /\ registerEvents_'[i] = registerEvents_[i]
    <3>1. StubBinInv(i)
      BY <2>2 DEF RegistryInv
    <3> QED BY <1>0, <2>2, <3>1 DEF StubBinInv
  <2> QED BY <1>4, <2>1, <2>2
<1> QED BY <1>1, <1>2, <1>3, <1>4, OwnEach

\* Steps that concern neither the loads nor the tables of the hooks.
LEMMA TablesStay ==
    ASSUME RegistryInv, UNCHANGED <<loadVars, funcVars, hdlToRegId_>>, EventsGrow,
           Len(registerEvents_') = Len(registerEvents_)
    PROVE  /\ \A t \in Threads : WorkInv(t)'
           /\ \A h \in Handles : ContextInv(h)' /\ EventInv(h)'
           /\ \A k \in Kernels : StubInv(k)'
<1>0. /\ UNCHANGED <<lib, kind, loads, work, currentRegId_, contexts_, overlapped, unread>>
      /\ UNCHANGED <<held, funcs, stubs, stubInfo_, hdlToRegId_>>
  BY DEF loadVars, funcVars
<1>1. \A t \in Threads : WorkInv(t)'
  BY <1>0 DEF RegistryInv, WorkInv
<1>2. \A h \in Handles : ContextInv(h)'
  BY <1>0 DEF RegistryInv, ContextInv, Still
<1>3. \A h \in Handles : EventInv(h)'
  BY <1>0 DEF RegistryInv, EventInv, Still, EventsGrow
<1>4. \A k \in Kernels : StubInv(k)'
  BY <1>0 DEF RegistryInv, StubInv, Still
<1> QED BY <1>1, <1>2, <1>3, <1>4

\* A number given to one load more: no other load has it, or all were registered
\* together.
LEMMA NumberOneMore ==
    ASSUME RegistryInv, overlapped \subseteq overlapped', NEW j \in Nat, NEW p \in Nat,
           \A i \in Nat \ {0}, n \in Nat : Pair(i, n)' => Pair(i, n) \/ (i = j /\ n = p),
           \A n \in Nat : Pair(j, n) => n = p \/ {n, p} \subseteq overlapped',
           \A i \in Nat \ {0}, n \in Nat : Numbered(i, n)' => i < currentRegId_'
    PROVE  NumberInv'
<1>1. \A i \in Nat \ {0}, n, m \in Nat : Pair(i, n) /\ Pair(i, m) => n = m \/ {n, m} \subseteq overlapped
  BY DEF RegistryInv, NumberInv
<1>2. ASSUME NEW i \in Nat \ {0}, NEW n \in Nat, NEW m \in Nat, Pair(i, n)', Pair(i, m)'
      PROVE  n = m \/ {n, m} \subseteq overlapped'
  BY <1>1, <1>2
<1> QED BY <1>2 DEF NumberInv

\* No number is given: none comes to stand for two loads.
LEMMA NumberSame ==
    ASSUME RegistryInv, overlapped \subseteq overlapped',
           \A i \in Nat \ {0}, n \in Nat : Pair(i, n)' => Pair(i, n),
           \A i \in Nat \ {0}, n \in Nat : Numbered(i, n)' => i < currentRegId_'
    PROVE  NumberInv'
<1>1. \A i \in Nat \ {0}, n, m \in Nat : Pair(i, n) /\ Pair(i, m) => n = m \/ {n, m} \subseteq overlapped
  BY DEF RegistryInv, NumberInv
<1> QED BY <1>1 DEF NumberInv

\* Which numbers are in use does not depend on the handles the library gives.
LEMMA NumberedSame ==
    ASSUME UNCHANGED <<contexts_, funcs, launch, taskPool_, made>>, NEW i, NEW n
    PROVE  Numbered(i, n)' <=> Numbered(i, n)
BY DEF Numbered, InContexts, InFuncs, InLaunches, InTasks

-----------------------------------------------------------------------------
(* Loads.                                                                  *)

\* The rt hooks name the index of the next event for the handle.
NamesIndex(h, a) ==
    /\ \A x \in Handles : x # h => hdlToRegId_'[x] = hdlToRegId_[x]
    /\ a = "push" => hdlToRegId_'[h] = Len(registerEvents_) + 1

\* A registration of handle h begins.
Registers(t, h, how, a, i) ==
    /\ work[t] = Idle /\ Loaded(h, how) /\ (a = "push" <=> how # "acl")
    /\ work' = [work EXCEPT ![t] = [at |-> a, h |-> h, id |-> i, load |-> loads + 1]]
    /\ Overlap(t, a) /\ (a = "init" => i = currentRegId_)
    /\ UNCHANGED <<currentRegId_, contexts_, unread, funcVars, registerEvents_>> /\ NamesIndex(h, a)

\* The loads and the tables of the hooks while CreateContext or AddHdlRegisterEvent
\* begins to register a handle.
LEMMA BeginsLoad ==
    ASSUME RegistryInv, NEW t \in Threads, NEW h \in Handles, NEW how \in {"acl", "dev", "all"},
           NEW a \in {"init", "push"}, NEW i \in Nat, Registers(t, h, how, a, i)
    PROVE  /\ LoadType' /\ overlapped \subseteq overlapped'
           /\ \A u \in Threads : WorkInv(u)'
           /\ \A x \in Handles : ContextInv(x)' /\ EventInv(x)'
           /\ \A k \in Kernels : StubInv(k)'
           /\ Others(t) /\ work'[t].at = a /\ work'[t].id = i /\ work'[t].load = loads + 1
           /\ \A u \in Threads : u # t /\ work[u].at = a =>
                 work[u].load \in overlapped' /\ loads + 1 \in overlapped'
<1> USE DEF Registers
<1>0. /\ TypeOK /\ (\A u \in Threads : WorkInv(u)) /\ (\A x \in Handles : ContextInv(x) /\ EventInv(x))
      /\ (\A k \in Kernels : StubInv(k)) /\ NoHandle \notin Handles
      /\ UNCHANGED <<held, funcs, stubs, stubInfo_>>
      /\ currentRegId_ \in Nat \ {0} /\ \A k \in Kernels : stubs[k] \in Handles \cup {NoHandle}
  BY KernelRegistryAssumption DEF RegistryInv, funcVars, TypeOK, LoadType, FuncType
<1>1. /\ lib' \in [Handles -> Nat] /\ kind' \in [Handles -> {"acl", "dev", "all"}]
      /\ loads' \in Nat /\ loads + 1 \in Nat
      /\ lib[h] = 0 /\ lib'[h] = loads + 1 /\ lib'[h] # 0 /\ kind'[h] = how
      /\ \A x \in Handles : x # h => lib'[x] = lib[x] /\ kind'[x] = kind[x]
  BY <1>0, LoadedEffect
<1>2. Still(h) /\ (\A k \in Kernels : <<h, k>> \notin held) /\ \A k \in Kernels : stubs[k] # h
  BY <1>1, FreshHandle
<1>3. PICK w \in Work : /\ w = [at |-> a, h |-> h, id |-> i, load |-> loads + 1]
                        /\ w.at = a /\ w.h = h /\ w.id = i /\ w.load = loads + 1
  <2>1. [at |-> a, h |-> h, id |-> i, load |-> loads + 1] \in Work
    BY <1>1 DEF Work
  <2> QED BY <2>1
<1>4. work' \in [Threads -> Work] /\ work'[t] = w /\ Others(t)
  BY <1>0, <1>3, WorkEffect
<1>5. work[t].at = "idle" /\ work[t].h = NoHandle
  BY WorkFacts
<1>6. /\ overlapped \subseteq overlapped'
      /\ \A u \in Threads : u # t /\ work[u].at = a =>
            work[u].load \in overlapped' /\ loads + 1 \in overlapped'
  BY DEF Overlap, Together
<1>7. LoadType'
  BY <1>0, <1>1, <1>4 DEF TypeOK, LoadType
<1>8. WorkInv(t)'
  BY <1>0, <1>1, <1>2, <1>3, <1>4, <1>6 DEF WorkInv, Others, Still, NamesIndex
<1>9. ASSUME NEW u \in Threads, u # t PROVE WorkInv(u)'
  <2>1. work'[u] = work[u] /\ work[u].h # h /\ WorkInv(u) /\ work[u].at \in {"idle", "init", "store", "push"}
    BY <1>0, <1>2, <1>4, <1>9 DEF Others, Still, TypeOK, LoadType, Work
  <2>2. work[u].at # "idle" =>
           /\ work[u].h \in Handles /\ lib'[work[u].h] = work[u].load /\ work[u].load # 0
           /\ work[u].at = "push" <=> kind'[work[u].h] # "acl"
           /\ hdlToRegId_'[work[u].h] = hdlToRegId_[work[u].h]
    BY <1>1, <2>1 DEF WorkInv, NamesIndex
  <2>3. \A v \in Threads : v # u /\ work'[v].h = work[u].h => work[u].h = NoHandle
    BY <1>3, <1>4, <2>1 DEF WorkInv, Others
  <2>4. work[u].at \in {"init", "push"} =>
           \A v \in Threads : v # u /\ work'[v].at = work[u].at => work[u].load \in overlapped'
    BY <1>3, <1>4, <1>6, <1>9, <2>1 DEF WorkInv, Others
  <2> QED BY <1>6, <2>1, <2>2, <2>3, <2>4 DEF WorkInv
<1>10. \A x \in Handles : Still(x)' <=> Still(x) /\ x # h
  BY <1>0, <1>2, <1>3, <1>4, <1>5 DEF Still, Others
<1>11. \A x \in Handles : ContextInv(x)'
  BY <1>0, <1>1, <1>2, <1>10 DEF ContextInv
<1>12. \A x \in Handles : EventInv(x)'
  BY <1>0, <1>1, <1>6, <1>10 DEF EventInv, NamesIndex
<1>13. \A k \in Kernels : StubInv(k)'
  BY <1>0, <1>1, <1>2, <1>10 DEF StubInv
<1> QED BY <1>3, <1>4, <1>6, <1>7, <1>8, <1>9, <1>11, <1>12, <1>13

\* CreateContext: the number it reads is nobody's, or that of a registration that now
\* runs together with it.
LEMMA CreateContextKeeps ==
    ASSUME RegistryInv, NEW t \in Threads, NEW h \in Handles, CreateContext(t, h) PROVE RegistryInv'
<1>0. /\ TypeOK /\ currentRegId_ \in Nat \ {0} /\ loads + 1 \in Nat
      /\ \A u \in Threads : WorkInv(u)
  BY DEF RegistryInv, TypeOK, LoadType
<1>1. /\ work[t] = Idle /\ Loaded(h, "acl") /\ Overlap(t, "init")
      /\ work' = [work EXCEPT ![t] = [at |-> "init", h |-> h, id |-> currentRegId_, load |-> loads + 1]]
      /\ UNCHANGED <<currentRegId_, contexts_, unread, funcVars, registerEvents_, hdlToRegId_, taskVars, launch>>
  BY DEF CreateContext, Free, rtVars, launchVars
<1>2. /\ LoadType' /\ overlapped \subseteq overlapped'
      /\ \A u \in Threads : WorkInv(u)'
      /\ \A x \in Handles : ContextInv(x)' /\ EventInv(x)'
      /\ \A k \in Kernels : StubInv(k)'
      /\ Others(t) /\ work'[t].at = "init" /\ work'[t].id = currentRegId_ /\ work'[t].load = loads + 1
      /\ \A u \in Threads : u # t /\ work[u].at = "init" =>
            work[u].load \in overlapped' /\ loads + 1 \in overlapped'
  <2>1. Registers(t, h, "acl", "init", currentRegId_)
    BY <1>1 DEF NamesIndex, Registers
  <2> QED BY <1>0, <2>1, BeginsLoad
<1>3. TypeOK'
  BY <1>0, <1>1, <1>2 DEF TypeOK, FuncType, RtType, TaskType, LaunchType, funcVars, taskVars
<1>4. EventsGrow /\ HistoryGrows /\ UNCHANGED <<stubInfo_, funcs, taskPool_, made, orphaned>>
  BY <1>1, <1>2 DEF EventsGrow, HistoryGrows, funcVars, taskVars
<1>5. /\ \A u \in Threads : \A key \in DOMAIN taskPool_'[u] : TaskInv(u, key)'
      /\ OwnInv' /\ RunsOwnCopy' /\ FindsOwnBinary'
      /\ \A u \in Threads : LaunchInv(u)'
      /\ \A i \in DOMAIN registerEvents_' : StubBinInv(i)'
  BY <1>1, <1>4, TasksStay
<1>6. NumberInv'
  <2>0. PICK j \in Nat \ {0}, p \in Nat : j = currentRegId_ /\ p = loads + 1
    BY <1>0
  <2>1. \A i, n : Numbered(i, n)' <=> Numbered(i, n)
    BY <1>1, <1>4, NumberedSame
  <2>2. \A i \in Nat \ {0}, n \in Nat : Numbered(i, n) => i < currentRegId_
    BY DEF RegistryInv, NumberInv
  <2>3. \A i, n : Numbering(i, n)' => Numbering(i, n) \/ (i = j /\ n = p)
    BY <1>2, <2>0 DEF Numbering, Others
  <2>4. ASSUME NEW n \in Nat, Pair(j, n) PROVE {n, p} \subseteq overlapped'
    <3>1. PICK u \in Threads : work[u].at \in {"init", "store"} /\ work[u].id = j /\ work[u].load = n
      BY <2>0, <2>2, <2>4 DEF Pair, Numbering
    <3>2. work[u].at = "init" /\ u # t
      BY <1>0, <1>1, <2>0, <3>1, WorkFacts DEF WorkInv
    <3> QED BY <1>2, <2>0, <3>1, <3>2
  <2>5. \A i \in Nat \ {0}, n \in Nat : Pair(i, n)' => Pair(i, n) \/ (i = j /\ n = p)
    BY <2>1, <2>3 DEF Pair
  <2>6. \A i \in Nat \ {0}, n \in Nat : Numbered(i, n)' => i < currentRegId_'
    BY <1>1, <2>1, <2>2
  <2> QED BY <1>2, <2>4, <2>5, <2>6, NumberOneMore
<1> QED BY <1>2, <1>3, <1>5, <1>6 DEF RegistryInv

\* AddHdlRegisterEvent: the index it names is the next one, until another registration
\* runs together with it.
LEMMA AddHdlKeeps ==
    ASSUME RegistryInv, NEW t \in Threads, NEW h \in Handles, NEW how \in {"dev", "all"},
           AddHdlRegisterEvent(t, h, how)
    PROVE  RegistryInv'
<1>0. TypeOK /\ Len(registerEvents_) + 1 \in Nat
  BY DEF RegistryInv, TypeOK, RtType
<1>1. /\ work[t] = Idle /\ Loaded(h, how) /\ Overlap(t, "push")
      /\ work' = [work EXCEPT ![t] = [at |-> "push", h |-> h, id |-> 0, load |-> loads + 1]]
      /\ hdlToRegId_' = [hdlToRegId_ EXCEPT ![h] = Len(registerEvents_) + 1]
      /\ UNCHANGED <<currentRegId_, contexts_, unread, funcVars, registerEvents_, taskVars, launch>>
  BY DEF AddHdlRegisterEvent, Free, launchVars
<1>2. /\ hdlToRegId_' \in [Handles -> Nat] /\ hdlToRegId_'[h] = Len(registerEvents_) + 1
      /\ \A x \in Handles : x # h => hdlToRegId_'[x] = hdlToRegId_[x]
  BY <1>0, <1>1 DEF TypeOK, RtType
<1>3. /\ LoadType' /\ overlapped \subseteq overlapped'
      /\ \A u \in Threads : WorkInv(u)'
      /\ \A x \in Handles : ContextInv(x)' /\ EventInv(x)'
      /\ \A k \in Kernels : StubInv(k)'
      /\ Others(t) /\ work'[t].at = "push"
  <2>1. Registers(t, h, how, "push", 0)
    BY <1>1, <1>2 DEF NamesIndex, Registers
  <2> QED BY <2>1, BeginsLoad
<1>4. TypeOK'
  BY <1>0, <1>1, <1>2, <1>3 DEF TypeOK, FuncType, RtType, TaskType, LaunchType, funcVars, taskVars
<1>5. EventsGrow /\ HistoryGrows /\ UNCHANGED <<stubInfo_, funcs, taskPool_, made, orphaned>>
  BY <1>1, <1>3 DEF EventsGrow, HistoryGrows, funcVars, taskVars
<1>6. /\ \A u \in Threads : \A key \in DOMAIN taskPool_'[u] : TaskInv(u, key)'
      /\ OwnInv' /\ RunsOwnCopy' /\ FindsOwnBinary'
      /\ \A u \in Threads : LaunchInv(u)'
      /\ \A i \in DOMAIN registerEvents_' : StubBinInv(i)'
  BY <1>1, <1>5, TasksStay
<1>7. NumberInv'
  <2>1. \A i, n : Numbered(i, n)' <=> Numbered(i, n)
    BY <1>1, <1>5, NumberedSame
  <2>2. \A i, n : Numbering(i, n)' => Numbering(i, n)
    BY <1>3 DEF Numbering, Others
  <2> QED BY <1>1, <1>3, <2>1, <2>2, NumberSame DEF Pair, RegistryInv, NumberInv
<1> QED BY <1>3, <1>4, <1>6, <1>7 DEF RegistryInv

\* A load that is over with the call: recorded, or not readable.
AtOnce(h, how) ==
    /\ Loaded(h, how) /\ UNCHANGED <<work, funcVars, rtVars>> /\ overlapped \subseteq overlapped'
    /\ \/ unread' = unread \cup {loads + 1} /\ UNCHANGED <<contexts_, currentRegId_>>
       \/ /\ how = "acl" /\ UNCHANGED unread /\ currentRegId_' = currentRegId_ + 1
          /\ contexts_' = [contexts_ EXCEPT ![h] = [id |-> currentRegId_, load |-> loads + 1]]

\* The loads and the tables of the hooks when a load is registered in one step, or not
\* at all.
LEMMA LoadsAtOnce ==
    ASSUME RegistryInv, NEW h \in Handles, NEW how \in {"acl", "dev", "all"}, AtOnce(h, how)
    PROVE  /\ LoadType' /\ unread \subseteq unread'
           /\ \A u \in Threads : WorkInv(u)'
           /\ \A x \in Handles : ContextInv(x)' /\ EventInv(x)'
           /\ \A k \in Kernels : StubInv(k)'
           /\ \A x \in Handles : x # h => contexts_'[x] = contexts_[x]
           /\ \/ contexts_' = contexts_
              \/ contexts_'[h].id = currentRegId_ /\ contexts_'[h].load = loads + 1
<1>0. /\ TypeOK /\ (\A u \in Threads : WorkInv(u)) /\ (\A x \in Handles : ContextInv(x) /\ EventInv(x))
      /\ (\A k \in Kernels : StubInv(k)) /\ UNCHANGED <<work, held, funcs, stubs, stubInfo_>>
      /\ UNCHANGED <<registerEvents_, hdlToRegId_>> /\ Loaded(h, how) /\ overlapped \subseteq overlapped'
      /\ currentRegId_ \in Nat \ {0} /\ currentRegId_ + 1 \in Nat \ {0}
      /\ \A k \in Kernels : stubs[k] \in Handles \cup {NoHandle}
  BY DEF RegistryInv, funcVars, rtVars, TypeOK, LoadType, FuncType, AtOnce
<1>1. /\ lib' \in [Handles -> Nat] /\ kind' \in [Handles -> {"acl", "dev", "all"}]
      /\ loads' \in Nat /\ loads + 1 \in Nat
      /\ lib[h] = 0 /\ lib'[h] = loads + 1 /\ lib'[h] # 0 /\ kind'[h] = how
      /\ \A x \in Handles : x # h => lib'[x] = lib[x] /\ kind'[x] = kind[x]
  BY <1>0, LoadedEffect
<1>2. Still(h) /\ (\A k \in Kernels : <<h, k>> \notin held) /\ \A k \in Kernels : stubs[k] # h
  BY <1>1, FreshHandle
<1>3. PICK w \in Ctx : w = [id |-> currentRegId_, load |-> loads + 1]
  <2>1. [id |-> currentRegId_, load |-> loads + 1] \in Ctx
    BY <1>0, <1>1 DEF Ctx
  <2> QED BY <2>1
<1>4. w.id = currentRegId_ /\ w.load = loads + 1 /\ w # NoCtx
  BY <1>0, <1>3, WorkFacts
<1>5. /\ contexts_' \in [Handles -> Ctx] /\ currentRegId_' \in Nat \ {0} /\ currentRegId_ <= currentRegId_'
      /\ unread \subseteq unread'
      /\ \A x \in Handles : x # h => contexts_'[x] = contexts_[x]
      /\ \/ contexts_' = contexts_ /\ loads + 1 \in unread'
         \/ contexts_'[h] = w /\ how = "acl" /\ currentRegId_ < currentRegId_'
  <2>1. CASE unread' = unread \cup {loads + 1} /\ UNCHANGED <<contexts_, currentRegId_>>
    BY <1>0, <2>1 DEF TypeOK, LoadType
  <2>2. CASE /\ how = "acl" /\ UNCHANGED unread /\ currentRegId_' = currentRegId_ + 1
             /\ contexts_' = [contexts_ EXCEPT ![h] = w]
    BY <1>0, <2>2 DEF TypeOK, LoadType
  <2> QED BY <1>3, <2>1, <2>2 DEF AtOnce
<1>6. LoadType'
  BY <1>0, <1>1, <1>5 DEF TypeOK, LoadType
<1>7. ASSUME NEW u \in Threads PROVE WorkInv(u)'
  <2>1. /\ work[u].h # h /\ WorkInv(u) /\ work[u].at \in {"idle", "init", "store", "push"}
        /\ work[u].id \in Nat
    BY <1>0, <1>2 DEF Still, TypeOK, LoadType, Work
  <2>2. work[u].at # "idle" =>
           /\ work[u].h \in Handles /\ lib'[work[u].h] = work[u].load /\ work[u].load # 0
           /\ work[u].at = "push" <=> kind'[work[u].h] # "acl"
    BY <1>1, <2>1 DEF WorkInv
  <2>3. /\ work[u].at = "init" => work[u].id # 0 /\ work[u].id <= currentRegId_'
        /\ work[u].at = "store" => work[u].id # 0 /\ work[u].id < currentRegId_'
    BY <1>0, <1>5, <2>1 DEF WorkInv
  <2> QED BY <1>0, <2>1, <2>2, <2>3 DEF WorkInv
<1>8. \A x \in Handles : Still(x)' <=> Still(x)
  BY <1>0 DEF Still
<1>9. ASSUME NEW x \in Handles PROVE ContextInv(x)'
  <2>1. contexts_[x].id \in Nat /\ \A k \in Kernels : funcs[<<x, k>>].id \in Nat
    BY <1>0 DEF TypeOK, LoadType, FuncType, Ctx
  <2>2. /\ contexts_'[x].id = 0 => contexts_'[x] = NoCtx
        /\ contexts_'[x].id < currentRegId_'
        /\ contexts_'[x] = NoCtx => contexts_[x] = NoCtx
    BY <1>0, <1>4, <1>5, <2>1 DEF ContextInv
  <2>3. lib'[x] # 0 /\ kind'[x] = "acl" /\ Still(x)' => contexts_'[x].load = lib'[x] \/ lib'[x] \in unread'
    BY <1>0, <1>1, <1>4, <1>5, <1>8 DEF ContextInv
  <2>4. ASSUME NEW k \in Kernels
        PROVE  /\ funcs[<<x, k>>].id = 0 => funcs[<<x, k>>] = NoCtx
               /\ funcs[<<x, k>>].id < currentRegId_'
               /\ contexts_[x] = NoCtx => funcs[<<x, k>>] = NoCtx
               /\ <<x, k>> \in held =>
                     /\ lib'[x] # 0 /\ kind'[x] = "acl" /\ Still(x)'
                     /\ funcs[<<x, k>>] = NoCtx \/ funcs[<<x, k>>].load = lib'[x] \/ lib'[x] \in unread'
    BY <1>0, <1>1, <1>2, <1>5, <1>8, <2>1 DEF ContextInv
  <2> QED BY <1>0, <2>2, <2>3, <2>4 DEF ContextInv
<1>10. \A x \in Handles : EventInv(x)'
  BY <1>0, <1>1, <1>5, <1>8 DEF EventInv
<1>11. \A k \in Kernels : StubInv(k)'
  BY <1>0, <1>1, <1>2, <1>8 DEF StubInv
<1> QED BY <1>4, <1>5, <1>6, <1>7, <1>9, <1>10, <1>11

\* A load that is over with the call takes a number only together with the
\* registrations that have read the same one.
LEMMA AtOnceKeeps ==
    ASSUME RegistryInv, NEW h \in Handles, NEW how \in {"acl", "dev", "all"}, AtOnce(h, how),
           UNCHANGED <<taskVars, launch>>,
           \/ contexts_' = contexts_
           \/ \A u \in Threads : work[u].at = "init" =>
                  work[u].load \in overlapped' /\ loads + 1 \in overlapped'
    PROVE  RegistryInv'
<1>0. /\ TypeOK /\ currentRegId_ \in Nat \ {0} /\ loads + 1 \in Nat
      /\ \A u \in Threads : WorkInv(u)
  BY DEF RegistryInv, TypeOK, LoadType
<1>1. /\ LoadType' /\ unread \subseteq unread'
      /\ \A u \in Threads : WorkInv(u)'
      /\ \A x \in Handles : ContextInv(x)' /\ EventInv(x)'
      /\ \A k \in Kernels : StubInv(k)'
      /\ \A x \in Handles : x # h => contexts_'[x] = contexts_[x]
      /\ \/ contexts_' = contexts_
         \/ contexts_'[h].id = currentRegId_ /\ contexts_'[h].load = loads + 1
  BY LoadsAtOnce
<1>2. /\ UNCHANGED <<registerEvents_, hdlToRegId_, work, held, funcs, stubs, stubInfo_>>
      /\ UNCHANGED <<taskPool_, made, orphaned>> /\ overlapped \subseteq overlapped'
  BY DEF AtOnce, funcVars, rtVars, taskVars
<1>3. TypeOK'
  BY <1>0, <1>1, <1>2 DEF TypeOK, FuncType, RtType, TaskType, LaunchType
<1>4. EventsGrow /\ HistoryGrows
  BY <1>1, <1>2 DEF EventsGrow, HistoryGrows
<1>5. /\ \A u \in Threads : \A key \in DOMAIN taskPool_'[u] : TaskInv(u, key)'
      /\ OwnInv' /\ RunsOwnCopy' /\ FindsOwnBinary'
      /\ \A u \in Threads : LaunchInv(u)'
      /\ \A i \in DOMAIN registerEvents_' : StubBinInv(i)'
  BY <1>2, <1>4, TasksStay
<1>6. NumberInv'
  <2>0. PICK j \in Nat \ {0}, p \in Nat : j = currentRegId_ /\ p = loads + 1
    BY <1>0
  <2>1. \A i \in Nat \ {0}, n \in Nat : Numbered(i, n) => i < currentRegId_
    BY DEF RegistryInv, NumberInv
  <2>2. currentRegId_' \in Nat /\ currentRegId_ <= currentRegId_'
        /\ (contexts_' = contexts_ \/ currentRegId_ < currentRegId_')
    BY <1>0 DEF AtOnce
  <2>3. CASE contexts_' = contexts_
    <3>1. \A i, n : Numbered(i, n)' <=> Numbered(i, n)
      BY <1>2, <2>3, NumberedSame
    <3>2. \A i, n : Numbering(i, n)' <=> Numbering(i, n)
      BY <1>2 DEF Numbering
    <3>3. \A i \in Nat \ {0}, n \in Nat : Numbered(i, n)' => i < currentRegId_'
      BY <1>0, <2>1, <2>2, <3>1
    <3> QED BY <1>2, <3>1, <3>2, <3>3, NumberSame DEF Pair
  <2>4. CASE /\ contexts_'[h].id = currentRegId_ /\ contexts_'[h].load = loads + 1
             /\ contexts_' # contexts_
    <3>1. \A i, n : Numbered(i, n)' => Numbered(i, n) \/ (i = j /\ n = p)
      BY SMTT(30), <1>1, <1>2, <2>0, <2>4 DEF Numbered, InContexts, InFuncs, InLaunches, InTasks
    <3>2. \A i, n : Numbering(i, n)' <=> Numbering(i, n)
      BY <1>2 DEF Numbering
    <3>3. ASSUME NEW n \in Nat, Pair(j, n) PROVE {n, p} \subseteq overlapped'
      <4>1. PICK u \in Threads : work[u].at \in {"init", "store"} /\ work[u].id = j /\ work[u].load = n
        BY <2>0, <2>1, <3>3 DEF Pair, Numbering
      <4>2. work[u].at = "init"
        BY <1>0, <2>0, <4>1 DEF WorkInv
      <4> QED BY <2>0, <2>4, <4>1, <4>2
    <3>4. \A i \in Nat \ {0}, n \in Nat : Pair(i, n)' => Pair(i, n) \/ (i = j /\ n = p)
      BY <3>1, <3>2 DEF Pair
    <3>5. \A i \in Nat \ {0}, n \in Nat : Numbered(i, n)' => i < currentRegId_'
      BY <1>0, <2>0, <2>1, <2>2, <2>4, <3>1
    <3> QED BY SMTT(30), <1>2, <3>3, <3>4, <3>5, NumberOneMore
  <2> QED BY <1>1, <2>3, <2>4
<1> QED BY <1>1, <1>3, <1>5, <1>6 DEF RegistryInv

\* A load the tool could not read (a .json path, a binary too long) is only noted.
LEMMA UnreadKeeps ==
    ASSUME RegistryInv, NEW h \in Handles, NEW how \in {"acl", "dev", "all"}, Loaded(h, how),
           unread' = unread \cup {loads + 1},
           UNCHANGED <<work, currentRegId_, contexts_, overlapped, funcVars, rtVars, taskVars, launchVars>>
    PROVE  RegistryInv'
<1>1. AtOnce(h, how) /\ UNCHANGED <<taskVars, launch>> /\ contexts_' = contexts_
  BY DEF AtOnce, launchVars
<1> QED BY <1>1, AtOnceKeeps

\* aclrtCreateBinary registers under the lock, in one step.
LEMMA BinaryLoadKeeps ==
    ASSUME RegistryInv, NEW t \in Threads, NEW h \in Handles, BinaryLoad(t, h) PROVE RegistryInv'
<1>1. /\ work[t] = Idle /\ Overlap(t, "init") /\ UNCHANGED <<taskVars, launch>>
  BY DEF BinaryLoad, Free, launchVars
<1>2. /\ overlapped \subseteq overlapped'
      /\ \A u \in Threads : work[u].at = "init" =>
            work[u].load \in overlapped' /\ loads + 1 \in overlapped'
  BY <1>1, WorkFacts DEF Overlap, Together
<1>3. AtOnce(h, "acl")
  BY <1>2 DEF BinaryLoad, AtOnce, Stored
<1> QED BY <1>1, <1>2, <1>3, AtOnceKeeps

\* A registration ends: its handle is still from now on.
LEMMA EndsWork ==
    ASSUME RegistryInv, NEW t \in Threads, work[t].at # "idle", work' = [work EXCEPT ![t] = Idle],
           UNCHANGED <<lib, kind, loads, currentRegId_, overlapped, hdlToRegId_>>,
           Len(registerEvents_') = Len(registerEvents_) \/ work[t].at = "push"
    PROVE  /\ work' \in [Threads -> Work] /\ Others(t) /\ work'[t] = Idle
           /\ \A u \in Threads : WorkInv(u)'
           /\ \A x \in Handles : Still(x)' <=> Still(x) \/ x = work[t].h
           /\ work[t].h \in Handles /\ lib[work[t].h] = work[t].load /\ work[t].load # 0
           /\ work[t].at = "push" <=> kind[work[t].h] # "acl"
           /\ ~Still(work[t].h)
           /\ \A k \in Kernels : <<work[t].h, k>> \notin held
           /\ \A k \in Kernels : stubs[k] # work[t].h
<1>0. TypeOK /\ (\A u \in Threads : WorkInv(u)) /\ NoHandle \notin Handles
  BY KernelRegistryAssumption DEF RegistryInv
<1>1. work' \in [Threads -> Work] /\ work'[t] = Idle /\ Others(t)
  BY <1>0, WorkFacts, WorkEffect
<1>2. work'[t].at = "idle" /\ work'[t].h = NoHandle
  BY <1>1, WorkFacts
<1>3. PICK h \in Handles : h = work[t].h
  BY <1>0 DEF WorkInv
<1>4. ASSUME NEW u \in Threads PROVE WorkInv(u)'
  <2>1. CASE u = t
    BY <1>0, <1>1, <1>2, <2>1 DEF WorkInv, Others
  <2>2. CASE u # t
    <3>1. work'[u] = work[u] /\ WorkInv(u)
      BY <1>0, <1>1, <2>2 DEF Others
    <3>2. \A v \in Threads : v # u /\ work'[v].h = work[u].h => work[u].h = NoHandle
      BY <1>1, <1>2, <3>1 DEF WorkInv, Others
    <3>3. work[u].at \in {"init", "push"} =>
             \A v \in Threads : v # u /\ work'[v].at = work[u].at => work[u].load \in overlapped
      BY <1>1, <1>2, <3>1 DEF WorkInv, Others
    <3>4. work[u].at = "push" => \/ hdlToRegId_[work[u].h] = Len(registerEvents_') + 1
                                 \/ work[u].load \in overlapped
      BY <2>2, <3>1 DEF WorkInv
    <3> QED BY <3>1, <3>2, <3>3, <3>4 DEF WorkInv
  <2> QED BY <2>1, <2>2
<1>5. \A x \in Handles : Still(x)' <=> Still(x) \/ x = h
  BY <1>0, <1>1, <1>2, <1>3 DEF Still, WorkInv, Others
<1>6. lib[h] = work[t].load /\ work[t].load # 0 /\ (work[t].at = "push" <=> kind[h] # "acl") /\ ~Still(h)
  BY <1>0, <1>3 DEF WorkInv, Still
<1>7. /\ \A k \in Kernels : <<h, k>> \notin held
      /\ \A k \in Kernels : stubs[k] # h
  BY <1>0, <1>6 DEF RegistryInv, ContextInv, StubInv
<1> QED BY <1>1, <1>3, <1>4, <1>5, <1>6, <1>7

\* The binary cannot be read.
LEMMA AclInitFailsKeeps ==
    ASSUME RegistryInv, NEW t \in Threads, AclInitFails(t) PROVE RegistryInv'
<1>0. /\ TypeOK /\ (\A x \in Handles : ContextInv(x) /\ EventInv(x)) /\ \A k \in Kernels : StubInv(k)
      /\ \A k \in Kernels : stubs[k] \in Handles \cup {NoHandle}
  BY DEF RegistryInv, TypeOK, FuncType
<1>1. /\ work[t].at = "init" /\ unread' = unread \cup {work[t].load} /\ work' = [work EXCEPT ![t] = Idle]
      /\ UNCHANGED <<lib, kind, loads, currentRegId_, contexts_, overlapped, held, funcs, stubs, stubInfo_>>
      /\ UNCHANGED <<registerEvents_, hdlToRegId_, taskPool_, made, orphaned, launch, taskVars>>
  BY DEF AclInitFails, funcVars, rtVars, taskVars, launchVars
<1>2. /\ work' \in [Threads -> Work] /\ Others(t) /\ work'[t] = Idle
      /\ \A u \in Threads : WorkInv(u)'
      /\ \A x \in Handles : Still(x)' <=> Still(x) \/ x = work[t].h
      /\ lib[work[t].h] = work[t].load
      /\ kind[work[t].h] = "acl"
      /\ ~Still(work[t].h)
      /\ \A k \in Kernels : <<work[t].h, k>> \notin held
      /\ \A k \in Kernels : stubs[k] # work[t].h
  BY <1>1, EndsWork
<1>3. TypeOK'
  BY <1>0, <1>1, <1>2 DEF TypeOK, LoadType, FuncType, RtType, TaskType, LaunchType
<1>4. \A x \in Handles : ContextInv(x)'
  BY <1>0, <1>1, <1>2 DEF ContextInv
<1>5. \A x \in Handles : EventInv(x)'
  BY <1>0, <1>1, <1>2 DEF EventInv
<1>6. \A k \in Kernels : StubInv(k)'
  BY <1>0, <1>1, <1>2 DEF StubInv
<1>7. EventsGrow /\ HistoryGrows
  BY <1>1 DEF EventsGrow, HistoryGrows
<1>8. /\ \A u \in Threads : \A key \in DOMAIN taskPool_'[u] : TaskInv(u, key)'
      /\ OwnInv' /\ RunsOwnCopy' /\ FindsOwnBinary'
      /\ \A u \in Threads : LaunchInv(u)'
      /\ \A i \in DOMAIN registerEvents_' : StubBinInv(i)'
  BY <1>1, <1>7, TasksStay
<1>9. NumberInv'
  <2>1. \A i, n : Numbered(i, n)' <=> Numbered(i, n)
    BY <1>1, NumberedSame
  <2>2. \A i, n : Numbering(i, n)' => Numbering(i, n)
    BY <1>2, WorkFacts DEF Numbering, Others
  <2> QED BY <1>1, <2>1, <2>2, NumberSame DEF Pair, RegistryInv, NumberInv
<1> QED BY <1>2, <1>3, <1>4, <1>5, <1>6, <1>8, <1>9 DEF RegistryInv

\* The next number: those that were read are smaller now.
LEMMA AclInitKeeps ==
    ASSUME RegistryInv, NEW t \in Threads, AclInit(t) PROVE RegistryInv'
<1>0. /\ TypeOK /\ (\A x \in Handles : ContextInv(x) /\ EventInv(x)) /\ (\A k \in Kernels : StubInv(k))
      /\ currentRegId_ \in Nat \ {0} /\ currentRegId_ + 1 \in Nat \ {0}
      /\ (\A u \in Threads : WorkInv(u)) /\ work[t] \in Work
      /\ \A k \in Kernels : stubs[k] \in Handles \cup {NoHandle}
  BY DEF RegistryInv, TypeOK, LoadType, FuncType
<1>1. /\ work[t].at = "init" /\ currentRegId_' = currentRegId_ + 1
      /\ work' = [work EXCEPT ![t] = [work[t] EXCEPT !.at = "store"]]
      /\ UNCHANGED <<lib, kind, loads, contexts_, overlapped, unread, held, funcs, stubs, stubInfo_>>
      /\ UNCHANGED <<registerEvents_, hdlToRegId_, taskPool_, made, orphaned, launch, taskVars>>
  BY DEF AclInit, funcVars, rtVars, taskVars, launchVars
<1>2. PICK w \in Work : /\ w = [work[t] EXCEPT !.at = "store"] /\ w.at = "store" /\ w.h = work[t].h
                        /\ w.id = work[t].id /\ w.load = work[t].load
  <2>1. [work[t] EXCEPT !.at = "store"] \in Work
    BY <1>0 DEF Work
  <2> QED BY <1>0, <2>1 DEF Work
<1>3. work' \in [Threads -> Work] /\ work'[t] = w /\ Others(t)
  BY <1>0, <1>1, <1>2, WorkEffect
<1>4. TypeOK'
  BY <1>0, <1>1, <1>3 DEF TypeOK, LoadType, FuncType, RtType, TaskType, LaunchType
<1>5. ASSUME NEW u \in Threads PROVE WorkInv(u)'
  <2>1. work[u].id \in Nat /\ WorkInv(u) /\ WorkInv(t)
    BY <1>0 DEF TypeOK, LoadType, Work
  <2>2. CASE u = t
    BY <1>0, <1>1, <1>2, <1>3, <2>1, <2>2 DEF WorkInv, Others
  <2>3. CASE u # t
    <3>1. work'[u] = work[u]
      BY <1>3, <2>3 DEF Others
    <3>2. \A v \in Threads : v # u /\ work'[v].h = work[u].h => work[u].h = NoHandle
      BY ZenonT(30), <1>2, <1>3, <2>1 DEF WorkInv, Others
    <3>3. work[u].at \in {"init", "push"} =>
             \A v \in Threads : v # u /\ work'[v].at = work[u].at => work[u].load \in overlapped
      BY <1>2, <1>3, <2>1 DEF WorkInv, Others
    <3>4. /\ work[u].at = "init" => work[u].id # 0 /\ work[u].id <= currentRegId_'
          /\ work[u].at = "store" => work[u].id # 0 /\ work[u].id < currentRegId_'
      BY <1>0, <1>1, <2>1 DEF WorkInv
    <3>5. /\ work[u].at = "idle" => work[u].h = NoHandle
          /\ work[u].at # "idle" =>
                /\ work[u].h \in Handles /\ lib[work[u].h] = work[u].load /\ work[u].load # 0
                /\ work[u].at = "push" <=> kind[work[u].h] # "acl"
          /\ work[u].at = "push" => \/ hdlToRegId_[work[u].h] = Len(registerEvents_) + 1
                                    \/ work[u].load \in overlapped
      BY <2>1 DEF WorkInv
    <3>6. UNCHANGED <<lib, kind, hdlToRegId_, registerEvents_, overlapped>>
      BY <1>1
    <3> QED BY <3>1, <3>2, <3>3, <3>4, <3>5, <3>6 DEF WorkInv
  <2> QED BY <2>2, <2>3
<1>6. \A x \in Handles : Still(x)' <=> Still(x)
  BY <1>2, <1>3 DEF Still, Others
<1>7. ASSUME NEW x \in Handles PROVE ContextInv(x)'
  <2>1. contexts_[x].id \in Nat /\ \A k \in Kernels : funcs[<<x, k>>].id \in Nat
    BY <1>0 DEF TypeOK, LoadType, FuncType, Ctx
  <2>2. ContextInv(x) /\ contexts_[x].id < currentRegId_' /\ \A k \in Kernels : funcs[<<x, k>>].id < currentRegId_'
    BY <1>0, <1>1, <2>1 DEF ContextInv
  <2> QED BY <1>1, <1>6, <2>2 DEF ContextInv
<1>8. \A x \in Handles : EventInv(x)'
  BY <1>0, <1>1, <1>6 DEF EventInv
<1>9. \A k \in Kernels : StubInv(k)'
  BY <1>0, <1>1, <1>6 DEF StubInv
<1>10. EventsGrow /\ HistoryGrows
  BY <1>1 DEF EventsGrow, HistoryGrows
<1>11. /\ \A u \in Threads : \A key \in DOMAIN taskPool_'[u] : TaskInv(u, key)'
       /\ OwnInv' /\ RunsOwnCopy' /\ FindsOwnBinary'
       /\ \A u \in Threads : LaunchInv(u)'
       /\ \A i \in DOMAIN registerEvents_' : StubBinInv(i)'
  BY <1>1, <1>10, TasksStay
<1>12. NumberInv'
  <2>1. \A i, n : Numbered(i, n)' <=> Numbered(i, n)
    BY <1>1, NumberedSame
  <2>2. \A i, n : Numbering(i, n)' => Numbering(i, n)
    BY <1>1, <1>2, <1>3 DEF Numbering, Others
  <2>3. \A i \in Nat \ {0}, n \in Nat : Numbered(i, n)' => i < currentRegId_'
    BY <1>0, <1>1, <2>1 DEF RegistryInv, NumberInv
  <2> QED BY <1>1, <2>1, <2>2, <2>3, NumberSame DEF Pair
<1> QED BY <1>4, <1>5, <1>7, <1>8, <1>9, <1>11, <1>12 DEF RegistryInv

\* The context is stored under its handle.
LEMMA AclStoreKeeps ==
    ASSUME RegistryInv, NEW t \in Threads, AclStore(t) PROVE RegistryInv'
<1>0. /\ TypeOK /\ (\A x \in Handles : ContextInv(x) /\ EventInv(x)) /\ (\A k \in Kernels : StubInv(k))
      /\ WorkInv(t) /\ work[t].id \in Nat /\ work[t].load \in Nat
      /\ \A k \in Kernels : stubs[k] \in Handles \cup {NoHandle}
  BY DEF RegistryInv, TypeOK, LoadType, FuncType, Work
<1>1. /\ work[t].at = "store" /\ work' = [work EXCEPT ![t] = Idle]
      /\ contexts_' = [contexts_ EXCEPT ![work[t].h] = [id |-> work[t].id, load |-> work[t].load]]
      /\ UNCHANGED <<lib, kind, loads, currentRegId_, overlapped, unread, held, funcs, stubs, stubInfo_>>
      /\ UNCHANGED <<registerEvents_, hdlToRegId_, taskPool_, made, orphaned, launch, taskVars>>
  BY DEF AclStore, Stored, funcVars, rtVars, taskVars, launchVars
<1>2. /\ work' \in [Threads -> Work] /\ Others(t) /\ work'[t] = Idle
      /\ \A u \in Threads : WorkInv(u)'
      /\ \A x \in Handles : Still(x)' <=> Still(x) \/ x = work[t].h
      /\ work[t].h \in Handles /\ lib[work[t].h] = work[t].load
      /\ kind[work[t].h] = "acl"
      /\ ~Still(work[t].h)
      /\ \A k \in Kernels : <<work[t].h, k>> \notin held
      /\ \A k \in Kernels : stubs[k] # work[t].h
  BY <1>1, EndsWork
<1>3. PICK w \in Ctx : /\ w = [id |-> work[t].id, load |-> work[t].load]
                       /\ w.id = work[t].id /\ w.load = work[t].load
  <2>1. [id |-> work[t].id, load |-> work[t].load] \in Ctx
    BY <1>0 DEF Ctx
  <2> QED BY <2>1
<1>4. w.id # 0 /\ w.id < currentRegId_ /\ w # NoCtx
  BY <1>0, <1>1, <1>3, WorkFacts DEF WorkInv
<1>5. /\ contexts_' \in [Handles -> Ctx] /\ contexts_'[work[t].h] = w
      /\ \A x \in Handles : x # work[t].h => contexts_'[x] = contexts_[x]
  BY <1>0, <1>1, <1>2, <1>3 DEF TypeOK, LoadType
<1>6. TypeOK'
  BY <1>0, <1>1, <1>2, <1>5 DEF TypeOK, LoadType, FuncType, RtType, TaskType, LaunchType
<1>7. ASSUME NEW x \in Handles PROVE ContextInv(x)'
  <2>1. CASE x = work[t].h
    BY <1>0, <1>1, <1>2, <1>3, <1>4, <1>5, <2>1 DEF ContextInv
  <2>2. CASE x # work[t].h
    BY <1>0, <1>1, <1>2, <1>5, <2>2 DEF ContextInv
  <2> QED BY <2>1, <2>2
<1>8. \A x \in Handles : EventInv(x)'
  BY <1>0, <1>1, <1>2 DEF EventInv
<1>9. \A k \in Kernels : StubInv(k)'
  BY <1>0, <1>1, <1>2 DEF StubInv
<1>10. EventsGrow /\ HistoryGrows
  BY <1>1 DEF EventsGrow, HistoryGrows
<1>11. /\ \A u \in Threads : \A key \in DOMAIN taskPool_'[u] : TaskInv(u, key)'
       /\ OwnInv' /\ RunsOwnCopy' /\ FindsOwnBinary'
       /\ \A u \in Threads : LaunchInv(u)'
       /\ \A i \in DOMAIN registerEvents_' : StubBinInv(i)'
  BY <1>1, <1>10, TasksStay
<1>12. NumberInv'
  <2>1. \A i, n : Numbered(i, n)' => Numbered(i, n) \/ (i = w.id /\ n = w.load)
    BY SMTT(30), <1>1, <1>5 DEF Numbered, InContexts, InFuncs, InLaunches, InTasks
  <2>2. Numbering(w.id, w.load)
    BY <1>1, <1>3 DEF Numbering
  <2>3. \A i, n : Numbering(i, n)' => Numbering(i, n)
    BY <1>2, WorkFacts DEF Numbering, Others
  <2>4. \A i \in Nat \ {0}, n \in Nat : Numbered(i, n)' => i < currentRegId_'
    BY <1>1, <1>4, <2>1 DEF RegistryInv, NumberInv
  <2>5. \A i \in Nat \ {0}, n \in Nat : Pair(i, n)' => Pair(i, n)
    BY <2>1, <2>2, <2>3 DEF Pair
  <2> QED BY <1>1, <2>4, <2>5, NumberSame
<1> QED BY <1>2, <1>6, <1>7, <1>8, <1>9, <1>11, <1>12 DEF RegistryInv

\* The event is appended: at the index that was named for it, unless another came
\* between.
LEMMA PushEventKeeps ==
    ASSUME RegistryInv, NEW t \in Threads, PushEvent(t) PROVE RegistryInv'
<1>0. /\ TypeOK /\ (\A x \in Handles : ContextInv(x) /\ EventInv(x)) /\ (\A k \in Kernels : StubInv(k))
      /\ WorkInv(t) /\ work[t].load \in Nat /\ registerEvents_ \in Seq(Event)
      /\ \A k \in Kernels : stubs[k] \in Handles \cup {NoHandle}
  BY DEF RegistryInv, TypeOK, LoadType, FuncType, RtType, Work
<1>1. /\ work[t].at = "push" /\ work' = [work EXCEPT ![t] = Idle]
      /\ registerEvents_' = Append(registerEvents_, [load |-> work[t].load, stub |-> 0])
      /\ UNCHANGED <<lib, kind, loads, currentRegId_, contexts_, overlapped, unread, held, funcs, stubs,
                     stubInfo_, hdlToRegId_, taskPool_, made, orphaned, launch, taskVars>>
  BY DEF PushEvent, funcVars, taskVars, launchVars
<1>2. /\ work' \in [Threads -> Work] /\ Others(t) /\ work'[t] = Idle
      /\ \A u \in Threads : WorkInv(u)'
      /\ \A x \in Handles : Still(x)' <=> Still(x) \/ x = work[t].h
      /\ work[t].h \in Handles /\ lib[work[t].h] = work[t].load
      /\ kind[work[t].h] # "acl"
      /\ ~Still(work[t].h)
      /\ \A k \in Kernels : <<work[t].h, k>> \notin held
      /\ \A k \in Kernels : stubs[k] # work[t].h
  BY <1>1, EndsWork
<1>3. PICK w \in Event : /\ w = [load |-> work[t].load, stub |-> 0] /\ w.load = work[t].load /\ w.stub = 0
  <2>1. [load |-> work[t].load, stub |-> 0] \in Event
    BY <1>0 DEF Event
  <2> QED BY <2>1
<1>4. registerEvents_' = Append(registerEvents_, w)
  BY <1>1, <1>3
<1>5. /\ registerEvents_' \in Seq(Event) /\ Len(registerEvents_) \in Nat
      /\ DOMAIN registerEvents_ = 1..Len(registerEvents_)
      /\ DOMAIN registerEvents_' = 1..(Len(registerEvents_) + 1)
      /\ registerEvents_'[Len(registerEvents_) + 1] = w
      /\ \A i \in DOMAIN registerEvents_ : registerEvents_'[i] = registerEvents_[i]
  BY <1>0, <1>4
<1>6. TypeOK'
  BY <1>0, <1>1, <1>2, <1>5 DEF TypeOK, LoadType, FuncType, RtType, TaskType, LaunchType
<1>7. \A x \in Handles : ContextInv(x)'
  BY <1>0, <1>1, <1>2 DEF ContextInv
<1>8. EventsGrow /\ HistoryGrows
  BY <1>1, <1>5 DEF EventsGrow, HistoryGrows
<1>9. ASSUME NEW x \in Handles PROVE EventInv(x)'
  <2>1. CASE x = work[t].h
    <3>1. hdlToRegId_[x] = Len(registerEvents_) + 1 \/ lib[x] \in overlapped
      BY <1>0, <1>1, <1>2, <2>1 DEF WorkInv
    <3> QED BY <1>1, <1>2, <1>3, <1>5, <2>1, <3>1 DEF EventInv
  <2>2. CASE x # work[t].h
    BY <1>0, <1>1, <1>2, <1>8, <2>2 DEF EventInv, EventsGrow
  <2> QED BY <2>1, <2>2
<1>10. \A k \in Kernels : StubInv(k)'
  BY <1>0, <1>1, <1>2 DEF StubInv
<1>11. \A i \in DOMAIN registerEvents_' :
          registerEvents_'[i].stub = 0 \/ (i \in DOMAIN registerEvents_ /\ registerEvents_'[i] = registerEvents_[i])
  BY <1>3, <1>5
<1>12. /\ \A u \in Threads : \A key \in DOMAIN taskPool_'[u] : TaskInv(u, key)'
       /\ OwnInv' /\ RunsOwnCopy' /\ FindsOwnBinary'
       /\ \A u \in Threads : LaunchInv(u)'
       /\ \A i \in DOMAIN registerEvents_' : StubBinInv(i)'
  BY <1>1, <1>8, <1>11, TasksStay
<1>13. NumberInv'
  <2>1. \A i, n : Numbered(i, n)' <=> Numbered(i, n)
    BY <1>1, NumberedSame
  <2>2. \A i, n : Numbering(i, n)' => Numbering(i, n)
    BY <1>2, WorkFacts DEF Numbering, Others
  <2> QED BY <1>1, <2>1, <2>2, NumberSame DEF Pair, RegistryInv, NumberInv
<1> QED BY <1>2, <1>6, <1>7, <1>9, <1>10, <1>12, <1>13 DEF RegistryInv

\* An unload takes the handle from the functions and the stub functions with it.
LEMMA UnloadKeeps ==
    ASSUME RegistryInv, NEW t \in Threads, NEW h \in Handles, Unload(t, h) PROVE RegistryInv'
<1>0. /\ TypeOK /\ (\A x \in Handles : ContextInv(x) /\ EventInv(x)) /\ (\A k \in Kernels : StubInv(k))
      /\ (\A u \in Threads : WorkInv(u)) /\ NoHandle \notin Handles
      /\ (\A k \in Kernels : stubs[k] \in Handles \cup {NoHandle}) /\ held \subseteq Handles \X Kernels
  BY KernelRegistryAssumption DEF RegistryInv, TypeOK, FuncType
<1>1. /\ lib' = [lib EXCEPT ![h] = 0] /\ held' = {f \in held : f[1] # h}
      /\ stubs' = [k \in Kernels |-> IF stubs[k] = h THEN NoHandle ELSE stubs[k]] /\ Still(h)
      /\ UNCHANGED <<kind, loads, work, currentRegId_, contexts_, overlapped, unread, funcs, stubInfo_>>
      /\ UNCHANGED <<registerEvents_, hdlToRegId_, taskPool_, made, orphaned, launch, taskVars>>
  BY DEF Unload, Still, rtVars, taskVars, launchVars
<1>2. /\ lib' \in [Handles -> Nat] /\ lib'[h] = 0 /\ \A x \in Handles : x # h => lib'[x] = lib[x]
  BY <1>0, <1>1 DEF TypeOK, LoadType
<1>3. /\ held' \subseteq Handles \X Kernels
      /\ \A x \in Handles, k \in Kernels : <<x, k>> \in held' => <<x, k>> \in held /\ x # h
  BY <1>0, <1>1
<1>4. /\ stubs' \in [Kernels -> Handles \cup {NoHandle}]
      /\ \A k \in Kernels : stubs'[k] # NoHandle => stubs'[k] = stubs[k] /\ stubs[k] # h /\ stubs[k] \in Handles
  BY <1>0, <1>1
<1>5. TypeOK'
  BY <1>0, <1>1, <1>2, <1>3, <1>4 DEF TypeOK, LoadType, FuncType, RtType, TaskType, LaunchType
<1>6. ASSUME NEW u \in Threads PROVE WorkInv(u)'
  <2>1. WorkInv(u) /\ work[u].h # h
    BY <1>0, <1>1 DEF Still
  <2>2. work[u].at # "idle" => lib'[work[u].h] = work[u].load
    BY <1>2, <2>1 DEF WorkInv
  <2> QED BY <1>1, <2>1, <2>2 DEF WorkInv
<1>7. \A x \in Handles : Still(x)' <=> Still(x)
  BY <1>1 DEF Still
<1>8. ASSUME NEW x \in Handles PROVE ContextInv(x)'
  BY <1>0, <1>1, <1>2, <1>3, <1>7 DEF ContextInv
<1>9. \A x \in Handles : EventInv(x)'
  BY <1>0, <1>1, <1>2, <1>7 DEF EventInv
<1>10. \A k \in Kernels : StubInv(k)'
  BY <1>0, <1>1, <1>2, <1>4, <1>7 DEF StubInv
<1>11. EventsGrow /\ HistoryGrows
  BY <1>1 DEF EventsGrow, HistoryGrows
<1>12. /\ \A u \in Threads : \A key \in DOMAIN taskPool_'[u] : TaskInv(u, key)'
       /\ OwnInv' /\ RunsOwnCopy' /\ FindsOwnBinary'
       /\ \A u \in Threads : LaunchInv(u)'
       /\ \A i \in DOMAIN registerEvents_' : StubBinInv(i)'
  BY <1>1, <1>11, TasksStay
<1>13. NumberInv'
  <2>1. \A i, n : Numbered(i, n)' <=> Numbered(i, n)
    BY <1>1, NumberedSame
  <2>2. \A i, n : Numbering(i, n)' <=> Numbering(i, n)
    BY <1>1 DEF Numbering
  <2> QED BY <1>1, <2>1, <2>2, NumberSame DEF Pair, RegistryInv, NumberInv
<1> QED BY <1>5, <1>6, <1>8, <1>9, <1>10, <1>12, <1>13 DEF RegistryInv

-----------------------------------------------------------------------------
(* Functions.                                                              *)

\* A function gets the context its binary has now.
LEMMA GetFunctionKeeps ==
    ASSUME RegistryInv, NEW t \in Threads, NEW h \in Handles, NEW k \in Kernels, GetFunction(t, h, k)
    PROVE  RegistryInv'
<1>0. /\ TypeOK /\ (\A x \in Handles : ContextInv(x) /\ EventInv(x)) /\ (\A x \in Kernels : StubInv(x))
      /\ (\A u \in Threads : WorkInv(u)) /\ contexts_[h] \in Ctx
  BY DEF RegistryInv, TypeOK, LoadType
<1>1. /\ lib[h] # 0 /\ kind[h] = "acl" /\ Still(h) /\ held' = held \cup {<<h, k>>}
      /\ funcs' = IF contexts_[h] = NoCtx THEN funcs ELSE [funcs EXCEPT ![<<h, k>>] = contexts_[h]]
      /\ UNCHANGED <<lib, kind, loads, work, currentRegId_, contexts_, overlapped, unread, stubs, stubInfo_>>
      /\ UNCHANGED <<registerEvents_, hdlToRegId_, taskPool_, made, orphaned, launch, taskVars>>
  BY DEF GetFunction, Ready, Still, loadVars, rtVars, taskVars, launchVars
<1>2. /\ funcs' \in [Handles \X Kernels -> Ctx]
      /\ funcs'[<<h, k>>] = IF contexts_[h] = NoCtx THEN funcs[<<h, k>>] ELSE contexts_[h]
      /\ \A x \in Handles, y \in Kernels : x # h \/ y # k => funcs'[<<x, y>>] = funcs[<<x, y>>]
  BY <1>0, <1>1 DEF TypeOK, FuncType
<1>3. TypeOK'
  <2>1. held' \subseteq Handles \X Kernels
    BY <1>0, <1>1 DEF TypeOK, FuncType
  <2> QED BY <1>0, <1>1, <1>2, <2>1 DEF TypeOK, LoadType, FuncType, RtType, TaskType, LaunchType
<1>4. \A u \in Threads : WorkInv(u)'
  BY <1>0, <1>1 DEF WorkInv
<1>5. \A x \in Handles : Still(x)' <=> Still(x)
  BY <1>1 DEF Still
<1>6. ASSUME NEW x \in Handles PROVE ContextInv(x)'
  <2>1. ASSUME NEW y \in Kernels
        PROVE  /\ funcs'[<<x, y>>].id = 0 => funcs'[<<x, y>>] = NoCtx
               /\ funcs'[<<x, y>>].id < currentRegId_
               /\ contexts_[x] = NoCtx => funcs'[<<x, y>>] = NoCtx
               /\ <<x, y>> \in held' =>
                     /\ lib[x] # 0 /\ kind[x] = "acl" /\ Still(x)
                     /\ funcs'[<<x, y>>] = NoCtx \/ funcs'[<<x, y>>].load = lib[x] \/ lib[x] \in unread
    <3>1. CASE x = h /\ y = k
      <4>1. ContextInv(h)
        BY <1>0
      <4>2. CASE contexts_[h] = NoCtx
        <5>1. funcs'[<<x, y>>] = NoCtx
          BY <1>2, <3>1, <4>1, <4>2 DEF ContextInv
        <5>2. 0 < currentRegId_
          BY <1>0 DEF TypeOK, LoadType
        <5> QED BY <1>1, <3>1, <5>1, <5>2, WorkFacts
      <4>3. CASE contexts_[h] # NoCtx
        BY <1>1, <1>2, <3>1, <4>1, <4>3 DEF ContextInv
      <4> QED BY <4>2, <4>3
    <3>2. CASE x # h \/ y # k
      <4>1. ContextInv(x) /\ funcs'[<<x, y>>] = funcs[<<x, y>>]
        BY <1>0, <1>2, <3>2
      <4>2. <<x, y>> \in held' => <<x, y>> \in held
        BY <1>1, <3>2
      <4> QED BY <4>1, <4>2 DEF ContextInv
    <3> QED BY <3>1, <3>2
  <2>2. ContextInv(x)
    BY <1>0
  <2> QED BY <1>1, <1>5, <2>1, <2>2 DEF ContextInv
<1>7. \A x \in Handles : EventInv(x)'
  BY <1>0, <1>1, <1>5 DEF EventInv
<1>8. \A x \in Kernels : StubInv(x)'
  BY <1>0, <1>1 DEF StubInv, Still
<1>9. EventsGrow /\ HistoryGrows
  BY <1>1 DEF EventsGrow, HistoryGrows
<1>10. /\ \A u \in Threads : \A key \in DOMAIN taskPool_'[u] : TaskInv(u, key)'
       /\ OwnInv' /\ RunsOwnCopy' /\ FindsOwnBinary'
       /\ \A u \in Threads : LaunchInv(u)'
       /\ \A i \in DOMAIN registerEvents_' : StubBinInv(i)'
  BY <1>1, <1>9, TasksStay
<1>11. NumberInv'
  <2>1. \A i, n : Numbered(i, n)' => Numbered(i, n)
    <3>1. \A x \in Handles, y \in Kernels : funcs'[<<x, y>>] = funcs[<<x, y>>] \/ funcs'[<<x, y>>] = contexts_[x]
      BY <1>2
    <3>2. ASSUME NEW i, NEW n, InFuncs(i, n)' PROVE InFuncs(i, n) \/ InContexts(i, n)
      <4>1. PICK x \in Handles, y \in Kernels : funcs'[<<x, y>>].id = i /\ funcs'[<<x, y>>].load = n
        BY <3>2 DEF InFuncs
      <4>2. \/ funcs[<<x, y>>].id = i /\ funcs[<<x, y>>].load = n
            \/ contexts_[x].id = i /\ contexts_[x].load = n
        BY <3>1, <4>1
      <4> QED BY <4>2 DEF InFuncs, InContexts
    <3>3. \A i, n : /\ InContexts(i, n)' => InContexts(i, n)
                    /\ InLaunches(i, n)' => InLaunches(i, n)
                    /\ InTasks(i, n)' => InTasks(i, n)
      BY <1>1 DEF InContexts, InLaunches, InTasks
    <3> QED BY <3>2, <3>3 DEF Numbered
  <2>2. \A i, n : Numbering(i, n)' <=> Numbering(i, n)
    BY <1>1 DEF Numbering
  <2> QED BY <1>1, <2>1, <2>2, NumberSame DEF Pair, RegistryInv, NumberInv
<1> QED BY <1>3, <1>4, <1>6, <1>7, <1>8, <1>10, <1>11 DEF RegistryInv

\* rtFunctionRegister keeps the first handle of a stub function.
LEMMA FunctionRegisterKeeps ==
    ASSUME RegistryInv, NEW t \in Threads, NEW h \in Handles, NEW k \in Kernels, FunctionRegister(t, h, k)
    PROVE  RegistryInv'
<1>0. /\ TypeOK /\ (\A x \in Handles : ContextInv(x) /\ EventInv(x)) /\ (\A x \in Kernels : StubInv(x))
      /\ (\A u \in Threads : WorkInv(u)) /\ NoHandle \notin Handles
  BY KernelRegistryAssumption DEF RegistryInv
<1>1. /\ lib[h] # 0 /\ kind[h] = "dev" /\ Still(h) /\ stubs' = [stubs EXCEPT ![k] = h]
      /\ stubInfo_' = IF stubInfo_[k] = NoHandle THEN [stubInfo_ EXCEPT ![k] = h] ELSE stubInfo_
      /\ UNCHANGED <<lib, kind, loads, work, currentRegId_, contexts_, overlapped, unread, held, funcs>>
      /\ UNCHANGED <<registerEvents_, hdlToRegId_, taskPool_, made, orphaned, launch, taskVars>>
  BY DEF FunctionRegister, Ready, Still, loadVars, rtVars, taskVars, launchVars
<1>2. /\ stubs' \in [Kernels -> Handles \cup {NoHandle}] /\ stubs'[k] = h
      /\ \A x \in Kernels : x # k => stubs'[x] = stubs[x]
      /\ stubInfo_' \in [Kernels -> Handles \cup {NoHandle}]
      /\ \A x \in Kernels : stubInfo_[x] # NoHandle => stubInfo_'[x] = stubInfo_[x]
  BY <1>0, <1>1 DEF TypeOK, FuncType
<1>3. TypeOK'
  BY <1>0, <1>1, <1>2 DEF TypeOK, LoadType, FuncType, RtType, TaskType, LaunchType
<1>4. \A u \in Threads : WorkInv(u)'
  BY <1>0, <1>1 DEF WorkInv
<1>5. \A x \in Handles : Still(x)' <=> Still(x)
  BY <1>1 DEF Still
<1>6. \A x \in Handles : ContextInv(x)' /\ EventInv(x)'
  BY <1>0, <1>1, <1>5 DEF ContextInv, EventInv
<1>7. \A x \in Kernels : StubInv(x)'
  BY <1>0, <1>1, <1>2 DEF StubInv, Still
<1>8. EventsGrow /\ HistoryGrows
  BY <1>1 DEF EventsGrow, HistoryGrows
<1>9. /\ \A u \in Threads : \A key \in DOMAIN taskPool_'[u] : TaskInv(u, key)'
      /\ OwnInv' /\ RunsOwnCopy' /\ FindsOwnBinary'
      /\ \A u \in Threads : LaunchInv(u)'
      /\ \A i \in DOMAIN registerEvents_' : StubBinInv(i)'
  BY <1>1, <1>2, <1>8, TasksStay
<1>10. NumberInv'
  <2>1. \A i, n : Numbered(i, n)' <=> Numbered(i, n)
    BY <1>1, NumberedSame
  <2>2. \A i, n : Numbering(i, n)' <=> Numbering(i, n)
    BY <1>1 DEF Numbering
  <2> QED BY <1>1, <2>1, <2>2, NumberSame DEF Pair, RegistryInv, NumberInv
<1> QED BY <1>3, <1>4, <1>6, <1>7, <1>9, <1>10 DEF RegistryInv

-----------------------------------------------------------------------------
(* Launches.                                                               *)

\* The launch of one thread changes and nothing else does.
LEMMA LaunchChanges ==
    ASSUME RegistryInv, NEW t \in Threads, NEW l \in Launch, launch' = [launch EXCEPT ![t] = l],
           UNCHANGED <<loadVars, funcVars, rtVars, taskPool_, made, orphaned>>,
           LaunchInv(t)', RunsOwn(t)', FindsOwn(t)',
           l.how = "acl" /\ l.ctx.id # 0 => Numbered(l.ctx.id, l.ctx.load)
    PROVE  RegistryInv'
<1>1. /\ UNCHANGED <<lib, kind, loads, work, currentRegId_, contexts_, overlapped, unread>>
      /\ UNCHANGED <<held, funcs, stubs, stubInfo_, registerEvents_, hdlToRegId_, taskPool_, made, orphaned>>
      /\ launch' \in [Threads -> Launch] /\ launch'[t] = l /\ \A u \in Threads : u # t => launch'[u] = launch[u]
      /\ TypeOK
  BY DEF RegistryInv, TypeOK, LaunchType, loadVars, funcVars, rtVars
<1>2. TypeOK'
  BY <1>1 DEF TypeOK, LoadType, FuncType, RtType, TaskType, LaunchType
<1>3. EventsGrow /\ HistoryGrows /\ MadeGrows /\ Len(made') \in Nat
  BY <1>1 DEF EventsGrow, HistoryGrows, MadeGrows, TypeOK, TaskType
<1>4. /\ \A u \in Threads : WorkInv(u)'
      /\ \A h \in Handles : ContextInv(h)' /\ EventInv(h)'
      /\ \A k \in Kernels : StubInv(k)'
  BY <1>1, <1>3, TablesStay
<1>5. \A u \in Threads : LaunchInv(u)' /\ RunsOwn(u)' /\ FindsOwn(u)'
  BY <1>1, <1>3, LaunchKept
<1>6. ASSUME NEW u \in Threads, NEW key \in DOMAIN taskPool_'[u] PROVE TaskInv(u, key)'
  <2>1. TaskInv(u, key)
    BY <1>1, <1>6 DEF RegistryInv
  <2> QED BY <1>1, <2>1 DEF TaskInv
<1>7. OwnInv' /\ \A i \in DOMAIN registerEvents_' : StubBinInv(i)'
  BY <1>1 DEF RegistryInv, OwnInv, StubBinInv
<1>8. NumberInv'
  <2>1. ASSUME NEW i \in Nat \ {0}, NEW n \in Nat, Numbered(i, n)' PROVE Numbered(i, n)
    <3>1. CASE InLaunches(i, n)'
      <4>1. PICK u \in Threads : launch'[u].how = "acl" /\ launch'[u].ctx.id = i /\ launch'[u].ctx.load = n
        BY <3>1 DEF InLaunches
      <4>2. CASE u = t
        BY <1>1, <4>1, <4>2
      <4>3. CASE u # t
        BY <1>1, <4>1, <4>3 DEF Numbered, InLaunches
      <4> QED BY <4>2, <4>3
    <3>2. (InContexts(i, n)' => InContexts(i, n)) /\ (InFuncs(i, n)' => InFuncs(i, n)) /\ (InTasks(i, n)' => InTasks(i, n))
      BY <1>1 DEF InContexts, InFuncs, InTasks
    <3> QED BY <2>1, <3>1, <3>2 DEF Numbered
  <2>2. \A i, n : Numbering(i, n)' <=> Numbering(i, n)
    BY <1>1 DEF Numbering
  <2> QED BY <1>1, <2>1, <2>2, NumberSame DEF Pair, RegistryInv, NumberInv
<1> QED BY <1>2, <1>4, <1>5, <1>6, <1>7, <1>8, OwnEach DEF RegistryInv

\* What the tool finds for a launch that begins.
LEMMA BeginKeeps ==
    ASSUME RegistryInv, NEW t \in Threads, NEW how \in {"acl", "handle", "stub"}, NEW h \in Handles,
           NEW k \in Kernels, NEW ctx \in Ctx, Begin(t, how, h, k, ctx),
           ctx.id = 0 => ctx = NoCtx,
           how = "acl" /\ ctx # NoCtx => Numbered(ctx.id, ctx.load),
           how # "acl" /\ ctx # NoCtx =>
               ctx.id \in DOMAIN registerEvents_ /\ registerEvents_[ctx.id].load = ctx.load,
           how = "stub" /\ ctx # NoCtx => stubInfo_[k] # NoHandle,
           ctx # NoCtx => \/ ctx.load = lib[h]
                          \/ lib[h] \in unread \cup overlapped
                          \/ how = "stub" /\ stubInfo_[k] # h
    PROVE  RegistryInv'
<1>1. PICK l \in Launch : /\ l = [how |-> how, h |-> h, k |-> k, load |-> lib[h], ctx |-> ctx, tok |-> 0, stubbed |-> FALSE]
                          /\ l.how = how /\ l.h = h /\ l.k = k /\ l.load = lib[h] /\ l.ctx = ctx /\ l.tok = 0
  <2>1. [how |-> how, h |-> h, k |-> k, load |-> lib[h], ctx |-> ctx, tok |-> 0, stubbed |-> FALSE] \in Launch
    BY DEF RegistryInv, TypeOK, LoadType, Launch
  <2> QED BY <2>1
<1>2. /\ launch' = [launch EXCEPT ![t] = l] /\ UNCHANGED <<loadVars, funcVars, rtVars, taskPool_, made, orphaned>>
      /\ UNCHANGED <<overlapped, unread, stubInfo_, registerEvents_>>
  BY <1>1 DEF Begin, loadVars, funcVars, rtVars, taskVars
<1>3. launch'[t] = l /\ Len(made') \in Nat
  BY <1>2 DEF RegistryInv, TypeOK, LaunchType, TaskType
<1>4. LaunchInv(t)'
  BY <1>1, <1>2, <1>3 DEF LaunchInv
<1>5. RunsOwn(t)' /\ FindsOwn(t)'
  BY <1>1, <1>2, <1>3 DEF RunsOwn, FindsOwn
<1> QED BY <1>1, <1>2, <1>4, <1>5, LaunchChanges, WorkFacts

\* aclrt launches: the context of the function.
LEMMA LaunchFunctionKeeps ==
    ASSUME RegistryInv, NEW t \in Threads, NEW h \in Handles, NEW k \in Kernels, LaunchFunction(t, h, k)
    PROVE  RegistryInv'
<1>1. PICK ctx \in Ctx : ctx = funcs[<<h, k>>]
  BY DEF RegistryInv, TypeOK, FuncType
<1>2. Begin(t, "acl", h, k, ctx) /\ <<h, k>> \in held /\ ContextInv(h)
  BY <1>1 DEF LaunchFunction, RegistryInv
<1>3. (ctx.id = 0 => ctx = NoCtx) /\ (ctx # NoCtx => ctx.load = lib[h] \/ lib[h] \in unread)
  BY <1>1, <1>2 DEF ContextInv
<1>4. Numbered(ctx.id, ctx.load)
  BY <1>1 DEF Numbered, InFuncs
<1> QED BY <1>2, <1>3, <1>4, BeginKeeps

\* What KernelContext finds for a handle.
LEMMA RegisteredFacts ==
    ASSUME RegistryInv, NEW h \in Handles \cup {NoHandle}
    PROVE  /\ Registered(h) \in Ctx
           /\ Registered(h).id = 0 => Registered(h) = NoCtx
           /\ Registered(h) # NoCtx => /\ h \in Handles /\ Registered(h).id \in DOMAIN registerEvents_
                                       /\ registerEvents_[Registered(h).id].load = Registered(h).load
                                       /\ Registered(h).id = hdlToRegId_[h]
<1>1. registerEvents_ \in Seq(Event) /\ hdlToRegId_ \in [Handles -> Nat]
  BY DEF RegistryInv, TypeOK, RtType
<1>2. CASE h = NoHandle \/ hdlToRegId_[h] \notin DOMAIN registerEvents_
  BY <1>2, WorkFacts DEF Registered
<1>3. CASE h \in Handles /\ h # NoHandle /\ hdlToRegId_[h] \in DOMAIN registerEvents_
  <2>1. PICK i \in Nat \ {0} : i = hdlToRegId_[h] /\ i \in DOMAIN registerEvents_
    BY <1>1, <1>3
  <2>2. registerEvents_[i].load \in Nat
    <3>1. registerEvents_[i] \in Event
      BY <1>1, <2>1
    <3> QED BY <3>1 DEF Event
  <2>3. Registered(h) = [id |-> i, load |-> registerEvents_[i].load]
    BY <1>3, <2>1 DEF Registered
  <2> QED BY <1>3, <2>1, <2>2, <2>3 DEF Ctx
<1> QED BY <1>2, <1>3

\* rt launches by handle.
LEMMA LaunchHandleKeeps ==
    ASSUME RegistryInv, NEW t \in Threads, NEW h \in Handles, NEW k \in Kernels, LaunchHandle(t, h, k)
    PROVE  RegistryInv'
<1>1. PICK ctx \in Ctx : /\ ctx = Registered(h) /\ (ctx.id = 0 => ctx = NoCtx)
                         /\ ctx # NoCtx => /\ ctx.id \in DOMAIN registerEvents_ /\ ctx.id = hdlToRegId_[h]
                                           /\ registerEvents_[ctx.id].load = ctx.load
  BY RegisteredFacts
<1>2. Begin(t, "handle", h, k, ctx) /\ lib[h] # 0 /\ kind[h] = "all" /\ Still(h) /\ EventInv(h)
  BY <1>1 DEF LaunchHandle, Ready, Still, RegistryInv
<1>3. ctx # NoCtx => ctx.load = lib[h] \/ lib[h] \in unread \cup overlapped
  BY <1>1, <1>2 DEF EventInv
<1> QED BY <1>1, <1>2, <1>3, BeginKeeps

\* rt launches by stub function.
LEMMA LaunchStubKeeps ==
    ASSUME RegistryInv, NEW t \in Threads, NEW k \in Kernels, LaunchStub(t, k)
    PROVE  RegistryInv'
<1>1. PICK h \in Handles : h = stubs[k] /\ lib[h] # 0 /\ kind[h] = "dev" /\ Still(h) /\ EventInv(h)
  BY DEF LaunchStub, RegistryInv, StubInv, TypeOK, FuncType
<1>2. PICK x \in Handles \cup {NoHandle} : x = stubInfo_[k]
  BY DEF RegistryInv, TypeOK, FuncType
<1>3. PICK ctx \in Ctx : /\ ctx = Registered(x) /\ (ctx.id = 0 => ctx = NoCtx)
                         /\ ctx # NoCtx => /\ ctx.id \in DOMAIN registerEvents_ /\ ctx.id = hdlToRegId_[x]
                                           /\ registerEvents_[ctx.id].load = ctx.load /\ x \in Handles
  BY RegisteredFacts
<1>4. Begin(t, "stub", h, k, ctx) /\ NoHandle \notin Handles
  BY <1>1, <1>2, <1>3, KernelRegistryAssumption DEF LaunchStub
<1>5. ctx # NoCtx => ctx.load = lib[h] \/ lib[h] \in unread \cup overlapped \/ stubInfo_[k] # h
  BY <1>1, <1>2, <1>3 DEF EventInv
<1> QED BY <1>2, <1>3, <1>4, <1>5, BeginKeeps

\* A launch ends.
LEMMA EndLaunchKeeps ==
    ASSUME RegistryInv, NEW t \in Threads, EndLaunch(t)
    PROVE  RegistryInv'
<1>1. /\ launch' = [launch EXCEPT ![t] = NoLaunch]
      /\ UNCHANGED <<loadVars, funcVars, rtVars, taskPool_, made, orphaned>>
  BY DEF EndLaunch, taskVars
<1>2. launch'[t] = NoLaunch /\ Len(made') \in Nat
  BY <1>1 DEF RegistryInv, TypeOK, LaunchType, TaskType
<1>3. LaunchInv(t)' /\ RunsOwn(t)' /\ FindsOwn(t)'
  BY <1>2, WorkFacts DEF LaunchInv, RunsOwn, FindsOwn
<1> QED BY <1>1, <1>3, LaunchChanges, WorkFacts

-----------------------------------------------------------------------------
(* Tasks.                                                                  *)

\* The parts of a task's key.
LEMMA KeyFacts ==
    ASSUME NEW l, NEW type
    PROVE  /\ TaskKey(l, type)[1] = l.ctx.id /\ TaskKey(l, type)[4] = l.k
           /\ TaskKey(l, type)[3] = "kernelName" <=> l.how \notin {"stub", "handle"}
<1>1. CASE l.how = "stub"
  <2>1. TaskKey(l, type) = StubKey(l, type)
    BY <1>1 DEF TaskKey
  <2> QED BY <1>1, <2>1 DEF StubKey
<1>2. CASE l.how = "handle"
  <2>1. TaskKey(l, type) = TilingKey(l, type)
    BY <1>2 DEF TaskKey
  <2> QED BY <1>2, <2>1 DEF TilingKey
<1>3. CASE l.how \notin {"stub", "handle"}
  <2>1. TaskKey(l, type) = NameKey(l, type)
    BY <1>3 DEF TaskKey
  <2> QED BY <1>3, <2>1 DEF NameKey
<1> QED BY <1>1, <1>2, <1>3

\* Dropping copies leaves what they were made of.
LEMMA DropEffect ==
    ASSUME made \in Seq(Made), NEW toks
    PROVE  /\ Drop(made, toks) \in Seq(Made) /\ Len(Drop(made, toks)) = Len(made)
           /\ \A i \in 1..Len(made) :
                 /\ Drop(made, toks)[i].load = made[i].load /\ Drop(made, toks)[i].k = made[i].k
                 /\ i \notin toks => Drop(made, toks)[i] = made[i]
<1>1. Len(made) \in Nat /\ DOMAIN made = 1..Len(made) /\ \A i \in 1..Len(made) : made[i] \in Made
  OBVIOUS
<1>2. \A i \in 1..Len(made) :
         /\ [made[i] EXCEPT !.live = FALSE] \in Made
         /\ [made[i] EXCEPT !.live = FALSE].load = made[i].load
         /\ [made[i] EXCEPT !.live = FALSE].k = made[i].k
  BY <1>1 DEF Made
<1>3. \A i \in 1..Len(made) :
         Drop(made, toks)[i] = IF i \in toks THEN [made[i] EXCEPT !.live = FALSE] ELSE made[i]
  BY <1>1 DEF Drop
<1>4. Drop(made, toks) \in [1..Len(made) -> Made]
  BY <1>1, <1>2 DEF Drop
<1>5. Drop(made, toks) \in Seq(Made) /\ Len(Drop(made, toks)) = Len(made)
  BY <1>1, <1>4
<1> QED BY <1>2, <1>3, <1>5

\* A task takes its place in the pool of its thread.
Placed(t, key, new) ==
    /\ DOMAIN taskPool_' = Threads /\ \A u \in Threads : u # t => taskPool_'[u] = taskPool_[u]
    /\ DOMAIN taskPool_'[t] = DOMAIN taskPool_[t] \cup {key} /\ taskPool_'[t][key] = new
    /\ \A x \in DOMAIN taskPool_[t] : x # key => taskPool_'[t][x] = taskPool_[t][x]

\* WithTask puts the task in its place and leaves the other tasks.
LEMMA WithTaskEffect ==
    ASSUME TypeOK, NEW t \in Threads, NEW l, NEW type, NEW new, taskPool_' = WithTask(t, l, type, new)
    PROVE  Placed(t, TaskKey(l, type), new)
<1>1. PICK key : key = TaskKey(l, type)
  OBVIOUS
<1>2. DOMAIN taskPool_ = Threads
  BY DEF TypeOK, TaskType
<1>3. taskPool_'[t] = [x \in DOMAIN taskPool_[t] \cup {key} |-> IF x = key THEN new ELSE taskPool_[t][x]]
  BY <1>1, <1>2 DEF WithTask
<1>4. DOMAIN taskPool_' = Threads /\ \A u \in Threads : u # t => taskPool_'[u] = taskPool_[u]
  BY <1>2 DEF WithTask
<1> QED BY <1>1, <1>3, <1>4 DEF Placed

\* The event remembers the copy.
Remembers(l, tok) ==
    /\ EventsGrow /\ registerEvents_' \in Seq(Event) /\ Len(registerEvents_') = Len(registerEvents_)
    /\ DOMAIN registerEvents_' = DOMAIN registerEvents_
    /\ \A i \in DOMAIN registerEvents_ :
          registerEvents_'[i].stub = registerEvents_[i].stub \/ (l.how # "acl" /\ i = l.ctx.id)
    /\ l.how # "acl" => registerEvents_'[l.ctx.id].stub = tok

\* SetDbiBinary changes what the launch's own event remembers, nothing of other events.
LEMMA SetDbiBinaryEffect ==
    ASSUME TypeOK, NEW l, NEW tok \in Nat, SetDbiBinary(l, tok),
           l.how # "acl" => l.ctx.id \in DOMAIN registerEvents_
    PROVE  Remembers(l, tok)
<1>0. registerEvents_ \in Seq(Event)
  BY DEF TypeOK, RtType
<1>1. CASE l.how = "acl"
  <2>1. registerEvents_' = registerEvents_
    BY <1>1 DEF SetDbiBinary
  <2> QED BY <1>0, <1>1, <2>1 DEF Remembers, EventsGrow
<1>2. CASE l.how # "acl"
  <2>1. PICK i \in DOMAIN registerEvents_ : i = l.ctx.id
    BY <1>2
  <2>2. PICK e : e = [registerEvents_[i] EXCEPT !.stub = tok]
    OBVIOUS
  <2>3. registerEvents_[i] \in Event
    BY <1>0, <2>1
  <2>4. e \in Event /\ e.load = registerEvents_[i].load /\ e.stub = tok
    BY <2>2, <2>3 DEF Event
  <2>5. registerEvents_' = [registerEvents_ EXCEPT ![i] = e]
    BY <1>2, <2>1, <2>2 DEF SetDbiBinary
  <2>6. /\ registerEvents_' \in Seq(Event) /\ Len(registerEvents_') = Len(registerEvents_)
        /\ DOMAIN registerEvents_' = DOMAIN registerEvents_
    BY <1>0, <2>4, <2>5
  <2>7. registerEvents_'[i] = e /\ \A x \in DOMAIN registerEvents_ : x # i => registerEvents_'[x] = registerEvents_[x]
    BY <1>0, <2>1, <2>5
  <2> QED BY <1>2, <2>1, <2>4, <2>6, <2>7 DEF Remembers, EventsGrow
<1> QED BY <1>1, <1>2

\* A step of thread t on its own tasks and its launch.
TaskStep(t) ==
    /\ UNCHANGED <<loadVars, funcVars, hdlToRegId_>> /\ orphaned \subseteq orphaned'
    /\ EventsGrow /\ Len(registerEvents_') = Len(registerEvents_) /\ MadeGrows
    /\ \A u \in Threads : u # t => launch'[u] = launch[u] /\ taskPool_'[u] = taskPool_[u]
    /\ \A u \in Threads : u # t => \A key \in DOMAIN taskPool_[u] :
          taskPool_[u][key].tok # 0 => made'[taskPool_[u][key].tok].live

\* What must be shown of a step of one thread on its tasks: its own tasks and launch,
\* the shared numbers and the events.
LEMMA TaskStepKeeps ==
    ASSUME RegistryInv, NEW t \in Threads, TaskStep(t), TypeOK',
           \A key \in DOMAIN taskPool_'[t] : TaskInv(t, key)',
           LaunchInv(t)', RunsOwn(t)', FindsOwn(t)', OwnInv', NumberInv',
           \A i \in DOMAIN registerEvents_' : StubBinInv(i)'
    PROVE  RegistryInv'
<1> USE DEF TaskStep
<1>1. /\ UNCHANGED <<overlapped, unread, stubInfo_>> /\ HistoryGrows /\ Len(made') \in Nat
  BY DEF loadVars, funcVars, HistoryGrows, TypeOK, TaskType
<1>2. /\ \A u \in Threads : WorkInv(u)'
      /\ \A h \in Handles : ContextInv(h)' /\ EventInv(h)'
      /\ \A k \in Kernels : StubInv(k)'
  BY TablesStay
<1>3. \A u \in Threads : u # t => LaunchInv(u)' /\ RunsOwn(u)' /\ FindsOwn(u)'
  BY <1>1, LaunchKept
<1>4. ASSUME NEW u \in Threads, u # t, NEW key \in DOMAIN taskPool_'[u] PROVE TaskInv(u, key)'
  BY <1>1, <1>4, TaskKept
<1>5. \A u \in Threads : \A key \in DOMAIN taskPool_'[u] : TaskInv(u, key)'
  BY <1>4
<1> QED BY <1>2, <1>3, <1>5, OwnEach DEF RegistryInv

\* What a launch that found its binary knows.
LEMMA FoundFacts ==
    ASSUME RegistryInv, NEW t \in Threads, launch[t].ctx # NoCtx
    PROVE  /\ launch[t] \in Launch /\ launch[t].how \in {"acl", "handle", "stub"}
           /\ launch[t].ctx.id \in Nat \ {0} /\ launch[t].ctx.load \in Nat
           /\ launch[t].how # "acl" => /\ launch[t].ctx.id \in DOMAIN registerEvents_
                                       /\ registerEvents_[launch[t].ctx.id].load = launch[t].ctx.load
           /\ launch[t].how = "acl" => InLaunches(launch[t].ctx.id, launch[t].ctx.load)
<1>1. launch[t] \in Launch /\ LaunchInv(t)
  BY DEF RegistryInv, TypeOK, LaunchType
<1>2. launch[t].how \in {"none", "acl", "handle", "stub"} /\ launch[t].ctx \in Ctx
  BY <1>1 DEF Launch
<1>3. launch[t].ctx.id \in Nat /\ launch[t].ctx.load \in Nat
  BY <1>2 DEF Ctx
<1>4. launch[t].how = "acl" => InLaunches(launch[t].ctx.id, launch[t].ctx.load)
  BY DEF InLaunches
<1> QED BY <1>1, <1>2, <1>3, <1>4 DEF LaunchInv

\* The launch goes on with a copy of its task.
LEMMA SwitchedFacts ==
    ASSUME NEW l \in Launch, NEW task \in Task
    PROVE  /\ Switched(l, task) \in Launch
           /\ Switched(l, task).how = l.how /\ Switched(l, task).h = l.h /\ Switched(l, task).k = l.k
           /\ Switched(l, task).load = l.load /\ Switched(l, task).ctx = l.ctx
           /\ Switched(l, task).tok = IF l.how = "stub" THEN task.stubTok ELSE task.tok
           /\ ~Switched(l, task).stubbed => Switched(l, task).tok = task.tok
<1>1. PICK n : n = IF l.how = "stub" THEN task.stubTok ELSE task.tok
  OBVIOUS
<1>2. PICK b \in BOOLEAN : b = (l.how = "stub" /\ task.stubTok # task.tok)
  OBVIOUS
<1>3. n \in Nat /\ (~b => n = task.tok)
  BY <1>1, <1>2 DEF Task
<1>4. Switched(l, task) = [l EXCEPT !.tok = n, !.stubbed = b]
  BY <1>1, <1>2 DEF Switched
<1> QED BY <1>1, <1>3, <1>4 DEF Launch

\* GetOrCreate.
LEMMA TaskOfFacts ==
    ASSUME RegistryInv, NEW t \in Threads, NEW l, NEW type
    PROVE  /\ TaskOf(t, l, type) \in Task
           /\ TaskKey(l, type) \in DOMAIN taskPool_[t] =>
                 TaskOf(t, l, type) = taskPool_[t][TaskKey(l, type)]
           /\ TaskOf(t, l, type).tok # 0 \/ TaskOf(t, l, type).stubTok # 0 => TaskKey(l, type) \in DOMAIN taskPool_[t]
<1>1. NewTask \in Task /\ NewTask.tok = 0 /\ NewTask.stubTok = 0
  BY DEF NewTask, Task
<1> QED BY <1>1 DEF TaskOf, RegistryInv, TypeOK, TaskType

\* A copy of the launch's task was made of what the launch found.
LEMMA TaskCopy ==
    ASSUME RegistryInv, NEW t \in Threads, launch[t].ctx # NoCtx, NEW key \in DOMAIN taskPool_[t],
           key[1] = launch[t].ctx.id, key[4] = launch[t].k, key[3] = "kernelName" <=> launch[t].how \notin {"stub", "handle"},
           NEW x \in Nat, x # 0,
           x = taskPool_[t][key].tok \/ (launch[t].how = "stub" /\ x = taskPool_[t][key].stubTok)
    PROVE  /\ x \in 1..Len(made) /\ made[x].k = launch[t].k
           /\ \/ made[x].load = launch[t].ctx.load
              \/ launch[t].how = "acl" /\ {made[x].load, launch[t].ctx.load} \subseteq overlapped
<1>1. TaskInv(t, key) /\ Len(made) \in Nat /\ made \in Seq(Made)
  BY DEF RegistryInv, TypeOK, TaskType
<1>2. x \in 1..Len(made) /\ made[x].k = launch[t].k
  BY <1>1 DEF TaskInv
<1>3. CASE launch[t].how # "acl"
  BY <1>1, <1>3, FoundFacts DEF TaskInv
<1>4. CASE launch[t].how = "acl"
  <2>1. PICK i \in Nat \ {0}, n \in Nat : i = launch[t].ctx.id /\ n = launch[t].ctx.load /\ InLaunches(i, n)
    BY <1>4, FoundFacts
  <2>2. made[x] \in Made
    BY <1>1, <1>2
  <2>3. PICK m \in Nat : m = made[x].load
    BY <2>2 DEF Made
  <2>4. InTasks(i, m)
    BY <1>4, <2>1, <2>3 DEF InTasks
  <2>5. m = n \/ {m, n} \subseteq overlapped
    BY <2>1, <2>4 DEF RegistryInv, NumberInv, Pair, Numbered
  <2> QED BY <1>2, <1>4, <2>1, <2>3, <2>5
<1> QED BY <1>2, <1>3, <1>4

\* Which numbers launches hold does not depend on the copies they run.
LEMMA LaunchesSame ==
    ASSUME RegistryInv, NEW t \in Threads, NEW s, launch' = [launch EXCEPT ![t] = s],
           s.how = launch[t].how, s.ctx = launch[t].ctx, UNCHANGED <<loadVars, funcVars>>, NEW i, NEW n
    PROVE  /\ InLaunches(i, n)' <=> InLaunches(i, n)
           /\ InContexts(i, n)' <=> InContexts(i, n)
           /\ InFuncs(i, n)' <=> InFuncs(i, n)
           /\ Numbering(i, n)' <=> Numbering(i, n)
<1>1. launch'[t] = s /\ \A u \in Threads : u # t => launch'[u] = launch[u]
  BY DEF RegistryInv, TypeOK, LaunchType
<1>2. \A u \in Threads : launch'[u].how = launch[u].how /\ launch'[u].ctx = launch[u].ctx
  BY <1>1
<1>3. UNCHANGED <<contexts_, funcs, work>>
  BY DEF loadVars, funcVars
<1> QED BY <1>2, <1>3 DEF InLaunches, InContexts, InFuncs, Numbering

\* Nothing becomes of the conversion.
LEMMA ConvertFailsKeeps ==
    ASSUME RegistryInv, NEW t \in Threads, NEW type \in Types, ConvertFails(t, type)
    PROVE  RegistryInv'
<1>1. launch[t] \in Launch /\ launch[t].ctx # NoCtx /\ LaunchInv(t) /\ FindsOwn(t)
  BY OwnEach DEF RegistryInv, TypeOK, LaunchType, ConvertFails
<1>2. PICK l \in Launch : /\ l = [launch[t] EXCEPT !.tok = 0, !.stubbed = FALSE]
                          /\ l.how = launch[t].how /\ l.h = launch[t].h /\ l.k = launch[t].k
                          /\ l.load = launch[t].load /\ l.ctx = launch[t].ctx /\ l.tok = 0
  <2>1. [launch[t] EXCEPT !.tok = 0, !.stubbed = FALSE] \in Launch
    BY <1>1 DEF Launch
  <2> QED BY <1>1, <2>1 DEF Launch
<1>3. /\ launch' = [launch EXCEPT ![t] = l]
      /\ UNCHANGED <<loadVars, funcVars, rtVars, taskPool_, made, orphaned>>
      /\ UNCHANGED <<overlapped, unread, stubInfo_, registerEvents_>>
  BY <1>2 DEF ConvertFails, loadVars, funcVars, rtVars, RegistryInv, TypeOK, LaunchType
<1>4. launch'[t] = l /\ Len(made') \in Nat
  BY <1>3 DEF RegistryInv, TypeOK, LaunchType, TaskType
<1>5. LaunchInv(t)'
  BY <1>1, <1>2, <1>3, <1>4 DEF LaunchInv
<1>6. RunsOwn(t)' /\ FindsOwn(t)'
  BY ZenonT(30), <1>1, <1>2, <1>3, <1>4 DEF RunsOwn, FindsOwn
<1>7. l.how = "acl" => Numbered(l.ctx.id, l.ctx.load)
  BY <1>1, <1>2, FoundFacts DEF Numbered
<1> QED BY <1>3, <1>5, <1>6, <1>7, LaunchChanges

\* A copy used again.
LEMMA ReuseKeeps ==
    ASSUME RegistryInv, NEW t \in Threads, NEW type \in Types, Reuse(t, type)
    PROVE  RegistryInv'
<1>1. PICK l \in Launch : /\ l = launch[t] /\ l.ctx # NoCtx /\ l.how \in {"acl", "handle", "stub"}
                          /\ l.ctx.id \in Nat \ {0} /\ l.ctx.load \in Nat
                          /\ l.how # "acl" => /\ l.ctx.id \in DOMAIN registerEvents_
                                              /\ registerEvents_[l.ctx.id].load = l.ctx.load
  BY FoundFacts DEF Reuse
<1>2. PICK key : /\ key = TaskKey(l, type) /\ key[1] = l.ctx.id /\ key[4] = l.k
                 /\ key[3] = "kernelName" <=> l.how \notin {"stub", "handle"}
  BY KeyFacts
<1>3. PICK task \in Task : /\ task = TaskOf(t, l, type) /\ task.tok # 0 /\ (l.how = "stub" => task.stubTok # 0)
                           /\ key \in DOMAIN taskPool_[t] /\ task = taskPool_[t][key]
  BY <1>1, <1>2, TaskOfFacts DEF Reuse, NeedConvert
<1>4. PICK s \in Launch : /\ s = Switched(l, task)
                          /\ s.how = l.how /\ s.h = l.h /\ s.k = l.k /\ s.load = l.load /\ s.ctx = l.ctx
                          /\ s.tok = IF l.how = "stub" THEN task.stubTok ELSE task.tok
                          /\ ~s.stubbed => s.tok = task.tok
  BY SwitchedFacts
<1>5. /\ launch' = [launch EXCEPT ![t] = s] /\ SetDbiBinary(l, task.tok)
      /\ UNCHANGED <<taskPool_, made, orphaned, hdlToRegId_, loadVars, funcVars>>
      /\ UNCHANGED <<overlapped, unread, stubInfo_, currentRegId_>>
  BY <1>1, <1>3, <1>4 DEF Reuse, loadVars, funcVars
<1>6. /\ launch' \in [Threads -> Launch] /\ launch'[t] = s /\ \A u \in Threads : u # t => launch'[u] = launch[u]
      /\ TypeOK /\ Len(made) \in Nat /\ LaunchInv(t) /\ FindsOwn(t) /\ TaskInv(t, key) /\ task.tok \in Nat
  BY <1>3, <1>5, OwnEach DEF RegistryInv, TypeOK, LaunchType, TaskType, Task
<1>7. Remembers(l, task.tok)
  BY <1>1, <1>5, <1>6, SetDbiBinaryEffect
<1>8. TypeOK'
  BY <1>5, <1>6, <1>7 DEF TypeOK, LoadType, FuncType, RtType, TaskType, LaunchType, loadVars, funcVars, Remembers
<1>9. MadeGrows /\ EventsGrow /\ \A u \in Threads : \A x \in DOMAIN taskPool_[u] :
         taskPool_[u][x].tok # 0 => made'[taskPool_[u][x].tok].live
  BY <1>5, <1>6, <1>7 DEF MadeGrows, Remembers, RegistryInv, TaskInv
<1>10. TaskStep(t)
  BY <1>5, <1>6, <1>7, <1>9 DEF TaskStep, Remembers
<1>11. \A x \in DOMAIN taskPool_'[t] : TaskInv(t, x)'
  BY <1>5, <1>6, <1>9, TaskKept
<1>12. PICK x \in Nat : x = s.tok /\ x # 0 /\ (x = task.tok \/ (l.how = "stub" /\ x = task.stubTok))
  BY <1>3, <1>4 DEF Task
<1>13. /\ x \in 1..Len(made) /\ made[x].k = l.k
       /\ made[x].load = l.ctx.load \/ {made[x].load, l.ctx.load} \subseteq overlapped
  BY <1>1, <1>2, <1>3, <1>12, TaskCopy
<1>14. LaunchInv(t)'
  <2>1. s.how # "acl" => s.ctx.id \in DOMAIN registerEvents_' /\ registerEvents_'[s.ctx.id].load = s.ctx.load
    BY <1>1, <1>4, <1>7 DEF Remembers, EventsGrow
  <2>2. s.how = "stub" => s.k \in Kernels /\ stubInfo_'[s.k] # NoHandle
    BY <1>1, <1>4, <1>5, <1>6 DEF LaunchInv
  <2>3. s.tok \in 0..Len(made')
    BY <1>5, <1>6, <1>12, <1>13
  <2>4. ~s.stubbed => key \in DOMAIN taskPool_'[t] /\ taskPool_'[t][key].tok = s.tok
    BY <1>3, <1>4, <1>5
  <2> QED BY <1>1, <1>4, <1>6, <2>1, <2>2, <2>3, <2>4 DEF LaunchInv
<1>15. RunsOwn(t)'
  BY <1>4, <1>5, <1>6, <1>12, <1>13 DEF RunsOwn
<1>16. FindsOwn(t)'
  BY <1>1, <1>4, <1>5, <1>6 DEF FindsOwn
<1>17. OwnInv'
  BY <1>5 DEF RegistryInv, OwnInv
<1>18. ASSUME NEW i \in DOMAIN registerEvents_' PROVE StubBinInv(i)'
  <2>1. CASE l.how # "acl" /\ i = l.ctx.id
    <3>1. registerEvents_'[i].stub = task.tok /\ task.tok \in 1..Len(made')
      BY <1>3, <1>5, <1>6, <1>7, <2>1 DEF Remembers, TaskInv
    <3>2. key[3] # "kernelName" /\ key[1] = i /\ key \in DOMAIN taskPool_'[t] /\ taskPool_'[t][key].tok = task.tok
      BY <1>1, <1>2, <1>3, <1>5, <2>1
    <3> QED BY <3>1, <3>2 DEF StubBinInv
  <2>2. CASE ~(l.how # "acl" /\ i = l.ctx.id)
    <3>1. StubBinInv(i) /\ registerEvents_'[i].stub = registerEvents_[i].stub
      BY <1>7, <2>2 DEF Remembers, RegistryInv
    <3> QED BY <1>5, <3>1 DEF StubBinInv
  <2> QED BY <2>1, <2>2
<1>19. NumberInv'
  <2>1. \A i, n : Numbered(i, n)' => Numbered(i, n)
    <3>1. \A i, n : InTasks(i, n)' => InTasks(i, n)
      BY <1>5 DEF InTasks
    <3> QED BY <1>1, <1>4, <1>5, <3>1, LaunchesSame DEF Numbered
  <2>2. \A i, n : Numbering(i, n)' <=> Numbering(i, n)
    BY <1>1, <1>4, <1>5, LaunchesSame
  <2> QED BY <1>5, <2>1, <2>2, NumberSame DEF Pair, RegistryInv, NumberInv
<1> QED BY <1>8, <1>10, <1>11, <1>14, <1>15, <1>16, <1>17, <1>18, <1>19, TaskStepKeeps

\* The copy of one task of t goes, and no other.
LEMMA OthersStayLive ==
    ASSUME RegistryInv, NEW t \in Threads, NEW key, NEW n,
           n # 0 => key \in DOMAIN taskPool_[t] /\ n = taskPool_[t][key].tok,
           NEW u \in Threads, NEW x \in DOMAIN taskPool_[u], u # t \/ x # key, taskPool_[u][x].tok # 0
    PROVE  /\ taskPool_[u][x].tok \in 1..Len(made) /\ taskPool_[u][x].tok # n
           /\ made[taskPool_[u][x].tok].live
<1>1. TaskInv(u, x) /\ Len(made) \in Nat
  BY DEF RegistryInv, TypeOK, TaskType
<1>2. taskPool_[u][x].tok # n
  BY DEF RegistryInv, OwnInv
<1> QED BY <1>1, <1>2 DEF TaskInv

\* A copy is made, and takes the place of the one the task had.
LEMMA ConvertKeeps ==
    ASSUME RegistryInv, NEW t \in Threads, NEW type \in Types, Convert(t, type)
    PROVE  RegistryInv'
<1>1. PICK l \in Launch : /\ l = launch[t] /\ l.ctx # NoCtx /\ l.how \in {"acl", "handle", "stub"}
                          /\ l.ctx.id \in Nat \ {0} /\ l.ctx.load \in Nat
                          /\ l.how # "acl" => /\ l.ctx.id \in DOMAIN registerEvents_
                                              /\ registerEvents_[l.ctx.id].load = l.ctx.load
                          /\ l.how = "acl" => InLaunches(l.ctx.id, l.ctx.load)
  BY FoundFacts DEF Convert
<1>2. PICK key : /\ key = TaskKey(l, type) /\ key[1] = l.ctx.id /\ key[4] = l.k
                 /\ key[3] = "kernelName" <=> l.how \notin {"stub", "handle"}
  BY KeyFacts
<1>3. PICK task \in Task : /\ task = TaskOf(t, l, type)
                           /\ key \in DOMAIN taskPool_[t] => task = taskPool_[t][key]
                           /\ task.tok # 0 \/ task.stubTok # 0 => key \in DOMAIN taskPool_[t]
  BY <1>1, <1>2, TaskOfFacts
<1>4. /\ TypeOK /\ Len(made) \in Nat /\ made \in Seq(Made) /\ LaunchInv(t) /\ FindsOwn(t)
      /\ task.tok \in Nat /\ task.stubTok \in Nat
      /\ key \in DOMAIN taskPool_[t] => TaskInv(t, key)
  BY OwnEach DEF RegistryInv, TypeOK, TaskType, Task
<1>5. PICK N \in Nat : N = Len(made) + 1 /\ N # 0 /\ N \notin 1..Len(made)
  BY <1>4
<1>6. PICK new \in Task : /\ new = Converted(l, task, N, Keeps(t, type)) /\ new.tok = N
                          /\ new.stubTok = IF l.how = "stub" /\ task.stubTok = 0 THEN N ELSE task.stubTok
  <2>1. Keeps(t, type) \in BOOLEAN
    BY DEF Keeps
  <2>2. Converted(l, task, N, Keeps(t, type)) \in Task
    BY <1>4, <1>5, <2>1 DEF Converted, Task
  <2> QED BY <2>2 DEF Converted
<1>7. PICK s \in Launch : /\ s = Switched(l, new)
                          /\ s.how = l.how /\ s.h = l.h /\ s.k = l.k /\ s.load = l.load /\ s.ctx = l.ctx
                          /\ s.tok = IF l.how = "stub" THEN new.stubTok ELSE new.tok
                          /\ ~s.stubbed => s.tok = new.tok
  BY SwitchedFacts
<1>8. /\ launch' = [launch EXCEPT ![t] = s] /\ SetDbiBinary(l, N)
      /\ made' = Append(Drop(made, {task.tok}), Copy(l)) /\ taskPool_' = WithTask(t, l, type, new)
      /\ UNCHANGED <<orphaned, hdlToRegId_, loadVars, funcVars>>
      /\ UNCHANGED <<overlapped, unread, stubInfo_, currentRegId_>>
  BY <1>1, <1>3, <1>5, <1>6, <1>7 DEF Convert, loadVars, funcVars
<1>9. /\ launch' \in [Threads -> Launch] /\ launch'[t] = s /\ \A u \in Threads : u # t => launch'[u] = launch[u]
  BY <1>4, <1>8 DEF TypeOK, LaunchType
<1>10. Remembers(l, N) /\ Placed(t, key, new)
  BY <1>1, <1>2, <1>4, <1>8, SetDbiBinaryEffect, WithTaskEffect
<1>11. /\ made' \in Seq(Made) /\ Len(made') = N
       /\ made'[N].load = l.ctx.load /\ made'[N].k = l.k /\ made'[N].live
       /\ \A i \in 1..Len(made) : /\ made'[i].load = made[i].load /\ made'[i].k = made[i].k
                                  /\ i # task.tok => made'[i] = made[i]
  <2>1. PICK d \in Seq(Made) : /\ d = Drop(made, {task.tok}) /\ Len(d) = Len(made)
                               /\ \A i \in 1..Len(made) : /\ d[i].load = made[i].load /\ d[i].k = made[i].k
                                                          /\ i # task.tok => d[i] = made[i]
    BY <1>4, DropEffect
  <2>2. Copy(l) \in Made /\ Copy(l).load = l.ctx.load /\ Copy(l).k = l.k /\ Copy(l).live
    BY <1>1 DEF Copy, Made, Launch
  <2>3. made' = Append(d, Copy(l))
    BY <1>8, <2>1
  <2>4. made' \in Seq(Made) /\ Len(made') = N /\ made'[N] = Copy(l) /\ \A i \in 1..Len(made) : made'[i] = d[i]
    <3>1. \A c \in Made : /\ Append(d, c) \in Seq(Made) /\ Len(Append(d, c)) = Len(d) + 1
                          /\ Append(d, c)[Len(d) + 1] = c /\ \A i \in 1..Len(d) : Append(d, c)[i] = d[i]
      BY <2>1
    <3> QED BY <1>5, <2>1, <2>2, <2>3, <3>1
  <2> QED BY <2>1, <2>2, <2>4
<1>12. TypeOK'
  <2>1. ASSUME NEW u \in Threads, NEW x \in DOMAIN taskPool_'[u] PROVE taskPool_'[u][x] \in Task
    BY <1>4, <1>10, <2>1 DEF Placed, TypeOK, TaskType
  <2>2. DOMAIN taskPool_' = Threads
    BY <1>10 DEF Placed
  <2> QED BY <1>4, <1>8, <1>9, <1>10, <1>11, <2>1, <2>2 DEF TypeOK, LoadType, FuncType, RtType, TaskType, LaunchType, loadVars, funcVars, Remembers
<1>13. MadeGrows /\ EventsGrow /\ Len(made') \in Nat
  BY <1>4, <1>5, <1>10, <1>11 DEF MadeGrows, Remembers
<1>14. ASSUME NEW u \in Threads, NEW x \in DOMAIN taskPool_[u], u # t \/ x # key
       PROVE  /\ taskPool_'[u][x] = taskPool_[u][x] /\ taskPool_[u][x].tok # N
              /\ taskPool_[u][x].tok # 0 => /\ made'[taskPool_[u][x].tok].live
                                            /\ made'[taskPool_[u][x].tok].load = made[taskPool_[u][x].tok].load
  <2>1. taskPool_'[u][x] = taskPool_[u][x]
    BY <1>10, <1>14 DEF Placed
  <2>2. taskPool_[u][x].tok # 0 => /\ taskPool_[u][x].tok \in 1..Len(made) /\ taskPool_[u][x].tok # task.tok
                                   /\ made[taskPool_[u][x].tok].live
    BY <1>3, <1>14, OthersStayLive
  <2> QED BY <1>5, <1>11, <2>1, <2>2
<1>15. TaskStep(t)
  BY <1>8, <1>9, <1>10, <1>13, <1>14 DEF TaskStep, Remembers, Placed
<1>16. TaskInv(t, key)'
  <2>1. /\ taskPool_'[t][key].tok = N /\ made'[N].live /\ made'[N].k = key[4] /\ N \in 0..Len(made')
        /\ taskPool_'[t][key].stubTok = new.stubTok
    BY <1>2, <1>5, <1>6, <1>10, <1>11 DEF Placed
  <2>2. key[3] # "kernelName" => /\ key[1] \in DOMAIN registerEvents_' /\ made'[N].load = registerEvents_'[key[1]].load
                                 /\ registerEvents_'[key[1]].load = registerEvents_[key[1]].load
    BY <1>1, <1>2, <1>10, <1>11 DEF Remembers, EventsGrow
  <2>3. CASE new.stubTok = N
    BY <1>5, <2>1, <2>2, <2>3 DEF TaskInv
  <2>4. CASE new.stubTok = 0
    BY <1>5, <1>13, <2>1, <2>2, <2>4 DEF TaskInv
  <2>5. CASE new.stubTok = task.stubTok /\ task.stubTok # 0
    <3>1. PICK x \in Nat : x = task.stubTok
      BY <1>4
    <3>2. /\ x \in 1..Len(made) /\ made[x].k = key[4]
          /\ key[3] # "kernelName" => made[x].load = registerEvents_[key[1]].load
      BY <1>3, <1>4, <2>5, <3>1 DEF TaskInv
    <3>3. /\ x \in 0..Len(made') /\ made'[x].k = key[4]
          /\ key[3] # "kernelName" => made'[x].load = registerEvents_'[key[1]].load
      BY <1>4, <1>5, <1>11, <2>2, <3>2
    <3> QED BY <1>5, <2>1, <2>2, <2>5, <3>1, <3>3 DEF TaskInv
  <2> QED BY <1>6, <2>3, <2>4, <2>5
<1>17. \A x \in DOMAIN taskPool_'[t] : TaskInv(t, x)'
  <2>1. ASSUME NEW x \in DOMAIN taskPool_[t], x # key PROVE TaskInv(t, x)'
    BY <1>13, <1>14, <2>1, TaskKept
  <2> QED BY <1>10, <1>16, <2>1 DEF Placed
<1>18. PICK x \in Nat : x = s.tok /\ x # 0 /\ (x = N \/ (l.how = "stub" /\ x = task.stubTok))
  BY <1>4, <1>5, <1>6, <1>7
<1>19. x \in 1..Len(made') /\ made'[x].k = l.k /\ made'[x].load = l.ctx.load
  <2>1. CASE x = N
    BY <1>5, <1>11, <2>1
  <2>2. CASE x # N
    <3>1. /\ x \in 1..Len(made) /\ made[x].k = l.k
          /\ made[x].load = l.ctx.load \/ (l.how = "acl" /\ {made[x].load, l.ctx.load} \subseteq overlapped)
      BY <1>1, <1>2, <1>3, <1>18, <2>2, TaskCopy
    <3>2. made[x].load = l.ctx.load
      BY <1>18, <2>2, <3>1
    <3> QED BY <1>4, <1>5, <1>11, <3>1, <3>2
  <2> QED BY <2>1, <2>2
<1>20. LaunchInv(t)'
  <2>1. s.how # "acl" => s.ctx.id \in DOMAIN registerEvents_' /\ registerEvents_'[s.ctx.id].load = s.ctx.load
    BY <1>1, <1>7, <1>10 DEF Remembers, EventsGrow
  <2>2. s.how = "stub" => s.k \in Kernels /\ stubInfo_'[s.k] # NoHandle
    BY <1>1, <1>4, <1>7, <1>8 DEF LaunchInv
  <2>3. s.tok \in 0..Len(made')
    BY <1>13, <1>18, <1>19
  <2>4. ~s.stubbed => key \in DOMAIN taskPool_'[t] /\ taskPool_'[t][key].tok = s.tok
    BY <1>7, <1>10 DEF Placed
  <2> QED BY <1>1, <1>7, <1>9, <2>1, <2>2, <2>3, <2>4 DEF LaunchInv
<1>21. RunsOwn(t)'
  BY <1>7, <1>9, <1>18, <1>19 DEF RunsOwn
<1>22. FindsOwn(t)'
  BY <1>1, <1>4, <1>7, <1>8, <1>9 DEF FindsOwn
<1>23. OwnInv'
  <2> SUFFICES ASSUME NEW u \in Threads, NEW v \in Threads, NEW x1 \in DOMAIN taskPool_'[u], NEW x2 \in DOMAIN taskPool_'[v],
                      taskPool_'[u][x1].tok # 0, taskPool_'[v][x2].tok = taskPool_'[u][x1].tok
               PROVE  u = v /\ x1 = x2
    BY DEF OwnInv
  <2>1. /\ (u = t /\ x1 = key) \/ (x1 \in DOMAIN taskPool_[u] /\ (u # t \/ x1 # key))
        /\ (v = t /\ x2 = key) \/ (x2 \in DOMAIN taskPool_[v] /\ (v # t \/ x2 # key))
    BY <1>10 DEF Placed
  <2>2. taskPool_'[t][key].tok = N
    BY <1>6, <1>10 DEF Placed
  <2>3. CASE u = t /\ x1 = key
    BY <1>14, <2>1, <2>2, <2>3
  <2>4. CASE v = t /\ x2 = key
    BY <1>14, <2>1, <2>2, <2>4
  <2>5. CASE x1 \in DOMAIN taskPool_[u] /\ (u # t \/ x1 # key) /\ x2 \in DOMAIN taskPool_[v] /\ (v # t \/ x2 # key)
    <3>1. taskPool_'[u][x1] = taskPool_[u][x1] /\ taskPool_'[v][x2] = taskPool_[v][x2]
      BY <1>14, <2>5
    <3> QED BY <2>5, <3>1 DEF RegistryInv, OwnInv
  <2> QED BY <2>1, <2>3, <2>4, <2>5
<1>24. ASSUME NEW i \in DOMAIN registerEvents_' PROVE StubBinInv(i)'
  <2>1. CASE l.how # "acl" /\ i = l.ctx.id
    <3>1. registerEvents_'[i].stub = N /\ N \in 1..Len(made')
      BY <1>5, <1>10, <1>11, <2>1 DEF Remembers
    <3>2. key[3] # "kernelName" /\ key[1] = i /\ key \in DOMAIN taskPool_'[t] /\ taskPool_'[t][key].tok = N
      BY <1>1, <1>2, <1>6, <1>10, <2>1 DEF Placed
    <3> QED BY <3>1, <3>2 DEF StubBinInv
  <2>2. CASE ~(l.how # "acl" /\ i = l.ctx.id)
    <3>1. StubBinInv(i) /\ registerEvents_'[i].stub = registerEvents_[i].stub
      BY <1>10, <2>2 DEF Remembers, RegistryInv
    <3>2. PICK m : m = registerEvents_[i].stub
      OBVIOUS
    <3>3. m # 0 => m \in 1..Len(made')
      BY <1>4, <1>5, <1>11, <3>1, <3>2 DEF StubBinInv
    <3>4. ASSUME NEW u \in Threads, NEW x1 \in DOMAIN taskPool_[u], x1[3] # "kernelName", x1[1] = i, taskPool_[u][x1].tok = m
          PROVE  x1 \in DOMAIN taskPool_'[u] /\ taskPool_'[u][x1].tok = m
      <4>1. x1 # key
        BY <1>1, <1>2, <2>2, <3>4
      <4> QED BY <1>10, <1>14, <3>4, <4>1 DEF Placed
    <3> QED BY <1>8, <3>1, <3>2, <3>3, <3>4 DEF StubBinInv
  <2> QED BY <2>1, <2>2
<1>25. NumberInv'
  <2>1. ASSUME NEW i, NEW n, InTasks(i, n)' PROVE InTasks(i, n) \/ InLaunches(i, n)
    <3>0. PICK u \in Threads : \E x0 \in DOMAIN taskPool_'[u] :
             /\ x0[3] = "kernelName" /\ x0[1] = i /\ taskPool_'[u][x0].tok # 0
             /\ made'[taskPool_'[u][x0].tok].load = n
      BY <2>1 DEF InTasks
    <3>1. PICK x1 \in DOMAIN taskPool_'[u] :
             /\ x1[3] = "kernelName" /\ x1[1] = i /\ taskPool_'[u][x1].tok # 0
             /\ made'[taskPool_'[u][x1].tok].load = n
      BY <3>0
    <3>2. CASE u = t /\ x1 = key
      <4>1. i = l.ctx.id /\ n = l.ctx.load /\ l.how = "acl"
        BY <1>1, <1>2, <1>6, <1>10, <1>11, <3>1, <3>2 DEF Placed
      <4> QED BY <1>1, <4>1
    <3>3. CASE u # t \/ x1 # key
      <4>1. x1 \in DOMAIN taskPool_[u]
        BY <1>10, <3>1, <3>3 DEF Placed
      <4>2. taskPool_[u][x1].tok # 0 /\ made[taskPool_[u][x1].tok].load = n
        BY <1>14, <3>1, <3>3, <4>1
      <4> QED BY <3>1, <4>1, <4>2 DEF InTasks
    <3> QED BY <3>2, <3>3
  <2>2. \A i, n : Numbered(i, n)' => Numbered(i, n)
    BY <1>1, <1>7, <1>8, <2>1, LaunchesSame DEF Numbered
  <2>3. \A i, n : Numbering(i, n)' <=> Numbering(i, n)
    BY <1>1, <1>7, <1>8, LaunchesSame
  <2> QED BY <1>8, <2>2, <2>3, NumberSame DEF Pair, RegistryInv, NumberInv
<1> QED BY <1>12, <1>15, <1>17, <1>20, <1>21, <1>22, <1>23, <1>24, <1>25, TaskStepKeeps

\* The library refuses the new copy, and the old one is given up.
LEMMA LoadFailsKeeps ==
    ASSUME RegistryInv, NEW t \in Threads, NEW type \in Types, LoadFails(t, type)
    PROVE  RegistryInv'
<1>1. PICK l \in Launch : /\ l = launch[t] /\ l.ctx # NoCtx /\ l.how \in {"acl", "handle", "stub"}
                          /\ l.how = "acl" => InLaunches(l.ctx.id, l.ctx.load)
  BY FoundFacts DEF LoadFails
<1>2. PICK key : key = TaskKey(l, type)
  OBVIOUS
<1>3. PICK task \in Task : /\ task = TaskOf(t, l, type) /\ task.tok # 0
                           /\ key \in DOMAIN taskPool_[t] /\ task = taskPool_[t][key]
  BY <1>1, <1>2, TaskOfFacts DEF LoadFails
<1>4. /\ TypeOK /\ Len(made) \in Nat /\ made \in Seq(Made) /\ LaunchInv(t) /\ FindsOwn(t)
      /\ task.tok \in Nat /\ task.stubTok \in Nat /\ TaskInv(t, key)
  BY <1>3, OwnEach DEF RegistryInv, TypeOK, TaskType, Task
<1>5. PICK new \in Task : new = Refused(task) /\ new.tok = 0 /\ new.stubTok = task.stubTok
  <2>1. Refused(task) \in Task /\ Refused(task).tok = 0 /\ Refused(task).stubTok = task.stubTok
    BY DEF Refused, Task
  <2> QED BY <2>1
<1>6. PICK s \in Launch : /\ s = [launch[t] EXCEPT !.tok = 0, !.stubbed = FALSE]
                          /\ s.how = l.how /\ s.h = l.h /\ s.k = l.k
                          /\ s.load = l.load /\ s.ctx = l.ctx /\ s.tok = 0
  <2>1. [launch[t] EXCEPT !.tok = 0, !.stubbed = FALSE] \in Launch
    BY <1>1 DEF Launch
  <2> QED BY <1>1, <2>1 DEF Launch
<1>7. /\ launch' = [launch EXCEPT ![t] = s] /\ orphaned' = orphaned \cup {task.tok}
      /\ made' = Drop(made, {task.tok}) /\ taskPool_' = WithTask(t, l, type, new)
      /\ UNCHANGED <<hdlToRegId_, registerEvents_, loadVars, funcVars>>
      /\ UNCHANGED <<overlapped, unread, stubInfo_, currentRegId_>>
  BY <1>1, <1>3, <1>4, <1>5, <1>6 DEF LoadFails, loadVars, funcVars, rtVars, TypeOK, LaunchType
<1>8. /\ launch' \in [Threads -> Launch] /\ launch'[t] = s /\ \A u \in Threads : u # t => launch'[u] = launch[u]
  BY <1>4, <1>7 DEF TypeOK, LaunchType
<1>9. Placed(t, key, new)
  BY <1>2, <1>4, <1>7, WithTaskEffect
<1>10. /\ made' \in Seq(Made) /\ Len(made') = Len(made)
       /\ \A i \in 1..Len(made) : /\ made'[i].load = made[i].load /\ made'[i].k = made[i].k
                                  /\ i # task.tok => made'[i] = made[i]
  BY <1>4, <1>7, DropEffect
<1>11. TypeOK'
  <2>1. ASSUME NEW u \in Threads, NEW x \in DOMAIN taskPool_'[u] PROVE taskPool_'[u][x] \in Task
    BY <1>4, <1>9, <2>1 DEF Placed, TypeOK, TaskType
  <2>2. DOMAIN taskPool_' = Threads
    BY <1>9 DEF Placed
  <2> QED BY <1>4, <1>7, <1>8, <1>10, <2>1, <2>2 DEF TypeOK, LoadType, FuncType, RtType, TaskType, LaunchType, loadVars, funcVars
<1>12. MadeGrows /\ EventsGrow /\ Len(made') \in Nat
  <2>1. registerEvents_' = registerEvents_
    BY <1>7
  <2>2. Len(made) <= Len(made') /\ Len(made') \in Nat
    BY <1>4, <1>10
  <2> QED BY <1>10, <2>1, <2>2 DEF MadeGrows, EventsGrow
<1>13. ASSUME NEW u \in Threads, NEW x \in DOMAIN taskPool_[u], u # t \/ x # key
       PROVE  /\ taskPool_'[u][x] = taskPool_[u][x]
              /\ taskPool_[u][x].tok # 0 => /\ made'[taskPool_[u][x].tok].live
                                            /\ made'[taskPool_[u][x].tok].load = made[taskPool_[u][x].tok].load
  <2>1. taskPool_'[u][x] = taskPool_[u][x]
    BY <1>9, <1>13 DEF Placed
  <2>2. taskPool_[u][x].tok # 0 => /\ taskPool_[u][x].tok \in 1..Len(made) /\ taskPool_[u][x].tok # task.tok
                                   /\ made[taskPool_[u][x].tok].live
    <3>1. SUFFICES ASSUME taskPool_[u][x].tok # 0
                   PROVE  /\ taskPool_[u][x].tok \in 1..Len(made) /\ taskPool_[u][x].tok # task.tok
                          /\ made[taskPool_[u][x].tok].live
      OBVIOUS
    <3>2. TaskInv(u, x)
      BY <1>13 DEF RegistryInv
    <3>3. taskPool_[u][x].tok # task.tok
      BY <1>3, <1>13, <3>1 DEF RegistryInv, OwnInv
    <3> QED BY <1>4, <3>1, <3>2, <3>3 DEF TaskInv
  <2> QED BY <1>10, <2>1, <2>2
<1>14. TaskStep(t)
  BY <1>7, <1>8, <1>9, <1>12, <1>13 DEF TaskStep, Placed
<1>15. TaskInv(t, key)'
  <2>1. taskPool_'[t][key].tok = 0 /\ taskPool_'[t][key].stubTok = task.stubTok /\ 0 \in 0..Len(made')
    BY <1>5, <1>9, <1>12 DEF Placed
  <2>2. PICK x \in Nat : x = task.stubTok
    BY <1>4
  <2>3. /\ x \in 0..Len(made')
        /\ x # 0 => /\ made'[x].k = key[4]
                    /\ key[3] # "kernelName" => made'[x].load = registerEvents_'[key[1]].load
        /\ key[3] # "kernelName" => key[1] \in DOMAIN registerEvents_'
    <3>1. registerEvents_' = registerEvents_
      BY <1>7
    <3>2. x = taskPool_[t][key].stubTok
      BY <1>3, <2>2
    <3>3. /\ x \in 0..Len(made) /\ (x # 0 => x \in 1..Len(made) /\ made[x].k = key[4])
          /\ key[3] # "kernelName" => /\ key[1] \in DOMAIN registerEvents_
                                      /\ x # 0 => made[x].load = registerEvents_[key[1]].load
      BY <1>4, <3>2 DEF TaskInv
    <3> QED BY <1>10, <3>1, <3>3
  <2> QED BY <2>1, <2>2, <2>3 DEF TaskInv
<1>16. \A x \in DOMAIN taskPool_'[t] : TaskInv(t, x)'
  <2>1. ASSUME NEW x \in DOMAIN taskPool_[t], x # key PROVE TaskInv(t, x)'
    BY <1>12, <1>13, <2>1, TaskKept
  <2> QED BY <1>9, <1>15, <2>1 DEF Placed
<1>17. LaunchInv(t)'
  BY <1>1, <1>4, <1>6, <1>7, <1>8, <1>12 DEF LaunchInv
<1>18. RunsOwn(t)' /\ FindsOwn(t)'
  BY <1>1, <1>4, <1>6, <1>7, <1>8 DEF RunsOwn, FindsOwn
<1>19. ASSUME NEW u \in Threads, NEW x \in DOMAIN taskPool_'[u], taskPool_'[u][x].tok # 0
       PROVE  x \in DOMAIN taskPool_[u] /\ taskPool_'[u][x] = taskPool_[u][x] /\ (u # t \/ x # key)
  BY <1>5, <1>9, <1>19 DEF Placed
<1>20. OwnInv'
  <2> SUFFICES ASSUME NEW u \in Threads, NEW v \in Threads, NEW x1 \in DOMAIN taskPool_'[u], NEW x2 \in DOMAIN taskPool_'[v],
                      taskPool_'[u][x1].tok # 0, taskPool_'[v][x2].tok = taskPool_'[u][x1].tok
               PROVE  u = v /\ x1 = x2
    BY DEF OwnInv
  <2>1. /\ x1 \in DOMAIN taskPool_[u] /\ taskPool_'[u][x1] = taskPool_[u][x1]
        /\ x2 \in DOMAIN taskPool_[v] /\ taskPool_'[v][x2] = taskPool_[v][x2]
    BY <1>19
  <2> QED BY <2>1 DEF RegistryInv, OwnInv
<1>21. ASSUME NEW i \in DOMAIN registerEvents_' PROVE StubBinInv(i)'
  <2>1. StubBinInv(i) /\ registerEvents_' = registerEvents_
    BY <1>7 DEF RegistryInv
  <2>2. PICK m : m = registerEvents_[i].stub
    OBVIOUS
  <2>3. ASSUME NEW u \in Threads, NEW x1 \in DOMAIN taskPool_[u], taskPool_[u][x1].tok = m
        PROVE  m \in orphaned' \/ (x1 \in DOMAIN taskPool_'[u] /\ taskPool_'[u][x1].tok = m)
    <3>1. CASE u = t /\ x1 = key
      BY <1>3, <1>7, <2>3, <3>1
    <3>2. CASE u # t \/ x1 # key
      BY <1>9, <1>13, <2>3, <3>2 DEF Placed
    <3> QED BY <3>1, <3>2
  <2> QED BY <1>7, <1>10, <2>1, <2>2, <2>3 DEF StubBinInv
<1>22. NumberInv'
  <2>1. ASSUME NEW i, NEW n, InTasks(i, n)' PROVE InTasks(i, n)
    <3>0. PICK u \in Threads : \E x \in DOMAIN taskPool_'[u] :
             /\ x[3] = "kernelName" /\ x[1] = i /\ taskPool_'[u][x].tok # 0
             /\ made'[taskPool_'[u][x].tok].load = n
      BY <2>1 DEF InTasks
    <3>1. PICK x1 \in DOMAIN taskPool_'[u] :
             /\ x1[3] = "kernelName" /\ x1[1] = i /\ taskPool_'[u][x1].tok # 0
             /\ made'[taskPool_'[u][x1].tok].load = n
      BY <3>0
    <3>2. x1 \in DOMAIN taskPool_[u] /\ taskPool_'[u][x1] = taskPool_[u][x1] /\ (u # t \/ x1 # key)
      BY <1>19, <3>1
    <3>3. taskPool_[u][x1].tok # 0 /\ made[taskPool_[u][x1].tok].load = n
      BY <1>13, <3>1, <3>2
    <3> QED BY <3>1, <3>2, <3>3 DEF InTasks
  <2>2. \A i, n : Numbered(i, n)' => Numbered(i, n)
    BY <1>1, <1>6, <1>7, <2>1, LaunchesSame DEF Numbered
  <2>3. \A i, n : Numbering(i, n)' <=> Numbering(i, n)
    BY <1>1, <1>6, <1>7, LaunchesSame
  <2> QED BY <1>7, <2>2, <2>3, NumberSame DEF Pair, RegistryInv, NumberInv
<1> QED BY <1>11, <1>14, <1>16, <1>17, <1>18, <1>20, <1>21, <1>22, TaskStepKeeps

\* The pool of a thread that ends goes with all its copies.
LEMMA ThreadEndsKeeps ==
    ASSUME RegistryInv, NEW t \in Threads, ThreadEnds(t)
    PROVE  RegistryInv'
<1>1. PICK toks : toks = {taskPool_[t][key].tok : key \in DOMAIN taskPool_[t]} \ {0}
  OBVIOUS
<1>2. /\ launch[t] = NoLaunch /\ made' = Drop(made, toks) /\ orphaned' = orphaned \cup toks
      /\ taskPool_' = [taskPool_ EXCEPT ![t] = <<>>]
      /\ UNCHANGED <<hdlToRegId_, registerEvents_, loadVars, funcVars, launch>>
      /\ UNCHANGED <<overlapped, unread, stubInfo_, currentRegId_, contexts_, funcs, work>>
  BY <1>1 DEF ThreadEnds, Free, loadVars, funcVars, rtVars, launchVars
<1>3. /\ TypeOK /\ Len(made) \in Nat /\ made \in Seq(Made) /\ LaunchInv(t) /\ FindsOwn(t)
  BY OwnEach DEF RegistryInv, TypeOK, TaskType
<1>4. /\ DOMAIN taskPool_' = Threads /\ DOMAIN taskPool_'[t] = {}
      /\ \A u \in Threads : u # t => taskPool_'[u] = taskPool_[u]
  <2>1. DOMAIN taskPool_ = Threads
    BY <1>3 DEF TypeOK, TaskType
  <2>2. taskPool_'[t] = <<>>
    BY <1>2, <2>1
  <2> QED BY <1>2, <2>1, <2>2
<1>5. /\ made' \in Seq(Made) /\ Len(made') = Len(made)
      /\ \A i \in 1..Len(made) : /\ made'[i].load = made[i].load /\ made'[i].k = made[i].k
                                 /\ i \notin toks => made'[i] = made[i]
  BY <1>2, <1>3, DropEffect
<1>6. TypeOK'
  <2>1. ASSUME NEW u \in Threads, NEW x \in DOMAIN taskPool_'[u] PROVE taskPool_'[u][x] \in Task
    BY <1>3, <1>4, <2>1 DEF TypeOK, TaskType
  <2> QED BY <1>2, <1>3, <1>4, <1>5, <2>1 DEF TypeOK, LoadType, FuncType, RtType, TaskType, LaunchType, loadVars, funcVars
<1>7. MadeGrows /\ EventsGrow /\ Len(made') \in Nat
  BY <1>2, <1>3, <1>5 DEF MadeGrows, EventsGrow
<1>8. ASSUME NEW u \in Threads, u # t, NEW x \in DOMAIN taskPool_[u], taskPool_[u][x].tok # 0
      PROVE  /\ made'[taskPool_[u][x].tok].live
             /\ made'[taskPool_[u][x].tok].load = made[taskPool_[u][x].tok].load
  <2>1. taskPool_[u][x].tok \notin toks
    BY <1>1, <1>8 DEF RegistryInv, OwnInv
  <2>2. TaskInv(u, x)
    BY DEF RegistryInv
  <2>3. taskPool_[u][x].tok \in 1..Len(made) /\ made[taskPool_[u][x].tok].live
    BY <1>3, <1>8, <2>2 DEF TaskInv
  <2> QED BY <1>5, <2>1, <2>3
<1>9. TaskStep(t)
  BY <1>2, <1>4, <1>7, <1>8 DEF TaskStep
<1>10. LaunchInv(t)' /\ RunsOwn(t)' /\ FindsOwn(t)'
  BY <1>2, <1>7, WorkFacts DEF LaunchInv, RunsOwn, FindsOwn
<1>11. OwnInv'
  BY <1>4 DEF RegistryInv, OwnInv
<1>12. ASSUME NEW i \in DOMAIN registerEvents_' PROVE StubBinInv(i)'
  <2>1. StubBinInv(i) /\ registerEvents_' = registerEvents_
    BY <1>2 DEF RegistryInv
  <2>2. PICK m : m = registerEvents_[i].stub
    OBVIOUS
  <2>3. ASSUME NEW u \in Threads, NEW x1 \in DOMAIN taskPool_[u], taskPool_[u][x1].tok = m, m # 0
        PROVE  m \in orphaned' \/ (x1 \in DOMAIN taskPool_'[u] /\ taskPool_'[u][x1].tok = m)
    <3>1. CASE u = t
      BY <1>1, <1>2, <2>3, <3>1
    <3>2. CASE u # t
      BY <1>4, <2>3, <3>2
    <3> QED BY <3>1, <3>2
  <2> QED BY <1>2, <1>5, <2>1, <2>2, <2>3 DEF StubBinInv
<1>13. NumberInv'
  <2>1. ASSUME NEW i, NEW n, InTasks(i, n)' PROVE InTasks(i, n)
    <3>0. PICK u \in Threads : \E x \in DOMAIN taskPool_'[u] :
             /\ x[3] = "kernelName" /\ x[1] = i /\ taskPool_'[u][x].tok # 0
             /\ made'[taskPool_'[u][x].tok].load = n
      BY <2>1 DEF InTasks
    <3>1. PICK x1 \in DOMAIN taskPool_'[u] :
             /\ x1[3] = "kernelName" /\ x1[1] = i /\ taskPool_'[u][x1].tok # 0
             /\ made'[taskPool_'[u][x1].tok].load = n
      BY <3>0
    <3>2. u # t /\ x1 \in DOMAIN taskPool_[u] /\ taskPool_'[u][x1] = taskPool_[u][x1]
      BY <1>4, <3>1
    <3>3. taskPool_[u][x1].tok # 0 /\ made[taskPool_[u][x1].tok].load = n
      BY <1>8, <3>1, <3>2
    <3> QED BY <3>1, <3>2, <3>3 DEF InTasks
  <2>2. \A i, n : /\ InContexts(i, n)' => InContexts(i, n)
                  /\ InFuncs(i, n)' => InFuncs(i, n)
                  /\ InLaunches(i, n)' => InLaunches(i, n)
                  /\ Numbering(i, n)' => Numbering(i, n)
    BY <1>2 DEF InContexts, InFuncs, InLaunches, Numbering
  <2>3. \A i, n : Numbered(i, n)' => Numbered(i, n)
    BY <2>1, <2>2 DEF Numbered
  <2> QED BY <1>2, <2>2, <2>3, NumberSame DEF Pair, RegistryInv, NumberInv
<1> QED BY <1>4, <1>6, <1>9, <1>10, <1>11, <1>12, <1>13, TaskStepKeeps

-----------------------------------------------------------------------------
(* The theorems.                                                           *)

\* Nothing loaded, nothing known.
LEMMA InitRegistry == Init => RegistryInv
<1> SUFFICES ASSUME Init PROVE RegistryInv
  OBVIOUS
<1> USE DEF Init
<1>0. NoHandle \notin Handles
  BY KernelRegistryAssumption
<1>1. TypeOK
  <2>1. Idle \in Work /\ NoCtx \in Ctx /\ NoLaunch \in Launch
    BY WorkFacts
  <2>2. LoadType /\ FuncType /\ RtType /\ LaunchType
    BY <2>1 DEF LoadType, FuncType, RtType, LaunchType
  <2>3. TaskType
    BY DEF TaskType
  <2> QED BY <2>2, <2>3 DEF TypeOK
<1>2. \A t \in Threads : DOMAIN taskPool_[t] = {} /\ work[t] = Idle /\ launch[t] = NoLaunch
  <2>1. \A t \in Threads : taskPool_[t] = <<>>
    OBVIOUS
  <2>2. DOMAIN <<>> = {}
    OBVIOUS
  <2> QED BY <2>1, <2>2
<1>3. \A t \in Threads : WorkInv(t)
  BY WorkFacts DEF WorkInv
<1>4. \A h \in Handles : ContextInv(h)
  BY WorkFacts DEF ContextInv
<1>5. (\A h \in Handles : EventInv(h)) /\ \A k \in Kernels : StubInv(k)
  BY DEF EventInv, StubInv
<1>6. NumberInv
  <2>1. \A h \in Handles, k \in Kernels : contexts_[h].id = 0 /\ funcs[<<h, k>>].id = 0
    BY WorkFacts
  <2>2. \A h \in Handles : contexts_[h].id = 0
    BY WorkFacts
  <2>3. \A i \in Nat \ {0}, n \in Nat : ~Pair(i, n)
    BY <1>2, <2>1, <2>2, WorkFacts DEF Pair, Numbered, Numbering, InContexts, InFuncs, InLaunches, InTasks
  <2> QED BY <2>3 DEF NumberInv, Pair
<1>7. OwnInv /\ \A t \in Threads : \A key \in DOMAIN taskPool_[t] : TaskInv(t, key)
  BY <1>2 DEF OwnInv
<1>8. ASSUME NEW t \in Threads PROVE LaunchInv(t)
  <2>1. launch[t].how = "none" /\ launch[t].ctx = NoCtx /\ launch[t].tok = 0 /\ 0 \in 0..Len(made)
    BY <1>2, WorkFacts
  <2> QED BY <2>1 DEF LaunchInv
<1>9. RunsOwnCopy /\ FindsOwnBinary
  BY <1>2, WorkFacts DEF RunsOwnCopy, FindsOwnBinary
<1>10. \A i \in DOMAIN registerEvents_ : StubBinInv(i)
  OBVIOUS
<1> QED BY <1>1, <1>3, <1>4, <1>5, <1>6, <1>7, <1>8, <1>9, <1>10 DEF RegistryInv

\* The invariant is about the variables of the specification.
LEMMA StutterKeeps == RegistryInv /\ UNCHANGED registryVars => RegistryInv'
<1> SUFFICES ASSUME RegistryInv, UNCHANGED registryVars PROVE RegistryInv'
  OBVIOUS
<1>1. /\ UNCHANGED <<lib, kind, loads, work, currentRegId_, contexts_, overlapped, unread>>
      /\ UNCHANGED <<held, funcs, stubs, stubInfo_, registerEvents_, hdlToRegId_>>
      /\ UNCHANGED <<taskPool_, made, orphaned, launch, taskVars>>
  BY DEF registryVars, loadVars, funcVars, rtVars, taskVars, launchVars
<1>2. TypeOK'
  BY <1>1 DEF RegistryInv, TypeOK, LoadType, FuncType, RtType, TaskType, LaunchType
<1>3. EventsGrow /\ HistoryGrows
  BY <1>1 DEF EventsGrow, HistoryGrows
<1>4. /\ \A u \in Threads : WorkInv(u)'
      /\ \A h \in Handles : ContextInv(h)' /\ EventInv(h)'
      /\ \A k \in Kernels : StubInv(k)'
  BY <1>1, <1>3, TablesStay DEF registryVars
<1>5. /\ \A u \in Threads : \A key \in DOMAIN taskPool_'[u] : TaskInv(u, key)'
      /\ OwnInv' /\ RunsOwnCopy' /\ FindsOwnBinary'
      /\ \A u \in Threads : LaunchInv(u)'
      /\ \A i \in DOMAIN registerEvents_' : StubBinInv(i)'
  BY <1>1, <1>3, TasksStay
<1>6. NumberInv'
  <2>1. \A i, n : Numbered(i, n)' <=> Numbered(i, n)
    BY <1>1, NumberedSame
  <2>2. \A i, n : Numbering(i, n)' <=> Numbering(i, n)
    BY <1>1 DEF Numbering
  <2> QED BY <1>1, <2>1, <2>2, NumberSame DEF Pair, RegistryInv, NumberInv
<1> QED BY <1>2, <1>4, <1>5, <1>6 DEF RegistryInv

\* Every step of every thread keeps the invariant.
LEMMA NextKeeps == RegistryInv /\ [Next]_registryVars => RegistryInv'
<1> SUFFICES ASSUME RegistryInv, [Next]_registryVars PROVE RegistryInv'
  OBVIOUS
<1>1. CASE UNCHANGED registryVars
  BY <1>1, StutterKeeps
<1>2. ASSUME NEW t \in Threads, NEW h \in Handles,
             \/ LoadFromFile(t, h) \/ LoadFromData(t, h) \/ BinaryLoad(t, h)
             \/ DevBinaryRegister(t, h) \/ RegisterAllKernel(t, h) \/ Unload(t, h)
      PROVE  RegistryInv'
  <2>1. CASE LoadFromFile(t, h) \/ LoadFromData(t, h)
    BY <2>1, CreateContextKeeps, UnreadKeeps DEF LoadFromFile, LoadFromData
  <2>2. CASE DevBinaryRegister(t, h) \/ RegisterAllKernel(t, h)
    BY <2>2, AddHdlKeeps, UnreadKeeps DEF DevBinaryRegister, RegisterAllKernel, TooLong
  <2> QED BY <1>2, <2>1, <2>2, BinaryLoadKeeps, UnloadKeeps
<1>3. ASSUME NEW t \in Threads, AclInit(t) \/ AclInitFails(t) \/ AclStore(t) \/ PushEvent(t)
      PROVE  RegistryInv'
  BY <1>3, AclInitKeeps, AclInitFailsKeeps, AclStoreKeeps, PushEventKeeps
<1>4. ASSUME NEW t \in Threads, NEW h \in Handles, NEW k \in Kernels,
             GetFunction(t, h, k) \/ FunctionRegister(t, h, k) \/ LaunchFunction(t, h, k) \/ LaunchHandle(t, h, k)
      PROVE  RegistryInv'
  BY <1>4, GetFunctionKeeps, FunctionRegisterKeeps, LaunchFunctionKeeps, LaunchHandleKeeps
<1>5. ASSUME NEW t \in Threads, NEW type \in Types, RunDBITask(t, type) PROVE RegistryInv'
  BY <1>5, ReuseKeeps, ConvertKeeps, ConvertFailsKeeps, LoadFailsKeeps DEF RunDBITask
<1>6. ASSUME NEW t \in Threads, (\E k \in Kernels : LaunchStub(t, k)) \/ EndLaunch(t) \/ ThreadEnds(t)
      PROVE  RegistryInv'
  BY <1>6, LaunchStubKeeps, EndLaunchKeeps, ThreadEndsKeeps
<1> QED BY <1>1, <1>2, <1>3, <1>4, <1>5, <1>6 DEF Next

\* The copies a launch runs and the events point to are loaded.
LEMMA InvCopiesLive == RegistryInv => CopiesLive
<1> SUFFICES ASSUME RegistryInv PROVE CopyLoaded /\ StubBinLive
  BY DEF CopiesLive
<1>1. ASSUME NEW t \in Threads, launch[t].tok # 0, ~launch[t].stubbed PROVE made[launch[t].tok].live
  <2>1. PICK key \in DOMAIN taskPool_[t] : taskPool_[t][key].tok = launch[t].tok
    BY <1>1 DEF RegistryInv, LaunchInv
  <2>2. TaskInv(t, key)
    BY DEF RegistryInv
  <2> QED BY <1>1, <2>1, <2>2 DEF TaskInv
<1>2. ASSUME NEW i \in DOMAIN registerEvents_, registerEvents_[i].stub # 0, registerEvents_[i].stub \notin orphaned
      PROVE  made[registerEvents_[i].stub].live
  <2>1. StubBinInv(i)
    BY DEF RegistryInv
  <2>2. PICK t \in Threads : \E key \in DOMAIN taskPool_[t] : taskPool_[t][key].tok = registerEvents_[i].stub
    BY <1>2, <2>1 DEF StubBinInv
  <2>3. PICK key \in DOMAIN taskPool_[t] : taskPool_[t][key].tok = registerEvents_[i].stub
    BY <2>2
  <2>4. TaskInv(t, key)
    BY DEF RegistryInv
  <2> QED BY <1>2, <2>3, <2>4 DEF TaskInv
<1> QED BY <1>1, <1>2 DEF CopyLoaded, StubBinLive

\* RegistryInv holds in every reachable state, for any threads, handles and kernels:
\* the tables of the three managers agree with the library as far as the hooks see it.
THEOREM RegistryInvariant == Spec => []RegistryInv
BY InitRegistry, NextKeeps, PTL DEF Spec

\* RunDBITask gives a launch a copy of its own kernel and of the binary found for it,
\* unless two registrations overlapped and share a number.
THEOREM LaunchesRunOwnCopy == Spec => []RunsOwnCopy
<1>1. RegistryInv => RunsOwnCopy
  BY DEF RegistryInv
<1> QED BY <1>1, RegistryInvariant, PTL

\* What the hooks find for a launch is the load the library has under the handle,
\* unless it was unreadable, registered together with another, or its stub function
\* was registered again with another handle.
THEOREM LaunchesFindOwnBinary == Spec => []FindsOwnBinary
<1>1. RegistryInv => FindsOwnBinary
  BY DEF RegistryInv
<1> QED BY <1>1, RegistryInvariant, PTL

\* No conversion, failed load or end of a thread leaves a launch or a register event
\* with a copy that has been unloaded, outside the two excepted cases.
THEOREM CopiesStayLive == Spec => []CopiesLive
BY InvCopiesLive, RegistryInvariant, PTL
=============================================================================
