--------------------------- MODULE KernelRegistry ---------------------------
(***************************************************************************)
(* What the tool remembers of the application's kernel binaries, and the   *)
(* instrumented copies it makes of them.  The aclrt hooks record a load in *)
(* RegisterManager and its functions in FuncManager; the rt hooks record   *)
(* it in KernelContext.  A launch looks its kernel up there and            *)
(* RunDBITask (DBITask.cpp) converts it once per thread, kind of           *)
(* instrumentation and kernel, keeps the copy loaded in the thread's task  *)
(* pool and reuses it.  No hook of an unload removes anything, and the     *)
(* library hands an unloaded handle out again.  Every load is of a code of *)
(* its own, named by its number.  A thread works on a device of its own:   *)
(* launches of two threads on one device are the subject of                *)
(* SanitizerLaunch.                                                        *)
(***************************************************************************)
EXTENDS Integers, Sequences

CONSTANTS
    Threads,        \* host threads of the application
    Handles,        \* binary handles of the library
    Kernels,        \* kernels of a binary (tiling keys, stub functions)
    NoHandle,
    MaxLoads,       \* bound: loads of the application
    MaxLaunches,    \* bound: launches of the application
    MaxMade         \* bound: instrumented binaries ever loaded

ASSUME KernelRegistryAssumption ==
    /\ NoHandle \notin Handles
    /\ {MaxLoads, MaxLaunches, MaxMade} \subseteq Nat

VARIABLES
    lib,            \* library: the load under a handle, 0 for none
    kind,           \* the call a handle came from: "acl", "dev" (rtDevBinaryRegister)
                    \* or "all" (rtRegisterAllKernel)
    loads,          \* loads so far
    work,           \* per thread: the registration in progress
    currentRegId_,  \* RegisterManager
    contexts_,      \* RegisterManager: handle -> register context
    held,           \* library: functions <<handle, kernel>> the application has got
    funcs,          \* FuncManager::contexts_: function -> its register context
    registerEvents_,\* KernelContext: records [load, stub]
    hdlToRegId_,    \* KernelContext: handle -> index of its event, 0 for none
    stubs,          \* library: the handle a stub function is registered with
    stubInfo_,      \* KernelContext: stub function -> handle
    taskPool_,      \* per thread: DBITaskFactory::taskPool_, key -> task
    keep,           \* per thread: DBITaskConfig::keepTaskOutputs_
    made,           \* instrumented binaries: records [load, k, live]
    launch,         \* per thread: the launch in progress
    launches,       \* launches so far
    \* history
    overlapped,     \* loads registered while another thread was at it
    unread,         \* loads whose binary the tool could not read
    orphaned        \* instrumented binaries given up without a successor

loadVars == <<lib, kind, loads, work, currentRegId_, contexts_, overlapped, unread>>
funcVars == <<held, funcs, stubs, stubInfo_>>
rtVars == <<registerEvents_, hdlToRegId_>>
taskVars == <<taskPool_, keep, made, orphaned>>
launchVars == <<launch, launches>>
registryVars == <<loadVars, funcVars, rtVars, taskVars, launchVars>>

Types == {"customize", "bbcount"}

\* A register context: its number and the load it was read from.
NoCtx == [id |-> 0, load |-> 0]
Idle == [at |-> "idle", h |-> NoHandle, id |-> 0, load |-> 0]
NoLaunch == [how |-> "none", h |-> NoHandle, k |-> "none", load |-> 0, ctx |-> NoCtx, tok |-> 0, stubbed |-> FALSE]

\* A task before its first conversion: no binary, nothing registered.
NewTask == [tok |-> 0, dir |-> FALSE, stubTok |-> 0]

Init ==
    /\ lib = [h \in Handles |-> 0] /\ kind = [h \in Handles |-> "acl"] /\ loads = 0
    /\ work = [t \in Threads |-> Idle]
    /\ currentRegId_ = 1 /\ contexts_ = [h \in Handles |-> NoCtx]
    /\ held = {} /\ funcs = [f \in Handles \X Kernels |-> NoCtx]
    /\ registerEvents_ = <<>> /\ hdlToRegId_ = [h \in Handles |-> 0]
    /\ stubs = [k \in Kernels |-> NoHandle] /\ stubInfo_ = [k \in Kernels |-> NoHandle]
    /\ taskPool_ = [t \in Threads |-> <<>>] /\ keep = [t \in Threads |-> FALSE]
    /\ made = <<>>
    /\ launch = [t \in Threads |-> NoLaunch] /\ launches = 0
    /\ overlapped = {} /\ unread = {} /\ orphaned = {}

Free(t) == work[t] = Idle /\ launch[t] = NoLaunch
Ready(h, how) == lib[h] # 0 /\ kind[h] = how /\ \A u \in Threads : work[u].h # h

-----------------------------------------------------------------------------
(* aclrtBinaryLoadFromFile, aclrtBinaryLoadFromData: the library loads,    *)
(* then CreateContext reads the number, parses the binary, takes the next  *)
(* number and stores the context, the last step alone under mtx_.          *)

\* The library gives a load to a handle that is free.
Loaded(h, how) ==
    /\ lib[h] = 0 /\ loads < MaxLoads
    /\ loads' = loads + 1
    /\ lib' = [lib EXCEPT ![h] = loads + 1]
    /\ kind' = [kind EXCEPT ![h] = how]

\* Threads in the middle of a registration of the same kind.
Together(t, at) == {u \in Threads \ {t} : work[u].at = at}
Overlap(t, at) ==
    overlapped' = overlapped \cup
        (IF Together(t, at) = {} THEN {} ELSE {loads + 1} \cup {work[u].load : u \in Together(t, at)})

CreateContext(t, h) ==
    /\ Free(t)
    /\ Loaded(h, "acl")
    /\ work' = [work EXCEPT ![t] = [at |-> "init", h |-> h, id |-> currentRegId_, load |-> loads + 1]]
    /\ Overlap(t, "init")
    /\ UNCHANGED <<currentRegId_, contexts_, unread, funcVars, rtVars, taskVars, launchVars>>

\* The hook of a load from memory creates a context in any case, the hook of
\* a load from a file not for a path that ends in .json.
LoadFromData(t, h) == CreateContext(t, h)
LoadFromFile(t, h) ==
    \/ CreateContext(t, h)
    \/ /\ Free(t)
       /\ Loaded(h, "acl")
       /\ unread' = unread \cup {loads + 1}
       /\ UNCHANGED <<work, currentRegId_, contexts_, overlapped, funcVars, rtVars, taskVars, launchVars>>

\* RegisterContext::Init fails: the file is gone or has no symbols.
AclInitFails(t) ==
    /\ work[t].at = "init"
    /\ unread' = unread \cup {work[t].load}
    /\ work' = [work EXCEPT ![t] = Idle]
    /\ UNCHANGED <<lib, kind, loads, currentRegId_, contexts_, overlapped, funcVars, rtVars, taskVars, launchVars>>

AclInit(t) ==
    /\ work[t].at = "init"
    /\ currentRegId_' = currentRegId_ + 1
    /\ work' = [work EXCEPT ![t].at = "store"]
    /\ UNCHANGED <<lib, kind, loads, contexts_, overlapped, unread, funcVars, rtVars, taskVars, launchVars>>

\* Mutant: insert keeps the context of the earlier load.
StoredFirst(h, ctx) == IF contexts_[h] = NoCtx THEN [contexts_ EXCEPT ![h] = ctx] ELSE contexts_

\* contexts_[binHandle] = ctx.
Stored(h, ctx) == [contexts_ EXCEPT ![h] = ctx]

AclStore(t) ==
    /\ work[t].at = "store"
    /\ contexts_' = Stored(work[t].h, [id |-> work[t].id, load |-> work[t].load])
    /\ work' = [work EXCEPT ![t] = Idle]
    /\ UNCHANGED <<lib, kind, loads, currentRegId_, overlapped, unread, funcVars, rtVars, taskVars, launchVars>>

\* aclrtCreateBinary and aclrtBinaryLoad: CreateContext holds mtx_ throughout.
\* CacheElfData refuses a binary that is too long, Init one it cannot parse.
BinaryLoad(t, h) ==
    /\ Free(t)
    /\ Loaded(h, "acl")
    /\ \/ /\ contexts_' = Stored(h, [id |-> currentRegId_, load |-> loads + 1])
          /\ currentRegId_' = currentRegId_ + 1
          /\ UNCHANGED unread
       \/ /\ unread' = unread \cup {loads + 1}
          /\ UNCHANGED <<contexts_, currentRegId_>>
    /\ Overlap(t, "init")
    /\ UNCHANGED <<work, funcVars, rtVars, taskVars, launchVars>>

\* aclrtBinaryGetFunction, ...ByEntry: FuncManager::CreateContext keeps the
\* context the handle has now; without one it leaves the table alone.
GetFunction(t, h, k) ==
    /\ Free(t) /\ Ready(h, "acl") /\ <<h, k>> \notin held
    /\ held' = held \cup {<<h, k>>}
    /\ funcs' = IF contexts_[h] = NoCtx THEN funcs ELSE [funcs EXCEPT ![<<h, k>>] = contexts_[h]]
    /\ UNCHANGED <<stubs, stubInfo_, loadVars, rtVars, taskVars, launchVars>>

-----------------------------------------------------------------------------
(* rtDevBinaryRegister, rtRegisterAllKernel: AddHdlRegisterEvent names the *)
(* index the event will have and then appends it, without a lock.          *)

AddHdlRegisterEvent(t, h, how) ==
    /\ Free(t)
    /\ Loaded(h, how)
    /\ hdlToRegId_' = [hdlToRegId_ EXCEPT ![h] = Len(registerEvents_) + 1]
    /\ work' = [work EXCEPT ![t] = [at |-> "push", h |-> h, id |-> 0, load |-> loads + 1]]
    /\ Overlap(t, "push")
    /\ UNCHANGED <<currentRegId_, contexts_, unread, registerEvents_, funcVars, taskVars, launchVars>>

\* A binary longer than MAX_MEM_BYTE_SIZE is not recorded.
TooLong(t, h, how) ==
    /\ Free(t)
    /\ Loaded(h, how)
    /\ unread' = unread \cup {loads + 1}
    /\ UNCHANGED <<work, currentRegId_, contexts_, overlapped, funcVars, rtVars, taskVars, launchVars>>

DevBinaryRegister(t, h) == AddHdlRegisterEvent(t, h, "dev") \/ TooLong(t, h, "dev")
RegisterAllKernel(t, h) == AddHdlRegisterEvent(t, h, "all") \/ TooLong(t, h, "all")

\* registerEvents_.push_back.
PushEvent(t) ==
    /\ work[t].at = "push"
    /\ registerEvents_' = Append(registerEvents_, [load |-> work[t].load, stub |-> 0])
    /\ work' = [work EXCEPT ![t] = Idle]
    /\ UNCHANGED <<lib, kind, loads, currentRegId_, contexts_, overlapped, unread, hdlToRegId_, funcVars, taskVars, launchVars>>

\* rtFunctionRegister: stubInfo_.insert leaves an entry that is there.
FunctionRegister(t, h, k) ==
    /\ Free(t) /\ Ready(h, "dev") /\ stubs[k] = NoHandle
    /\ stubs' = [stubs EXCEPT ![k] = h]
    /\ stubInfo_' = IF stubInfo_[k] = NoHandle THEN [stubInfo_ EXCEPT ![k] = h] ELSE stubInfo_
    /\ UNCHANGED <<held, funcs, loadVars, rtVars, taskVars, launchVars>>

\* aclrtBinaryUnLoad is not hooked and the hook of rtDevBinaryUnRegister keeps
\* nothing.  The application unloads no binary that it is launching from.
Unload(t, h) ==
    /\ Free(t) /\ lib[h] # 0
    /\ \A u \in Threads : work[u].h # h /\ launch[u].h # h
    /\ lib' = [lib EXCEPT ![h] = 0]
    /\ held' = {f \in held : f[1] # h}
    /\ stubs' = [k \in Kernels |-> IF stubs[k] = h THEN NoHandle ELSE stubs[k]]
    /\ UNCHANGED <<kind, loads, work, currentRegId_, contexts_, overlapped, unread, funcs, stubInfo_, rtVars, taskVars, launchVars>>

-----------------------------------------------------------------------------
(* Launches.                                                               *)

\* What KernelContext finds for a handle: GetRegisterId, GetDevBinary.  A
\* stub function still mapped to a handle that is just being registered
\* again leads past the end of the events: nothing to work with.
Registered(h) ==
    IF h = NoHandle THEN NoCtx
    ELSE IF hdlToRegId_[h] \notin DOMAIN registerEvents_ THEN NoCtx
    ELSE [id |-> hdlToRegId_[h], load |-> registerEvents_[hdlToRegId_[h]].load]

\* The kernel the application launches, and what the tool finds of it.
Begin(t, how, h, k, ctx) ==
    /\ Free(t) /\ launches < MaxLaunches
    /\ launch' = [launch EXCEPT ![t] =
           [how |-> how, h |-> h, k |-> k, load |-> lib[h], ctx |-> ctx, tok |-> 0, stubbed |-> FALSE]]
    /\ launches' = launches + 1
    /\ UNCHANGED <<loadVars, funcVars, rtVars, taskVars>>

LaunchFunction(t, h, k) == Ready(h, "acl") /\ <<h, k>> \in held /\ Begin(t, "acl", h, k, funcs[<<h, k>>])
LaunchHandle(t, h, k) == Ready(h, "all") /\ Begin(t, "handle", h, k, Registered(h))
LaunchStub(t, k) == stubs[k] # NoHandle /\ Begin(t, "stub", stubs[k], k, Registered(stubInfo_[k]))

\* Mutant: one task for all kernels of a binary.
TilingKeyIgnored(l, type) == <<l.ctx.id, type, "tilingKey", "">>

\* The key of a task, one for each overload of RunDBITask: a stub launch gives
\* the stub function, a launch by handle the tiling key, aclrt the kernel
\* name.  The pool is one, and so is the space of numbers in it.
StubKey(l, type) == <<l.ctx.id, type, "stubFunc", l.k>>
TilingKey(l, type) == <<l.ctx.id, type, "tilingKey", l.k>>
NameKey(l, type) == <<l.ctx.id, type, "kernelName", l.k>>
TaskKey(l, type) ==
    CASE l.how = "stub" -> StubKey(l, type)
      [] l.how = "handle" -> TilingKey(l, type)
      [] OTHER -> NameKey(l, type)

\* GetOrCreate.
TaskOf(t, l, type) ==
    LET key == TaskKey(l, type) IN IF key \in DOMAIN taskPool_[t] THEN taskPool_[t][key] ELSE NewTask
WithTask(t, l, type, task) ==
    [taskPool_ EXCEPT ![t] =
        [x \in DOMAIN @ \cup {TaskKey(l, type)} |-> IF x = TaskKey(l, type) THEN task ELSE @[x]]]

\* keepTaskOutputs_ once BBCountDumper has set it for the thread.
Keeps(t, type) == keep[t] \/ type = "bbcount"

NeedConvert(task, kept) == task.tok = 0 \/ (kept /\ ~task.dir)

\* The binary of a destroyed task, or one that has been replaced, is unloaded.
Drop(m, toks) == [i \in 1..Len(m) |-> IF i \in toks THEN [m[i] EXCEPT !.live = FALSE] ELSE m[i]]
Copy(l) == [load |-> l.ctx.load, k |-> l.k, live |-> TRUE]

\* Mutant: only the first instrumented binary is remembered.
SetDbiBinaryOnce(l, tok) ==
    registerEvents_' = IF l.how = "acl" \/ registerEvents_[l.ctx.id].stub # 0 THEN registerEvents_
                       ELSE [registerEvents_ EXCEPT ![l.ctx.id].stub = tok]

\* SetDbiBinary: the event remembers the instrumented binary by address.
SetDbiBinary(l, tok) ==
    registerEvents_' = IF l.how = "acl" THEN registerEvents_
                       ELSE [registerEvents_ EXCEPT ![l.ctx.id].stub = tok]

\* The launch goes on with the copy; a stub function leads to the binary it
\* was registered with.
Switched(l, task) ==
    [l EXCEPT !.tok = IF l.how = "stub" THEN task.stubTok ELSE task.tok,
              !.stubbed = (l.how = "stub" /\ task.stubTok # task.tok)]

\* RunDBITask on a task that has its copy.
Reuse(t, type) ==
    LET l == launch[t]
        task == TaskOf(t, l, type)
    IN  /\ l.ctx # NoCtx
        /\ ~NeedConvert(task, Keeps(t, type))
        /\ l.how = "stub" => task.stubTok # 0
        /\ SetDbiBinary(l, task.tok)
        /\ launch' = [launch EXCEPT ![t] = Switched(l, task)]
        /\ keep' = [keep EXCEPT ![t] = Keeps(t, type)]
        /\ UNCHANGED <<taskPool_, made, orphaned, launches, hdlToRegId_, loadVars, funcVars>>

\* A first conversion, or a second one because the outputs are to be kept and
\* the first left none.  For a stub launch stubFunc_ is registered with the
\* new binary once per task.
Converted(l, task, tok, kept) ==
    [tok |-> tok, dir |-> kept,
     stubTok |-> IF l.how = "stub" /\ task.stubTok = 0 THEN tok ELSE task.stubTok]

Convert(t, type) ==
    LET l == launch[t]
        task == TaskOf(t, l, type)
        new == Converted(l, task, Len(made) + 1, Keeps(t, type))
    IN  /\ l.ctx # NoCtx /\ Len(made) < MaxMade
        /\ NeedConvert(task, Keeps(t, type))
        /\ made' = Append(Drop(made, {task.tok}), Copy(l))
        /\ taskPool_' = WithTask(t, l, type, new)
        /\ SetDbiBinary(l, new.tok)
        /\ launch' = [launch EXCEPT ![t] = Switched(l, new)]
        /\ keep' = [keep EXCEPT ![t] = Keeps(t, type)]
        /\ UNCHANGED <<orphaned, launches, hdlToRegId_, loadVars, funcVars>>

\* The conversion or the saving of the old binary fails, or the library
\* refuses the new one on the aclrt path: the task is as it was (a new one
\* stays in the pool empty, which is as good as none).
ConvertFails(t, type) ==
    LET l == launch[t]
        task == TaskOf(t, l, type)
    IN  /\ l.ctx # NoCtx
        /\ NeedConvert(task, Keeps(t, type))
        /\ launch' = [launch EXCEPT ![t].tok = 0, ![t].stubbed = FALSE]
        /\ keep' = [keep EXCEPT ![t] = Keeps(t, type)]
        /\ UNCHANGED <<taskPool_, made, orphaned, launches, rtVars, loadVars, funcVars>>

\* What a task holds when the library refuses its next binary: rt drops the
\* old one before it asks, and gives up the replacement; aclrt overwrites
\* funcCtx_ with nothing when the function is not found.
Refused(task) == [task EXCEPT !.tok = 0]

LoadFails(t, type) ==
    LET l == launch[t]
        task == TaskOf(t, l, type)
    IN  /\ l.ctx # NoCtx /\ task.tok # 0
        /\ NeedConvert(task, Keeps(t, type))
        /\ made' = Drop(made, {task.tok})
        /\ orphaned' = orphaned \cup {task.tok}
        /\ taskPool_' = WithTask(t, l, type, Refused(task))
        /\ launch' = [launch EXCEPT ![t].tok = 0, ![t].stubbed = FALSE]
        /\ keep' = [keep EXCEPT ![t] = Keeps(t, type)]
        /\ UNCHANGED <<launches, rtVars, loadVars, funcVars>>

RunDBITask(t, type) == Reuse(t, type) \/ Convert(t, type) \/ ConvertFails(t, type) \/ LoadFails(t, type)

EndLaunch(t) ==
    /\ launch[t] # NoLaunch
    /\ launch' = [launch EXCEPT ![t] = NoLaunch]
    /\ UNCHANGED <<launches, loadVars, funcVars, rtVars, taskVars>>

\* A thread ends: its thread_local pool and configuration go with it.
ThreadEnds(t) ==
    LET toks == {taskPool_[t][key].tok : key \in DOMAIN taskPool_[t]} \ {0}
    IN  /\ Free(t) /\ taskPool_[t] # <<>>
        /\ made' = Drop(made, toks)
        /\ orphaned' = orphaned \cup toks
        /\ taskPool_' = [taskPool_ EXCEPT ![t] = <<>>]
        /\ keep' = [keep EXCEPT ![t] = FALSE]
        /\ UNCHANGED <<loadVars, funcVars, rtVars, launchVars>>

Next ==
    \E t \in Threads :
        \/ \E h \in Handles :
               \/ LoadFromFile(t, h) \/ LoadFromData(t, h) \/ BinaryLoad(t, h)
               \/ DevBinaryRegister(t, h) \/ RegisterAllKernel(t, h) \/ Unload(t, h)
        \/ AclInit(t) \/ AclInitFails(t) \/ AclStore(t) \/ PushEvent(t)
        \/ \E h \in Handles, k \in Kernels :
               GetFunction(t, h, k) \/ FunctionRegister(t, h, k) \/ LaunchFunction(t, h, k) \/ LaunchHandle(t, h, k)
        \/ \E k \in Kernels : LaunchStub(t, k)
        \/ launch[t] # NoLaunch /\ \E type \in Types : RunDBITask(t, type)
        \/ EndLaunch(t)
        \/ ThreadEnds(t)

Spec == Init /\ [][Next]_registryVars

-----------------------------------------------------------------------------
(* Properties.                                                             *)

\* The copy a launch runs was made of the kernel, and of the binary, that the
\* tool found for it, whatever was loaded, unloaded and converted before,
\* unless the binary was registered while another thread registered one:
\* then both may have the same number and share their tasks.
RunsOwnCopy ==
    \A t \in Threads : LET l == launch[t] IN
        l.tok # 0 =>
            \/ made[l.tok].load = l.ctx.load /\ made[l.tok].k = l.k
            \/ {made[l.tok].load, l.ctx.load} \subseteq overlapped

\* What the tool finds for a launch is the binary the application loaded
\* last under the handle, unless the tool could not read that one or
\* registered it together with another.  A stub function that the
\* application registered again with another handle is excepted: stubInfo_
\* keeps the first.
FindsOwnBinary ==
    \A t \in Threads : LET l == launch[t] IN
        l.ctx # NoCtx =>
            \/ l.ctx.load = l.load
            \/ l.load \in unread \cup overlapped
            \/ l.how = "stub" /\ stubInfo_[l.k] # l.h

\* The copy a launch passes to the library is loaded: no conversion, failure
\* or end of a thread unloads it before.  Excepted is a stub function whose
\* task was converted again: registered_ keeps it with the first copy.
CopyLoaded ==
    \A t \in Threads : launch[t].tok # 0 /\ ~launch[t].stubbed => made[launch[t].tok].live

\* The binary a register event points to (stubBin) belongs to a task that is
\* alive, so that GetDevBinary reads no freed memory, unless the task ended
\* with its thread or with a failed second conversion.
StubBinLive ==
    \A i \in DOMAIN registerEvents_ : LET tok == registerEvents_[i].stub IN
        tok # 0 /\ tok \notin orphaned => made[tok].live

\* No launch and no register event names a copy that is gone.
CopiesLive == CopyLoaded /\ StubBinLive
=============================================================================
