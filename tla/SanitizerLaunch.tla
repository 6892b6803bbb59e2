-------------------------- MODULE SanitizerLaunch --------------------------
(***************************************************************************)
(* Kernel launches under the memory checker.                               *)
(*                                                                         *)
(* A launch call runs the script of its hook (LaunchScripts): it enters    *)
(* the launch in the registry of the device, asks for a record buffer      *)
(* (__sanitizer_init, DevMemManager), puts its address into the arguments, *)
(* replaces the kernel by an instrumented copy, launches it, waits, tells  *)
(* the tool the ranges the kernel may touch, sends it the records          *)
(* (__sanitizer_finalize) and withdraws the ranges.  A kernel launched     *)
(* with <<<>>> was compiled with the checker: the compiler put a           *)
(* __sanitizer_init before the call and a __sanitizer_finalize after it.   *)
(*                                                                         *)
(* The buffer manager and the instrumentation settings belong to the       *)
(* thread; the list of launches and the argument description belong to     *)
(* the device and to the interface (acl or rt) and are read and written    *)
(* without a lock.  All threads use one device.  A kernel that was         *)
(* launched counts as running until its stream is synchronised.            *)
(***************************************************************************)
EXTENDS LaunchScripts, Naturals, FiniteSets, SequencesExt

CONSTANTS
    Threads,        \* threads of the application
    Scenarios,      \* bounds of a behaviour: [threads, hooks, kinds, launches, fails,
                    \* interrupts]
    Kinds           \* what may be launched: [skip, sink, static, wrapped]

ASSUME ScenarioAssumption ==
    /\ \A s \in Scenarios : s.threads \subseteq Threads /\ s.kinds \subseteq Kinds
                            /\ s.hooks \subseteq Hooks /\ s.launches \in Nat /\ s.fails \in Nat
                            /\ s.interrupts \in BOOLEAN
    /\ Kinds \subseteq [skip : BOOLEAN, sink : BOOLEAN, static : BOOLEAN, wrapped : BOOLEAN]
    /\ \A k \in Kinds : k.wrapped => k.static

VARIABLES
    left,       \* launches the application may still make
    fails,      \* calls that may still fail
    scen,       \* the scenario
    call,       \* the call each thread is in
    mgr,        \* DevMemManager of each thread
    bufs,       \* device buffers each thread has allocated, oldest first
    dbi,        \* DBITaskConfig of each thread: "off", "named" or "all"
    configured, \* the device's configuration was received
    info,       \* what was launched, in the order of the calls
    dev,        \* per interface: launches, argument description, archive
    told,       \* ranges the tool knows; kernels announced
    reports,    \* how often each launch was reported
    dumps,      \* what was dumped for a launch in a model
    done,       \* calls that returned
    kill,       \* Ctrl-C was pressed
    dead        \* the process has left

vars == <<left, fails, scen, call, mgr, bufs, dbi, configured, info, dev, told, reports,
          dumps, done, kill, dead>>

None == 0
NoCall == [phase |-> "idle"]
Ids == 1..Len(info)
Idle == \A t \in Threads : call[t] = NoCall

NoMgr == [ptr |-> None, size |-> 0, init |-> FALSE, skip |-> FALSE]

Init ==
    /\ scen \in Scenarios
    /\ left = scen.launches /\ fails = scen.fails
    /\ call = [t \in Threads |-> NoCall]
    /\ mgr = [t \in Threads |-> NoMgr]
    /\ bufs = [t \in Threads |-> <<>>]
    /\ dbi = [t \in Threads |-> "off"]
    /\ configured = FALSE
    /\ info = <<>>
    /\ dev = [a \in {"acl", "rt"} |-> [launches |-> <<>>, args |-> None, ops |-> {},
                                       archive |-> <<>>]]
    /\ told = [announced |-> {}, sections |-> {}, ops |-> {}, overflow |-> {}]
    /\ reports = <<>> /\ dumps = <<>> /\ done = <<>>
    /\ kill = FALSE /\ dead = FALSE

-----------------------------------------------------------------------------
(* The frame of a call. *)

\* What the hook object and the variables around the call hold.
Frame(hook, id, k) ==
    [phase |-> "open", hook |-> hook, id |-> id, static |-> k.static,
     wrapped |-> k.wrapped, skip |-> FALSE, sink |-> k.sink,
     todo |-> IF k.wrapped THEN Steps(<<"OuterInit">>) ELSE <<>>,
     outer |-> None, event |-> None, pc |-> None, sections |-> FALSE,
     mem |-> None, arg |-> None, made |-> None, inst |-> FALSE, kernel |-> id,
     filled |-> FALSE, abort |-> FALSE, tracked |-> TRUE, running |-> FALSE,
     ok |-> FALSE, failed |-> FALSE, alone |-> TRUE, stale |-> FALSE]

At(t, name) == ~dead /\ call[t] # NoCall /\ call[t].todo # <<>> /\ call[t].todo[1].call = name
Step(f) == [f EXCEPT !.todo = Tail(@)]
Set(t, f) == call' = [call EXCEPT ![t] = Step(f)]

\* A step that fails: the hook goes on or leaves the phase.
Failing(f) == IF f.todo[1].onFail = "go" THEN [f EXCEPT !.failed = TRUE]
              ELSE [f EXCEPT !.failed = TRUE, !.todo = <<f.todo[1]>>,
                             !.tracked = @ /\ f.phase # "init"]
MayFail == fails > 0 /\ fails' = fails - 1

LastOf(api) == IF dev[api].launches = <<>> THEN None ELSE Last(dev[api].launches)
Sees(id, field) == id # None /\ info[id][field]

\* Calls that overlap on the device are marked, whatever their interface.
Overlapped(t) == [u \in Threads |->
    IF u # t /\ call[u] # NoCall THEN [call[u] EXCEPT !.alone = FALSE] ELSE call[u]]

\* A thread launches a kernel.
Begin(t) ==
    /\ ~dead /\ left > 0 /\ t \in scen.threads /\ call[t] = NoCall
    /\ \E hook \in scen.hooks, k \in scen.kinds :
          LET f == Frame(hook, Len(info) + 1, k)
              alone == \A u \in Threads : call[u] = NoCall
          IN  /\ k.wrapped => hook \in AclHooks \cup {"rtKernelLaunch"}
              /\ call' = [Overlapped(t) EXCEPT ![t] = [f EXCEPT !.alone = alone]]
              /\ info' = Append(info, [skip |-> k.skip, sink |-> k.sink])
    /\ left' = left - 1
    /\ reports' = Append(reports, 0) /\ dumps' = Append(dumps, <<>>)
    /\ done' = Append(done, NoCall)
    /\ UNCHANGED <<fails, scen, mgr, bufs, dbi, configured, dev, told, kill, dead>>

-----------------------------------------------------------------------------
(* InitParam. *)

Registry == <<left, scen, mgr, bufs, dbi, configured, info, told, reports, dumps, done,
              kill, dead>>

Entered(f) == [dev EXCEPT ![Api(f.hook)].launches = Append(@, f.id)]

\* The launch joins the device's list, or is not followed: its function or its
\* arguments are unknown.
CreateContext(t) ==
    /\ At(t, "CreateContext")
    /\ LET f == call[t]
       IN  \/ /\ dev' = Entered(f) /\ UNCHANGED fails
              /\ Set(t, [f EXCEPT !.event = f.id, !.pc = f.id])
           \/ MayFail /\ Set(t, Failing(f)) /\ UNCHANGED dev
    /\ UNCHANGED Registry

\* The same for the runtime's interface; a stub that was never registered is not
\* entered, a handle always is.
AddLaunchEvent(t) ==
    /\ At(t, "AddLaunchEvent")
    /\ LET f == call[t]
       IN  \/ dev' = Entered(f) /\ Set(t, f) /\ UNCHANGED fails
           \/ /\ f.hook # "rtKernelLaunchWithHandleV2" /\ MayFail
              /\ Set(t, Failing(f)) /\ UNCHANGED dev
    /\ UNCHANGED Registry

\* launchId_ is the last launch of the device at this moment.
GetLaunchId(t) ==
    /\ At(t, "GetLaunchId")
    /\ Set(t, [call[t] EXCEPT !.event = LastOf("rt")])
    /\ UNCHANGED <<dev, fails, Registry>>

\* The device's argument description is replaced by that of this launch; what
\* was noted for another launch that is still open is gone.
Described(f) == [dev EXCEPT ![Api(f.hook)].args = f.id, ![Api(f.hook)].ops = {}]

UpdateOpMemInfo(t) ==
    /\ At(t, "UpdateOpMemInfo")
    /\ dev' = Described(call[t]) /\ Set(t, call[t])
    /\ UNCHANGED <<fails, Registry>>

\* Two of the runtime's hooks take the sink flag from the last launch, too.
ParseMetaData(t) ==
    /\ At(t, "ParseMetaData")
    /\ LET f == call[t]
           e == IF f.hook = "rtKernelLaunchWithFlagV2" THEN f.event ELSE LastOf("rt")
       IN  dev' = Described(f) /\ Set(t, [f EXCEPT !.sink = Sees(e, "sink")])
    /\ UNCHANGED <<fails, Registry>>

\* The description is kept under the number of the launch.
ArchiveMemInfo(t) ==
    /\ At(t, "ArchiveMemInfo")
    /\ LET a == Api(call[t].hook)
       IN  dev' = [dev EXCEPT ![a].archive = Append(@, dev[a].args)]
    /\ Set(t, call[t])
    /\ UNCHANGED <<fails, Registry>>

-----------------------------------------------------------------------------
(* Phases of the call. *)

\* GetConfig: the first call of the device keeps the tool's kernel filter, every
\* later one sets the thread to instrument all kernels.
Configured(t) == [dbi EXCEPT ![t] = IF configured THEN "all" ELSE "named"]

\* The hook asks for the filter with the name of its kernel; the runtime's
\* hooks with the name of the device's last launch (SkipSanitizer).
ToPre(t) ==
    LET f == call[t]
        skip == IF Api(f.hook) = "acl" THEN info[f.id].skip ELSE Sees(LastOf("rt"), "skip")
    IN  /\ f.phase = "init" /\ f.tracked
        /\ dbi' = Configured(t) /\ configured' = TRUE
        /\ call' = [call EXCEPT ![t] = [f EXCEPT
              !.phase = "pre", !.skip = skip, !.todo = SanitizerPre(f.hook, skip, f.sink)]]
        /\ UNCHANGED <<left, fails, scen, mgr, bufs, info, dev, told, reports, dumps, done,
                       kill, dead>>

Moves(t, f) ==
    /\ call' = [call EXCEPT ![t] = f]
    /\ UNCHANGED <<left, scen, mgr, bufs, dbi, configured, info, dev, told, reports, dumps,
                   done, kill, dead>>

\* The library launches the kernel, or refuses; an aborted call does not ask.
Launch(t) ==
    LET f == call[t]
        post == SanitizerPost(f.hook, f.skip, f.sink, f.mem # None)
        after == [f EXCEPT !.phase = "post", !.todo = post]
    IN  /\ f.phase = "pre" \/ (f.phase = "init" /\ ~f.tracked)
        /\ \/ /\ f.abort /\ UNCHANGED fails
              /\ Moves(t, [f EXCEPT !.phase = "end"])
           \/ /\ ~f.abort /\ UNCHANGED fails
              /\ Moves(t, [(IF f.tracked THEN after ELSE [f EXCEPT !.phase = "end"]) EXCEPT
                              !.running = TRUE, !.ok = TRUE])
           \/ /\ ~f.abort /\ MayFail
              /\ Moves(t, [(IF f.hook \in RtHooks THEN after ELSE [f EXCEPT !.phase = "end"])
                              EXCEPT !.failed = TRUE])

\* Post ends, then the code the compiler put after the call runs.
Advance(t) ==
    /\ ~dead /\ call[t] # NoCall /\ call[t].todo = <<>>
    /\ LET f == call[t] IN
       \/ /\ f.phase = "open" /\ UNCHANGED fails
          /\ Moves(t, [f EXCEPT !.phase = "init", !.todo = InitParam(f.hook)])
       \/ ToPre(t)
       \/ Launch(t)
       \/ /\ f.phase = "post" /\ UNCHANGED fails
          /\ Moves(t, [f EXCEPT !.phase = "end", !.todo = PostEnd(f.hook)])
       \/ /\ f.phase = "end" /\ UNCHANGED fails
          /\ Moves(t, [f EXCEPT !.phase = "close",
                          !.todo = IF f.wrapped THEN Steps(<<"OuterFinalize">>) ELSE <<>>])
       \/ /\ f.phase = "close"
          /\ done' = [done EXCEPT ![f.id] = f]
          /\ call' = [call EXCEPT ![t] = NoCall]
          /\ UNCHANGED <<left, fails, scen, mgr, bufs, dbi, configured, info, dev, told,
                         reports, dumps, kill, dead>>

-----------------------------------------------------------------------------
(* The record buffer. *)

Buffers == <<left, scen, info, dev, told, dumps, done, kill, dead>>

Freed(m, b) == IF m.ptr = None THEN b ELSE [b EXCEPT ![m.ptr].live = FALSE]

\* The buffer at hand if it is large enough, else a new one for it.
MallocMemory(m, b, size) ==
    IF m.size >= size THEN [mgr |-> m, bufs |-> b]
    ELSE [mgr |-> [m EXCEPT !.ptr = Len(b) + 1, !.size = size, !.init = FALSE],
          bufs |-> Append(Freed(m, b), [live |-> TRUE, heads |-> None, size |-> size])]

FreeMgr(m) == [m EXCEPT !.ptr = None, !.size = 0]

\* What __sanitizer_init leaves behind: the pointer it returns, the manager and
\* the buffers.
Outcome(ptr, m, b) == [ptr |-> ptr, mgr |-> m, bufs |-> b]

\* A skipped kernel gets a small buffer without heads.
SkipKernelProcess(m, b) ==
    LET got == MallocMemory(m, b, 1) IN Outcome(got.mgr.ptr, got.mgr, got.bufs)

\* The heads are written for the launch, then the buffer counts as initialised.
BlockHeadsH2D(m, b, id) ==
    LET got == MallocMemory(m, b, 2)
    IN  Outcome(got.mgr.ptr, [got.mgr EXCEPT !.init = TRUE],
                [got.bufs EXCEPT ![got.mgr.ptr].heads = id])

\* The sizes are refused; there is no memory; a head could not be copied and the
\* buffer is given back (the flag of an earlier initialisation stays).
InitFailures(m, b) ==
    LET size == IF m.skip THEN 1 ELSE 2
        got == MallocMemory(m, b, 2)
    IN  {Outcome(None, m, b)}
        \cup (IF m.size >= size THEN {} ELSE {Outcome(None, FreeMgr(m), Freed(m, b))})
        \cup (IF m.skip THEN {}
              ELSE {Outcome(None, FreeMgr(got.mgr), Freed(got.mgr, got.bufs))})

InitOutcomes(t, id) ==
    {IF mgr[t].skip THEN SkipKernelProcess(mgr[t], bufs[t])
     ELSE BlockHeadsH2D(mgr[t], bufs[t], id)}
    \cup IF fails = 0 THEN {} ELSE InitFailures(mgr[t], bufs[t])

\* Mutant: the switch is made although the arguments were not extended.
HandlePreFailureKeeps(f) ==
    [f EXCEPT !.mem = None, !.abort = f.static, !.inst = (f.made # None), !.made = None]

\* The recovery of the host-args hook: records are closed, a kernel that was
\* instrumented at compile time is not launched, another stays the original.
HandlePreFailure(f) == [f EXCEPT !.mem = None, !.abort = f.static, !.made = None]

InitStep(t) ==
    /\ At(t, "Init") \/ At(t, "OuterInit")
    /\ \E o \in InitOutcomes(t, call[t].id) :
          LET f == call[t]
              outer == f.todo[1].call = "OuterInit"
              g == IF outer THEN [f EXCEPT !.outer = o.ptr]
                   ELSE [f EXCEPT !.mem = o.ptr, !.stale = mgr[t].skip # f.skip]
              undone == IF f.todo[1].onFail = "undo" THEN HandlePreFailure(g) ELSE g
          IN  /\ mgr' = [mgr EXCEPT ![t] = o.mgr]
              /\ bufs' = [bufs EXCEPT ![t] = o.bufs]
              /\ IF o.ptr = None
                 THEN fails' = fails - 1 /\ Set(t, Failing(undone))
                 ELSE Set(t, g) /\ UNCHANGED fails
    /\ IF mgr[t].skip THEN UNCHANGED <<dbi, configured>>
       ELSE dbi' = Configured(t) /\ configured' = TRUE
    /\ UNCHANGED <<reports, Buffers>>

\* __sanitizer_finalize sends what is in the buffer and makes it invalid; a
\* device without a valid buffer sends nothing.
Sends(t, ptr) == mgr[t].init /\ ptr # None
Finalized(t, ptr, id) ==
    /\ mgr' = [mgr EXCEPT ![t].init = @ /\ ~Sends(t, ptr)]
    /\ reports' = IF Sends(t, ptr) THEN [reports EXCEPT ![id] = @ + 1] ELSE reports
    /\ dbi' = IF Sends(t, ptr) THEN Configured(t) ELSE dbi
    /\ configured' = (configured \/ Sends(t, ptr))

\* Sending stops at the first copy that fails: the last block is not sent.
Finalize(t) ==
    /\ At(t, "Finalize") \/ At(t, "OuterFinalize")
    /\ LET f == call[t]
           ptr == IF f.todo[1].call = "Finalize" THEN f.mem ELSE f.outer
       IN  /\ Finalized(t, ptr, f.id)
           /\ \/ Set(t, f) /\ UNCHANGED fails
              \/ Sends(t, ptr) /\ MayFail /\ Set(t, [f EXCEPT !.failed = TRUE])
    /\ UNCHANGED <<bufs, Buffers>>

SetSkipKernelFlag(t) ==
    /\ At(t, "SetSkipKernelFlag")
    /\ mgr' = [mgr EXCEPT ![t].skip = call[t].skip]
    /\ Set(t, call[t])
    /\ UNCHANGED <<fails, bufs, dbi, configured, reports, Buffers>>

ResetMemoryInit(t) ==
    /\ At(t, "ResetMemoryInit")
    /\ mgr' = [mgr EXCEPT ![t].init = FALSE]
    /\ Set(t, call[t])
    /\ UNCHANGED <<fails, bufs, dbi, configured, reports, Buffers>>

FreeBuffer(t) ==
    /\ At(t, "FreeBuffer")
    /\ mgr' = [mgr EXCEPT ![t] = FreeMgr(@)]
    /\ bufs' = [bufs EXCEPT ![t] = Freed(mgr[t], @)]
    /\ Set(t, call[t])
    /\ UNCHANGED <<fails, dbi, configured, reports, Buffers>>

-----------------------------------------------------------------------------
(* Arguments and the instrumented kernel. *)

Local == <<left, scen, mgr, bufs, dbi, configured, info, dev, told, reports, dumps, done,
           kill, dead>>

\* The buffer's address joins the arguments; the recovery of the host-args hook
\* closes the records of the launch that will not have them.
ExpandArgs(t) ==
    /\ At(t, "ExpandArgs")
    /\ LET f == call[t]
           undo == f.todo[1].onFail = "undo"
       IN  \/ /\ Set(t, [f EXCEPT !.arg = f.mem])
              /\ UNCHANGED <<fails, mgr, dbi, configured, reports>>
           \/ /\ f.mem # None /\ MayFail
              /\ Set(t, Failing(IF undo THEN HandlePreFailure(f) ELSE f))
              /\ IF undo THEN Finalized(t, f.mem, f.id)
                 ELSE UNCHANGED <<mgr, dbi, configured, reports>>
    /\ UNCHANGED <<bufs, Buffers>>

\* The launch whose kernel is instrumented: a hook of the runtime asks the
\* device for its last one.
Instrumentable(f) == IF Api(f.hook) = "acl" THEN f.id ELSE LastOf("rt")
Enabled(t, id) ==
    /\ id # None /\ ~call[t].static
    /\ dbi[t] = "all" \/ (dbi[t] = "named" /\ ~info[id].skip)

\* The kernel is replaced by its instrumented copy, if one can be made.
RunDBITask(t) ==
    /\ At(t, "RunDBITask")
    /\ LET f == call[t]
           id == Instrumentable(f)
       IN  \/ /\ Enabled(t, id)
              /\ Set(t, [f EXCEPT !.inst = TRUE, !.kernel = id]) /\ UNCHANGED fails
           \/ ~Enabled(t, id) /\ Set(t, f) /\ UNCHANGED fails
           \/ Enabled(t, id) /\ MayFail /\ Set(t, Failing(f))
    /\ UNCHANGED Local

\* The host-args hook makes the copy first and switches to it at the end.
MakeInstrumented(t) ==
    /\ At(t, "MakeInstrumented")
    /\ LET f == call[t]
       IN  \/ Enabled(t, f.id) /\ Set(t, [f EXCEPT !.made = f.id]) /\ UNCHANGED fails
           \/ ~Enabled(t, f.id) /\ Set(t, f) /\ UNCHANGED fails
           \/ Enabled(t, f.id) /\ MayFail /\ Set(t, Failing(f))
    /\ UNCHANGED Local

Commit(t) ==
    /\ At(t, "Commit")
    /\ Set(t, IF call[t].made = None THEN call[t] ELSE [call[t] EXCEPT !.inst = TRUE])
    /\ UNCHANGED <<fails, Local>>

Clone(t) ==
    /\ At(t, "Clone")
    /\ \/ Set(t, call[t]) /\ UNCHANGED fails
       \/ MayFail /\ Set(t, Failing(call[t]))
    /\ UNCHANGED Local

\* FillAllMemGuard and CheckAllMemGuard (DeviceMemory has what they do).
Guards(t) ==
    /\ At(t, "FillAllMemGuard") \/ At(t, "CheckAllMemGuard")
    /\ Set(t, [call[t] EXCEPT !.filled = @ \/ At(t, "FillAllMemGuard")])
    /\ UNCHANGED <<fails, Local>>

-----------------------------------------------------------------------------
(* What the tool is told. *)

Telling == <<left, scen, mgr, bufs, dbi, configured, info, reports, dumps, done, kill, dead>>

ReportKernelSummary(t) ==
    /\ At(t, "ReportKernelSummary")
    /\ told' = [told EXCEPT !.announced = @ \cup ({call[t].event} \ {None})]
    /\ Set(t, call[t])
    /\ UNCHANGED <<fails, dev, Telling>>

\* The launch whose ranges are told: the last one of the device, or the hook's.
GetEvent(t) ==
    /\ At(t, "GetLastLaunchEvent") \/ At(t, "GetLaunchEvent")
    /\ LET f == call[t]
           e == IF At(t, "GetLaunchEvent") THEN f.event ELSE LastOf("rt")
       IN  IF e = None /\ f.todo[1].onFail = "leave" THEN Set(t, Failing(f))
           ELSE Set(t, [f EXCEPT !.pc = e])
    /\ UNCHANGED <<fails, Local>>

\* The kernel's binary, or the headers in it, cannot be read.
GetBinary(t) ==
    /\ At(t, "GetDevBinary") \/ At(t, "GetSectionHeaders")
    /\ \/ Set(t, call[t]) /\ UNCHANGED fails
       \/ MayFail /\ Set(t, Failing(call[t]))
    /\ UNCHANGED Local

SectionsMalloc(t) ==
    /\ At(t, "SectionsMalloc")
    /\ told' = [told EXCEPT !.sections = @ \cup {call[t].pc}]
    /\ Set(t, [call[t] EXCEPT !.sections = TRUE])
    /\ UNCHANGED <<fails, dev, Telling>>

\* Mutant: the ranges of the last launch of the device are withdrawn.
SectionsFreeLast(t) ==
    /\ At(t, "SectionsFree")
    /\ LET f == call[t] IN
          told' = [told EXCEPT !.sections =
                      IF f.sections THEN @ \ {LastOf(Api(f.hook))} ELSE @]
    /\ Set(t, call[t])
    /\ UNCHANGED <<fails, dev, Telling>>

SectionsFree(t) ==
    /\ At(t, "SectionsFree")
    /\ LET f == call[t] IN
          told' = [told EXCEPT !.sections = IF f.sections THEN @ \ {f.pc} ELSE @]
    /\ Set(t, call[t])
    /\ UNCHANGED <<fails, dev, Telling>>

\* Tensors and tiling data join the device's list, and all of the list is told.
OpMalloc(t) ==
    /\ At(t, "OpMalloc")
    /\ LET a == Api(call[t].hook) IN
          /\ dev' = [dev EXCEPT ![a].ops = @ \cup {call[t].id}]
          /\ told' = [told EXCEPT !.ops = @ \cup dev[a].ops \cup {call[t].id}]
    /\ Set(t, call[t])
    /\ UNCHANGED <<fails, Telling>>

\* All of the list is withdrawn, whoever put it there.
OpFree(t) ==
    /\ At(t, "OpFree")
    /\ LET a == Api(call[t].hook) IN
          /\ told' = [told EXCEPT !.ops = @ \ dev[a].ops]
          /\ dev' = [dev EXCEPT ![a].ops = {}, ![a].args = None]
    /\ Set(t, call[t])
    /\ UNCHANGED <<fails, Telling>>

\* One overflow buffer serves the device.
Overflow(t) ==
    /\ At(t, "OverflowMalloc") \/ At(t, "OverflowFree")
    /\ told' = [told EXCEPT !.overflow = IF At(t, "OverflowMalloc") THEN {"buffer"} ELSE {}]
    /\ Set(t, call[t])
    /\ UNCHANGED <<fails, dev, Telling>>

ClearArgsInfo(t) ==
    /\ At(t, "ClearArgsInfo")
    /\ dev' = [dev EXCEPT !["rt"].ops = {}, !["rt"].args = None]
    /\ Set(t, call[t])
    /\ UNCHANGED <<fails, told, Telling>>

\* A kernel in a model is dumped: the last launch of the device, with the
\* argument description archived under its place in the list.
LaunchDumpTask(t) ==
    /\ At(t, "LaunchDumpTask")
    /\ LET f == call[t]
           d == dev[Api(f.hook)]
           n == Len(d.launches)
       IN  dumps' = IF n = 0 \/ n > Len(d.archive) THEN dumps
                    ELSE [dumps EXCEPT ![f.id] = <<d.launches[n], d.archive[n]>>]
    /\ Set(t, [call[t] EXCEPT !.running = FALSE])
    /\ UNCHANGED <<left, fails, scen, mgr, bufs, dbi, configured, info, dev, told, reports,
                   done, kill, dead>>

-----------------------------------------------------------------------------
(* Waiting, Ctrl-C and the end. *)

\* SyncStreamWithInterrupt: the kernel ended, or was stopped after Ctrl-C or by
\* the hardware's own limit.
Sync(t) ==
    /\ At(t, "Sync")
    /\ Set(t, [call[t] EXCEPT !.running = FALSE])
    /\ UNCHANGED <<fails, Local>>

\* SigIntHandler, once.
Interrupt ==
    /\ ~dead /\ ~kill /\ ~Idle /\ scen.interrupts
    /\ kill' = TRUE
    /\ UNCHANGED <<left, fails, scen, call, mgr, bufs, dbi, configured, info, dev, told,
                   reports, dumps, done, dead>>

\* After Ctrl-C the process leaves once the launch was reported.
ExitAfterProcess(t) ==
    /\ At(t, "ExitAfterProcess")
    /\ dead' = kill
    /\ Set(t, call[t])
    /\ done' = IF kill THEN [done EXCEPT ![call[t].id] = call[t]] ELSE done
    /\ UNCHANGED <<left, fails, scen, mgr, bufs, dbi, configured, info, dev, told, reports,
                   dumps, kill>>

Next ==
    \/ Interrupt
    \/ \E t \in Threads :
          \/ Begin(t) \/ Advance(t)
          \/ CreateContext(t) \/ AddLaunchEvent(t) \/ GetLaunchId(t)
          \/ UpdateOpMemInfo(t) \/ ParseMetaData(t) \/ ArchiveMemInfo(t)
          \/ InitStep(t) \/ Finalize(t) \/ SetSkipKernelFlag(t) \/ ResetMemoryInit(t)
          \/ FreeBuffer(t) \/ ExpandArgs(t) \/ RunDBITask(t) \/ MakeInstrumented(t)
          \/ Commit(t) \/ Clone(t) \/ Guards(t) \/ ReportKernelSummary(t) \/ GetEvent(t)
          \/ GetBinary(t) \/ SectionsMalloc(t) \/ SectionsFree(t) \/ OpMalloc(t) \/ OpFree(t)
          \/ Overflow(t) \/ ClearArgsInfo(t) \/ LaunchDumpTask(t) \/ Sync(t)
          \/ ExitAfterProcess(t)

Spec == Init /\ [][Next]_vars

-----------------------------------------------------------------------------
(* Properties. *)

TypeOK ==
    /\ left \in Nat /\ fails \in Nat /\ scen \in Scenarios
    /\ \A t \in Threads : /\ mgr[t].ptr \in 0..Len(bufs[t])
                          /\ dbi[t] \in {"off", "named", "all"}
                          /\ \A i \in DOMAIN bufs[t] : bufs[t][i].heads \in 0..Len(info)
                          /\ call[t] = NoCall \/ (call[t].id \in Ids /\ call[t].hook \in Hooks)
    /\ Len(reports) = Len(info) /\ Len(dumps) = Len(info) /\ Len(done) = Len(info)
    /\ \A a \in {"acl", "rt"} : dev[a].args \in 0..Len(info) /\ dev[a].ops \subseteq Ids
    /\ told.announced \subseteq Ids /\ told.ops \subseteq Ids
    /\ configured \in BOOLEAN /\ kill \in BOOLEAN /\ dead \in BOOLEAN

\* The kernel is about to be handed to the library.
AtLaunch(t) == ~dead /\ call[t] # NoCall /\ call[t].phase = "pre" /\ call[t].todo = <<>>
               /\ ~call[t].abort
\* The kernel writes records through its argument; one launched with <<<>>> takes
\* the pointer the compiler passed.
ReadsRecords(f) == f.inst \/ (f.static /\ ~f.wrapped)
Headed(t, ptr, id) == ptr # None /\ bufs[t][ptr].live /\ bufs[t][ptr].heads = id


\* These hooks put the instrumented kernel in place before its buffer is made,
\* and do not take it back.
InstrumentsFirst == {"SIMTWithArgsArray", "SIMTWithHostArgs"} \cup RtHooks
FailedUnprepared(f) ==
    f.failed /\ (f.hook \in InstrumentsFirst \/ (f.static /\ f.hook # "WithHostArgs"))

\* A kernel the tool checks is never launched instrumented without the buffer made
\* for this launch, whichever launches, skipped kernels and failures came before
\* (SanitizerPre of the ten hooks).  Left out: a flag that SetSkipKernelFlag left
\* behind, a failure in a hook that instruments first, and a kernel instrumented at
\* compile time that goes into a model: no hook makes a buffer for it.
CheckedHasHeads ==
    \A t \in Threads :
        LET f == call[t] IN
        AtLaunch(t) /\ ReadsRecords(f) /\ ~f.skip /\ ~f.stale /\ ~FailedUnprepared(f)
           /\ ~(f.static /\ f.sink) =>
           Headed(t, f.arg, f.id)

\* A record buffer is not freed while a checked kernel may still write to it:
\* DevMemManager::Free follows the wait for the stream on every path of Post.
RunningHaveBuffer ==
    \A t \in Threads :
        LET f == call[t] IN
        f # NoCall /\ f.running /\ f.arg # None /\ ~f.skip => bufs[t][f.arg].live

\* What __sanitizer_finalize sends was written for this launch and is still
\* allocated, also when the compiler's own finalize follows the hook's.  Left
\* out: after a launch in a model or a failed one the flag stays set; and if the
\* library refuses a checked kernel and then a skipped one, the next hook that does
\* not set the skip flag keeps the buffer with the heads of the first (f.stale).
FinalizeReadsOwn ==
    \A t \in Threads :
        LET f == call[t]
            ptr == IF At(t, "Finalize") THEN f.mem ELSE f.outer
        IN  /\ At(t, "Finalize") \/ At(t, "OuterFinalize")
            /\ Sends(t, ptr)
            /\ IF At(t, "OuterFinalize") THEN ~f.sink /\ ~f.failed ELSE ~f.stale
            => Headed(t, ptr, f.id)

\* The buffer a kernel writes to and the report reads is that of its launch, and is
\* allocated (DevMemManager, __sanitizer_finalize).
BufferSound == TypeOK /\ RunningHaveBuffer /\ FinalizeReadsOwn

\* A launch that was made is reported once if it is checked and not at all if it
\* is skipped, also when Ctrl-C ends the process (ExitAfterProcess), and the
\* kernel was announced before.
ReportedOnce ==
    \A id \in Ids :
        LET f == done[id] IN
        /\ reports[id] <= 1
        /\ f # NoCall /\ f.ok /\ ~f.sink /\ ~f.failed /\ ~f.stale =>
              /\ reports[id] = IF f.skip THEN 0 ELSE 1
              /\ ~f.skip => f.event \in told.announced

\* When records are sent, the tool knows the code sections (and, where the hook
\* looks them up, the tensors) the kernel may touch.
TellsTensors == {"WithHostArgs", "WithArgsArray", "SIMTWithArgsArray", "SIMTWithHostArgs"}
RangesKnown ==
    \A t \in Threads :
        LET f == call[t] IN
        At(t, "Finalize") /\ ~f.failed =>
           /\ f.alone \/ f.hook \in AclHooks => f.id \in told.sections
           /\ f.alone /\ f.hook \in TellsTensors => f.id \in told.ops

\* Nothing that was told for a launch stays with the tool after it: a range left
\* there hides later accesses to freed memory.  Code sections are withdrawn by
\* the hook that told them, even if launches overlap.
RangesReturned ==
    Idle /\ ~dead =>
        /\ \A id \in Ids : done[id].hook \in AclHooks /\ ~done[id].failed
                              => id \notin told.sections
        /\ (\A id \in Ids : done[id].alone /\ ~done[id].failed) =>
              told.sections = {} /\ told.ops = {} /\ told.overflow = {}

\* The tool knows a launch's ranges when its records arrive, and no longer after.
RangesTracked == RangesKnown /\ RangesReturned

\* A launch no other one overlapped is judged, instrumented and dumped as itself,
\* although the runtime's hooks look up the device's last launch each time.  The
\* archive is out of step with the list once AddLaunchEvent found no function.
OwnLaunchUsed ==
    \A id \in Ids :
        LET f == done[id] IN
        f # NoCall /\ f.alone /\ ~f.failed =>
           /\ f.kernel = id /\ f.event = id
           /\ f.skip = info[id].skip /\ f.sink = info[id].sink
           /\ f.sink /\ f.ok /\ ~f.skip /\ (\A j \in 1..id : ~done[j].failed) => dumps[id] = <<id, id>>

=============================================================================
