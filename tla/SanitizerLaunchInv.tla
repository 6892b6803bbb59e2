------------------------ MODULE SanitizerLaunchInv ------------------------
(***************************************************************************)
(* The inductive invariants of SanitizerLaunch, in four layers, each       *)
(* resting on the one before: the record buffer (BufferWorld), what is     *)
(* reported of a launch (ReportWorld), that a launch is judged and dumped  *)
(* as itself (OwnWorld), and the ranges the tool is told (RangeWorld).     *)
(* Between them stand the words their proof uses of steps and frames.      *)
(* SanitizerLaunchProofs proves that they hold.                            *)
(***************************************************************************)
EXTENDS SanitizerLaunch

-----------------------------------------------------------------------------
(* Steps that are still to come. *)

SimtHooks == {"SIMTWithArgsArray", "SIMTWithHostArgs"}
Late == {"GetSectionHeaders", "SectionsMalloc", "OpMalloc", "OverflowMalloc"}
Withdrawals == {"SectionsFree", "OpFree", "OverflowFree"}
Events == {"GetLastLaunchEvent", "GetLaunchEvent"}

\* Where a call stands in the scripts of a hook.
Rank(hook, c) ==
    IF c = "RunDBITask" THEN IF hook \in InstrumentsFirst THEN 4 ELSE 11
    ELSE IF c \in {"OuterInit", "CreateContext", "AddLaunchEvent", "SetSkipKernelFlag",
                   "Sync", "ResetMemoryInit", "ClearArgsInfo", "OuterFinalize"} THEN 1
    ELSE IF c \in {"UpdateOpMemInfo", "GetLaunchId", "ReportKernelSummary",
                   "CheckAllMemGuard", "FreeBuffer"} THEN 2
    ELSE IF c \in {"ParseMetaData", "Clone", "LaunchDumpTask"} THEN 3
    ELSE IF c \in {"ArchiveMemInfo", "MakeInstrumented"} THEN 4
    ELSE IF c \in Events THEN 5
    ELSE IF c = "GetDevBinary" THEN 6
    ELSE IF c \in Late THEN 7
    ELSE IF c = "Init" THEN 8
    ELSE IF c = "ExpandArgs" THEN 9
    ELSE IF c \in {"Commit", "FillAllMemGuard"} THEN 11
    ELSE IF c = "Finalize" THEN 12
    ELSE IF c \in Withdrawals THEN 13
    ELSE 14

CallsIn(s) == {s[i].call : i \in DOMAIN s}
Pending(f) == CallsIn(f.todo)

Sorted(hook, s) ==
    \A i, j \in DOMAIN s : i < j =>
        s[i].call # s[j].call /\ Rank(hook, s[i].call) <= Rank(hook, s[j].call)

\* What the hook does when its buffer or its arguments cannot be made.
InitMode(hook) == IF hook = "WithHostArgs" THEN "undo"
                  ELSE IF hook \in RtHooks THEN "go" ELSE "leave"
Modes(hook, s) ==
    \A i \in DOMAIN s :
        /\ s[i].onFail = "undo" => s[i].call \in {"Init", "ExpandArgs"}
        /\ s[i].call \in {"Init", "ExpandArgs"} => s[i].onFail = InitMode(hook)
        /\ s[i].call = "CreateContext" => s[i].onFail = "leave"
        /\ s[i].call \in {"OuterInit", "AddLaunchEvent"} => s[i].onFail = "go"

InitCalls(hook) ==
    IF hook \in AclHooks THEN {"CreateContext", "UpdateOpMemInfo", "ArchiveMemInfo"}
    ELSE {"AddLaunchEvent", "GetLaunchId", "ParseMetaData", "ArchiveMemInfo"}

Making == {"Init", "ExpandArgs"}
PreCalls(hook, skip, sink) ==
    IF skip
    THEN IF hook \in {"LaunchKernel"} \cup RtHooks
         THEN Making \cup {"SetSkipKernelFlag", "FillAllMemGuard"}
              \cup (IF hook = "LaunchKernel" THEN {"RunDBITask"} ELSE {})
         ELSE {}
    ELSE IF sink
    THEN IF hook \in {"LaunchKernel"} \cup RtHooks THEN {"SetSkipKernelFlag"} ELSE {}
    ELSE Making \cup {"ReportKernelSummary"}
         \cup (IF hook = "WithHostArgs" THEN {"MakeInstrumented", "Commit"} ELSE {"RunDBITask"})
         \cup (IF hook \in {"LaunchKernel"} \cup RtHooks THEN {"SetSkipKernelFlag"} ELSE {})
         \cup (IF hook \in {"LaunchKernel", "LaunchKernelV2", "LaunchKernelWithConfig"} \cup RtHooks
               THEN {"FillAllMemGuard"} ELSE {})
         \cup (IF hook = "SIMTWithArgsArray" THEN {"Clone"} ELSE {})
         \cup (IF hook \in SimtHooks THEN {"SectionsMalloc", "OpMalloc"} ELSE {})
         \cup (IF hook \in RtHooks THEN {"GetDevBinary", "SectionsMalloc", "OverflowMalloc"}
               ELSE {})
         \cup (IF hook \in {"rtKernelLaunch", "rtKernelLaunchWithHandleV2"}
               THEN {"GetLastLaunchEvent"} ELSE {})
         \cup (IF hook = "rtKernelLaunchWithFlagV2" THEN {"GetLaunchEvent"} ELSE {})

TwoRt == {"rtKernelLaunchWithFlagV2", "rtKernelLaunchWithHandleV2"}
Guarded == {"LaunchKernel", "LaunchKernelV2", "LaunchKernelWithConfig"}
PostCalls(hook, skip, sink, memInfo) ==
    IF skip THEN IF hook \in TwoRt THEN {} ELSE {"ResetMemoryInit"}
    ELSE IF sink
    THEN {"LaunchDumpTask"} \cup (IF hook \in TwoRt THEN {"Sync", "CheckAllMemGuard"} ELSE {})
    ELSE IF ~memInfo THEN {}
    ELSE {"Sync", "Finalize", "SectionsFree", "ExitAfterProcess"}
         \cup (IF hook \in Guarded \cup RtHooks THEN {"CheckAllMemGuard"} ELSE {})
         \cup (IF hook \in Guarded \cup {"WithArgsArray"} THEN {"GetSectionHeaders"} ELSE {})
         \cup (IF hook \in AclHooks \ SimtHooks THEN {"SectionsMalloc"} ELSE {})
         \cup (IF hook \in {"WithHostArgs", "WithArgsArray"} \cup TwoRt THEN {"OpMalloc"} ELSE {})
         \cup (IF hook \in {"WithHostArgs", "WithArgsArray"} \cup TwoRt \cup SimtHooks
               THEN {"OpFree"} ELSE {})
         \cup (IF hook \in RtHooks THEN {"OverflowFree"} ELSE {})
         \cup (IF hook = "rtKernelLaunch" THEN {"GetLastLaunchEvent"} ELSE {})
         \cup (IF hook \in TwoRt THEN {"GetLaunchEvent"} ELSE {})

PhaseCalls(f) ==
    CASE f.phase = "open" -> IF f.wrapped THEN {"OuterInit"} ELSE {}
      [] f.phase = "init" -> InitCalls(f.hook)
      [] f.phase = "pre" -> PreCalls(f.hook, f.skip, f.sink)
      [] f.phase = "post" -> PostCalls(f.hook, f.skip, f.sink, f.mem # None)
      [] f.phase = "end" -> {"ClearArgsInfo", "FreeBuffer"}
      [] f.phase = "close" -> IF f.wrapped THEN {"OuterFinalize"} ELSE {}

-----------------------------------------------------------------------------
(* Types. *)

CallNames ==
    {"OuterInit", "CreateContext", "AddLaunchEvent", "GetLaunchId", "UpdateOpMemInfo",
     "ParseMetaData", "ArchiveMemInfo", "SetSkipKernelFlag", "ReportKernelSummary", "Clone",
     "RunDBITask", "MakeInstrumented", "GetDevBinary", "Init", "ExpandArgs", "Commit",
     "FillAllMemGuard", "Sync", "CheckAllMemGuard", "ResetMemoryInit", "LaunchDumpTask",
     "Finalize", "ExitAfterProcess", "ClearArgsInfo", "FreeBuffer", "OuterFinalize"}
    \cup Events \cup Late \cup Withdrawals
StepT == [call : CallNames, onFail : {"go", "leave", "undo"}]
FrameT ==
    [phase : {"open", "init", "pre", "post", "end", "close"}, hook : Hooks, id : Nat,
     static : BOOLEAN, wrapped : BOOLEAN, skip : BOOLEAN, sink : BOOLEAN, todo : Seq(StepT),
     outer : Nat, event : Nat, pc : Nat, sections : BOOLEAN, mem : Nat, arg : Nat,
     made : Nat, inst : BOOLEAN, kernel : Nat, filled : BOOLEAN, abort : BOOLEAN,
     tracked : BOOLEAN, running : BOOLEAN, ok : BOOLEAN, failed : BOOLEAN,
     alone : BOOLEAN, stale : BOOLEAN]
BufT == [live : BOOLEAN, heads : Nat, size : Nat]
MgrT == [ptr : Nat, size : Nat, init : BOOLEAN, skip : BOOLEAN]
DevT == [launches : Seq(Nat), args : Nat, ops : SUBSET Nat, archive : Seq(Nat)]

Types ==
    /\ left \in Nat /\ fails \in Nat /\ scen \in Scenarios
    /\ call \in [Threads -> FrameT \cup {NoCall}]
    /\ mgr \in [Threads -> MgrT]
    /\ bufs \in [Threads -> Seq(BufT)]
    /\ dbi \in [Threads -> {"off", "named", "all"}]
    /\ configured \in BOOLEAN
    /\ info \in Seq([skip : BOOLEAN, sink : BOOLEAN])
    /\ dev \in [{"acl", "rt"} -> DevT]
    /\ told \in [announced : SUBSET Nat, sections : SUBSET Nat, ops : SUBSET Nat,
                 overflow : SUBSET {"buffer"}]
    /\ reports \in Seq(Nat)
    /\ dumps \in Seq(Seq(Nat))
    /\ done \in Seq(FrameT \cup {NoCall})
    /\ Len(reports) = Len(info) /\ Len(dumps) = Len(info) /\ Len(done) = Len(info)
    /\ kill \in BOOLEAN /\ dead \in BOOLEAN

\* Ids that are kept anywhere belong to launches that were made.
FrameIds(f) == f.id \in Ids /\ f.event \in 0..Len(info) /\ f.pc \in 0..Len(info)
IdsInv ==
    /\ \A t \in Threads : call[t] # NoCall => FrameIds(call[t])
    /\ \A t \in Threads : \A i \in DOMAIN bufs[t] : bufs[t][i].heads \in 0..Len(info)
    /\ \A a \in {"acl", "rt"} : /\ \A i \in DOMAIN dev[a].launches : dev[a].launches[i] \in Ids
                                /\ dev[a].args \in 0..Len(info) /\ dev[a].ops \subseteq Ids
    /\ told.announced \subseteq Ids /\ told.ops \subseteq Ids

-----------------------------------------------------------------------------
(* A call. *)

Early == {"open", "init"}
ScriptInv(f) ==
    /\ Sorted(f.hook, f.todo) /\ Modes(f.hook, f.todo)
    /\ Pending(f) \subseteq PhaseCalls(f)

\* Before SanitizerPre nothing of the call is prepared.
Fresh(f) ==
    /\ f.mem = None /\ f.arg = None /\ f.made = None /\ f.kernel = f.id
    /\ ~f.inst /\ ~f.running /\ ~f.ok /\ ~f.abort /\ ~f.sections /\ ~f.stale /\ ~f.skip

FrameInv(f) ==
    /\ f.phase \in Early => Fresh(f)
    /\ f.phase = "open" => f.tracked
    /\ f.phase \in {"pre", "post"} => f.tracked
    /\ f.phase = "pre" => ~f.running /\ ~f.ok
    /\ ~f.tracked => f.hook \in AclHooks /\ f.failed /\ Pending(f) \subseteq {"OuterFinalize"}
    /\ f.wrapped => f.static /\ f.hook \in AclHooks \cup {"rtKernelLaunch"}
    /\ "Init" \in Pending(f) => f.mem = None /\ f.arg = None
    /\ "ExpandArgs" \in Pending(f) => f.arg = None
    /\ f.arg # None => f.arg = f.mem
    /\ f.sink /\ ~f.skip => f.mem = None /\ ~f.inst
    \* whoever did not fail has a buffer and its argument
    /\ f.phase \in {"pre", "post"} /\ ~f.failed /\ ~f.skip /\ ~f.sink =>
          /\ "Init" \notin Pending(f) => f.mem # None
          /\ "ExpandArgs" \notin Pending(f) => f.arg # None
    \* hooks that instrument last do so with the argument in place
    /\ f.phase = "pre" /\ f.hook \notin InstrumentsFirst =>
          /\ Pending(f) \cap {"RunDBITask", "Commit"} # {} =>
                /\ "Init" \notin Pending(f) => f.mem # None
                /\ "ExpandArgs" \notin Pending(f) => f.arg # None
          /\ f.inst => f.arg # None
    /\ f.inst => ~f.static
    /\ f.made # None => ~f.static
    /\ f.hook = "WithHostArgs" /\ f.static /\ ~f.wrapped /\ f.failed /\ f.tracked
         /\ f.phase \in {"open", "init", "pre"} => f.abort
    /\ f.abort => f.failed /\ f.phase \in {"pre", "end", "close"} /\ f.mem = None
                  /\ ~f.running
    /\ f.abort /\ f.phase = "pre" => Pending(f) = {}
    \* a kernel that may write is waited for
    /\ f.phase = "post" /\ f.running /\ f.arg # None /\ ~f.skip => "Sync" \in Pending(f)
    /\ f.phase \in {"end", "close"} /\ f.running => f.arg = None \/ f.skip

CallInv == \A t \in Threads : call[t] # NoCall => ScriptInv(call[t]) /\ FrameInv(call[t])

-----------------------------------------------------------------------------
(* The record buffer. *)

Held(m, b) ==
    /\ m.ptr = None => m.size = 0
    /\ m.ptr # None => m.ptr \in DOMAIN b /\ b[m.ptr].live
ManagerInv(t) == Held(mgr[t], bufs[t])

BufferInv(t) ==
    LET f == call[t] IN
    f # NoCall =>
       /\ f.phase \in {"pre", "post"} /\ f.mem # None => f.mem = mgr[t].ptr
       /\ f.phase \in {"pre", "post"} /\ f.mem # None /\ ~f.stale /\ ~f.skip =>
             bufs[t][f.mem].heads = f.id
       \* the hook's end leaves nothing for the compiler's finalize
       /\ f.wrapped /\ ~f.sink /\ ~f.failed =>
             /\ f.phase = "post" =>
                   Pending(f) \cap {"Finalize", "ResetMemoryInit"} # {} \/ ~mgr[t].init
             /\ f.phase \in {"end", "close"} => ~mgr[t].init

-----------------------------------------------------------------------------
(* Scripts: what is in them, and in which order. *)

Script(h, s, names) ==
    s \in Seq(StepT) /\ Sorted(h, s) /\ Modes(h, s) /\ CallsIn(s) = names

\* A list of calls that none is undone of.
Calm(c) == c \notin {"Init", "ExpandArgs", "CreateContext"}
Rising(h, q) == \A i, j \in DOMAIN q : i < j => q[i] # q[j] /\ Rank(h, q[i]) <= Rank(h, q[j])

-----------------------------------------------------------------------------
(* What a step does to the frame of its call. *)

SameCall(f, g) ==
    /\ g.phase = f.phase /\ g.hook = f.hook /\ g.id = f.id /\ g.static = f.static
    /\ g.wrapped = f.wrapped /\ g.alone = f.alone /\ g.skip = f.skip
SameBuffer(f, g) ==
    /\ g.mem = f.mem /\ g.arg = f.arg /\ g.made = f.made
    /\ g.inst = f.inst /\ g.kernel = f.kernel /\ g.abort = f.abort /\ g.stale = f.stale
SameCourse(f, g) == g.running = f.running /\ g.ok = f.ok /\ g.tracked = f.tracked
SameLookup(f, g) ==
    g.event = f.event /\ g.pc = f.pc /\ g.sections = f.sections /\ g.sink = f.sink
Quiet(f, g) ==
    SameCall(f, g) /\ SameBuffer(f, g) /\ SameCourse(f, g) /\ SameLookup(f, g)

\* A frame works off the first step of its script.
Works(f, g) ==
    /\ f \in FrameT /\ g \in FrameT /\ SameCall(f, g) /\ (f.failed => g.failed)
    /\ f.todo # <<>> /\ f.todo[1] \in StepT /\ ScriptInv(f) /\ ScriptInv(g)
    /\ f.todo[1].call \in Pending(f) /\ f.todo[1].call \in PhaseCalls(f)
    /\ f.todo[1].call \notin Pending(g) /\ Pending(g) \subseteq Pending(f)
    /\ \A c \in Pending(f) : Rank(f.hook, f.todo[1].call) <= Rank(f.hook, c)
    /\ \/ Pending(g) = Pending(f) \ {f.todo[1].call}
       \/ Pending(g) = {} /\ g.todo = <<>> /\ g.failed /\ f.todo[1].onFail # "go"

Runs(t, g) ==
    /\ ~dead /\ call[t] # NoCall /\ Works(call[t], g) /\ FrameInv(call[t])
    /\ call' = [call EXCEPT ![t] = g] /\ call'[t] = g

NextCall(t) == call[t].todo[1].call
Mode(t) == call[t].todo[1].onFail

\* The step succeeds, and the frame changes as the caller says; or it fails.
Makes(t, g) ==
    Runs(t, g) /\ g.failed = call[t].failed /\ Pending(g) = Pending(call[t]) \ {NextCall(t)}
Gives(t, g) ==
    /\ Runs(t, g) /\ g.failed /\ SameBuffer(call[t], g) /\ SameLookup(call[t], g)
    /\ g.running = call[t].running /\ g.ok = call[t].ok
    /\ Mode(t) = "go" => g.tracked = call[t].tracked /\ Pending(g) = Pending(call[t]) \ {NextCall(t)}
    /\ Mode(t) # "go" => g.tracked = (call[t].tracked /\ call[t].phase # "init") /\ Pending(g) = {}
MakesQuietly(t, g) == Makes(t, g) /\ Quiet(call[t], g)

-----------------------------------------------------------------------------
(* The frame under each action. *)

\* Actions that leave the frame as it is.
QuietActions(t) ==
    \/ UpdateOpMemInfo(t) \/ ArchiveMemInfo(t) \/ SetSkipKernelFlag(t) \/ ResetMemoryInit(t)
    \/ FreeBuffer(t) \/ ReportKernelSummary(t) \/ SectionsFree(t) \/ OpMalloc(t) \/ OpFree(t)
    \/ Overflow(t) \/ ClearArgsInfo(t) \/ ExitAfterProcess(t)

\* The launch whose sink flag the runtime's hooks take over.
Looked(f) == IF f.hook = "rtKernelLaunchWithFlagV2" THEN f.event ELSE LastOf("rt")

\* The launch whose ranges will be told.
Wanted(t) == IF NextCall(t) = "GetLaunchEvent" THEN call[t].event ELSE LastOf("rt")
\* The pointer __sanitizer_finalize is called with.
Given(t) == IF NextCall(t) = "Finalize" THEN call[t].mem ELSE call[t].outer

-----------------------------------------------------------------------------
(* The record buffer. *)

FreedHeld(m, b) == Held(FreeMgr(m), Freed(m, b))
\* The outcomes of __sanitizer_init.
OutcomeWell(m, b, id, o) ==
    /\ o.mgr \in MgrT /\ o.bufs \in Seq(BufT) /\ Held(o.mgr, o.bufs) /\ o.mgr.skip = m.skip
    /\ o.ptr \in Nat
    /\ o.ptr # None => /\ o.ptr = o.mgr.ptr
                       /\ ~m.skip => o.mgr.init /\ o.bufs[o.ptr].heads = id
    /\ o.ptr = None => (o.mgr.init => m.init)
    /\ m.skip => (o.mgr.init => m.init)
    /\ \A i \in DOMAIN o.bufs :
          \/ o.bufs[i].heads \in {None, id}
          \/ i \in DOMAIN b /\ o.bufs[i].heads = b[i].heads

-----------------------------------------------------------------------------
(* A call begins and goes from phase to phase. *)

\* The calls of the other threads are overlapped by a new one.
Marked(f, h) ==
    /\ h \in FrameT /\ h.todo = f.todo /\ h.failed = f.failed /\ ~h.alone
    /\ h.phase = f.phase /\ h.hook = f.hook /\ h.id = f.id /\ h.static = f.static
    /\ h.wrapped = f.wrapped /\ h.skip = f.skip
    /\ SameBuffer(f, h) /\ SameCourse(f, h) /\ SameLookup(f, h)

Opened(g) ==
    /\ g \in FrameT /\ g.phase = "open" /\ Fresh(g) /\ g.tracked /\ ~g.failed /\ ScriptInv(g)
    /\ g.event = None /\ g.pc = None
    /\ g.wrapped => g.static /\ g.hook \in AclHooks \cup {"rtKernelLaunch"}

\* The call of a thread enters its next phase.
Enters(t, g) ==
    /\ ~dead /\ call[t] # NoCall /\ call[t] \in FrameT /\ FrameInv(call[t])
    /\ call[t].todo = <<>> /\ Pending(call[t]) = {}
    /\ g \in FrameT /\ ScriptInv(g) /\ call' = [call EXCEPT ![t] = g] /\ call'[t] = g
    /\ g.hook = call[t].hook /\ g.id = call[t].id /\ g.static = call[t].static
    /\ g.wrapped = call[t].wrapped /\ g.alone = call[t].alone /\ g.tracked = call[t].tracked
    /\ SameBuffer(call[t], g) /\ SameLookup(call[t], g)

SameLaunch(f, g) ==
    /\ g.hook = f.hook /\ g.id = f.id /\ g.static = f.static
    /\ g.wrapped = f.wrapped /\ g.alone = f.alone /\ g.tracked = f.tracked
    /\ SameBuffer(f, g) /\ SameLookup(f, g)

OpenEnds(t) == call[t].phase = "open" /\ UNCHANGED fails
               /\ Moves(t, [call[t] EXCEPT !.phase = "init", !.todo = InitParam(call[t].hook)])
PostEnds(t) == call[t].phase = "post" /\ UNCHANGED fails
               /\ Moves(t, [call[t] EXCEPT !.phase = "end", !.todo = PostEnd(call[t].hook)])
EndEnds(t) == call[t].phase = "end" /\ UNCHANGED fails
              /\ Moves(t, [call[t] EXCEPT !.phase = "close",
                    !.todo = IF call[t].wrapped THEN Steps(<<"OuterFinalize">>) ELSE <<>>])
Returns(t) == /\ call[t].phase = "close"
              /\ done' = [done EXCEPT ![call[t].id] = call[t]]
              /\ call' = [call EXCEPT ![t] = NoCall]
              /\ UNCHANGED <<left, fails, scen, mgr, bufs, dbi, configured, info, dev, told,
                             reports, dumps, kill, dead>>
AtPhaseEnd(t) == ~dead /\ call[t] # NoCall /\ call[t].todo = <<>>
\* The flags a hook asks the tool for.
Asked(t) == IF Api(call[t].hook) = "acl" THEN info[call[t].id].skip
            ELSE Sees(LastOf("rt"), "skip")
Ran(y) == [y EXCEPT !.running = TRUE, !.ok = TRUE]
Refused(y) == [y EXCEPT !.failed = TRUE]

-----------------------------------------------------------------------------
(* What a failure asks of the hook. *)

\* A failure the host-args hook must answer by not launching.
Answerable(g) ==
    g.hook = "WithHostArgs" /\ g.static /\ ~g.wrapped /\ g.tracked
       /\ g.phase \in {"open", "init", "pre"}

-----------------------------------------------------------------------------
(* The steps of a script. *)

Scripted(t) == \E g : Runs(t, g) /\ FrameInv(g)

\* The steps of a script.
Work(t) ==
    \/ CreateContext(t) \/ AddLaunchEvent(t) \/ GetLaunchId(t)
    \/ UpdateOpMemInfo(t) \/ ParseMetaData(t) \/ ArchiveMemInfo(t)
    \/ InitStep(t) \/ Finalize(t) \/ SetSkipKernelFlag(t) \/ ResetMemoryInit(t)
    \/ FreeBuffer(t) \/ ExpandArgs(t) \/ RunDBITask(t) \/ MakeInstrumented(t)
    \/ Commit(t) \/ Clone(t) \/ Guards(t) \/ ReportKernelSummary(t) \/ GetEvent(t)
    \/ GetBinary(t) \/ SectionsMalloc(t) \/ SectionsFree(t) \/ OpMalloc(t) \/ OpFree(t)
    \/ Overflow(t) \/ ClearArgsInfo(t) \/ LaunchDumpTask(t) \/ Sync(t)
    \/ ExitAfterProcess(t)

-----------------------------------------------------------------------------
(* The calls over a step. *)

\* What every step does to the calls.
Others(t) == \A u \in Threads : u # t => call'[u] = call[u]
CallsTyped == call' \in [Threads -> FrameT \cup {NoCall}]

-----------------------------------------------------------------------------
(* The parts of Types. *)

CountTypes == left \in Nat /\ fails \in Nat /\ scen \in Scenarios
ManagerTypes ==
    /\ mgr \in [Threads -> MgrT] /\ bufs \in [Threads -> Seq(BufT)]
    /\ dbi \in [Threads -> {"off", "named", "all"}] /\ configured \in BOOLEAN
DeviceTypes ==
    /\ dev \in [{"acl", "rt"} -> DevT]
    /\ told \in [announced : SUBSET Nat, sections : SUBSET Nat, ops : SUBSET Nat,
                 overflow : SUBSET {"buffer"}]
RecordTypes ==
    /\ info \in Seq([skip : BOOLEAN, sink : BOOLEAN])
    /\ reports \in Seq(Nat) /\ dumps \in Seq(Seq(Nat)) /\ done \in Seq(FrameT \cup {NoCall})
    /\ Len(reports) = Len(info) /\ Len(dumps) = Len(info) /\ Len(done) = Len(info)
    /\ kill \in BOOLEAN /\ dead \in BOOLEAN

\* Steps that leave the record buffer and the settings of the thread alone.
Apart == UNCHANGED <<mgr, bufs, dbi, configured, reports>>
\* Steps that leave the lists of the device and what the tool was told alone.
Silent == UNCHANGED <<dev, told>>

-----------------------------------------------------------------------------
(* The ids there are. *)

Known == 0..Len(info)

HeadsKnown(t) == \A i \in DOMAIN bufs[t] : bufs[t][i].heads \in Known

-----------------------------------------------------------------------------
(* The buffer, seen from one frame and one manager. *)

\* The manager of the thread itself after each step that touches it.
Resized(m, n) == n.ptr = m.ptr /\ n.size = m.size
\* What the buffer's invariant needs to know of a frame.
SameUse(f, g) ==
    /\ g.phase = f.phase /\ g.id = f.id /\ g.wrapped = f.wrapped /\ g.skip = f.skip
    /\ g.mem = f.mem /\ g.stale = f.stale
    /\ g.sink = f.sink \/ f.phase = "init"
    /\ f.failed => g.failed
    /\ ~g.failed => Pending(g) = Pending(f) \ {f.todo[1].call}

\* BufferInv for a frame, a manager and buffers.
Buffered(f, m, b) ==
    /\ f.phase \in {"pre", "post"} /\ f.mem # None => f.mem = m.ptr
    /\ f.phase \in {"pre", "post"} /\ f.mem # None /\ ~f.stale /\ ~f.skip =>
          b[f.mem].heads = f.id
    /\ f.wrapped /\ ~f.sink /\ ~f.failed =>
          /\ f.phase = "post" =>
                Pending(f) \cap {"Finalize", "ResetMemoryInit"} # {} \/ ~m.init
          /\ f.phase \in {"end", "close"} => ~m.init

-----------------------------------------------------------------------------
(* The invariant of the record buffer. *)

Buffer == \A t \in Threads : ManagerInv(t) /\ BufferInv(t)
BufferWorld == Types /\ IdsInv /\ CallInv /\ Buffer

\* A step that changes none of what the invariants speak of.
Kept == UNCHANGED <<left, fails, scen, call, mgr, bufs, dbi, configured, info, dev, told,
                    reports, dumps, done, dead>>

-----------------------------------------------------------------------------
(* Reports: whose launch it is, how often it was reported, what was announced. *)

\* Every call has a launch of its own, which has not returned.
OwnersInv ==
    /\ \A t, u \in Threads : t # u /\ call[t] # NoCall /\ call[u] # NoCall =>
                                call[t].id # call[u].id
    /\ ~dead => \A t \in Threads : call[t] # NoCall => done[call[t].id] = NoCall

\* n reports of the launch of a call; init says that the buffer is valid.
Reporting(f, init, n) ==
    /\ n <= 1
    /\ f.phase \in Early => n = 0
    /\ n = 1 => ~init /\ (f.phase = "pre" => Pending(f) = {} /\ f.mem = None)
    /\ f.phase \in {"pre", "post"} /\ f.mem # None /\ ~f.stale /\ ~f.skip /\ n = 0 => init
    /\ f.phase \in {"post", "end", "close"} /\ f.ok /\ ~f.sink /\ ~f.failed /\ ~f.stale
          /\ ~f.skip => n = 1 \/ "Finalize" \in Pending(f)
    /\ f.skip /\ ~f.sink /\ ~f.failed => n = 0
ReportInv(t) == call[t] # NoCall => Reporting(call[t], mgr[t].init, reports[call[t].id])

\* The number a call has, and whether the tool was told.
Numbered(f, launches, announced) ==
    ~f.failed =>
       /\ f.hook \in AclHooks /\ f.phase # "open" /\ "CreateContext" \notin Pending(f) =>
             f.event = f.id
       /\ f.hook \in RtHooks /\ f.phase # "open" /\ "AddLaunchEvent" \notin Pending(f) =>
             launches # <<>>
       /\ f.hook \in RtHooks /\ f.phase # "open" /\ "GetLaunchId" \notin Pending(f) =>
             f.event # None
       /\ f.phase \notin Early /\ ~f.skip /\ ~f.sink /\ "ReportKernelSummary" \notin Pending(f)
             => f.event \in announced
EventInv(t) == call[t] # NoCall => Numbered(call[t], dev["rt"].launches, told.announced)

ReportedWell(id) ==
    LET f == done[id] IN
    /\ reports[id] <= 1
    /\ f # NoCall /\ f.ok /\ ~f.sink /\ ~f.failed /\ ~f.stale =>
          /\ reports[id] = IF f.skip THEN 0 ELSE 1
          /\ ~f.skip => f.event \in told.announced

ReportWorld ==
    /\ BufferWorld /\ OwnersInv
    /\ \A t \in Threads : ReportInv(t) /\ EventInv(t)
    /\ \A id \in Ids : ReportedWell(id)

\* What the tool was told of launches, and the device's list, only grow.
Grows == /\ told.announced \subseteq told'.announced
         /\ dev["rt"].launches # <<>> => dev'["rt"].launches # <<>>

-----------------------------------------------------------------------------
(* A call that ends. *)

\* A call returns, or is cut off after its report, with what it holds.
Ends(t) == done' = [done EXCEPT ![call[t].id] = call[t]]

-----------------------------------------------------------------------------
(* Launches nobody overlaps: they are judged, instrumented and dumped as      *)
(* themselves.                                                                *)

\* A call that was never overlapped is the only one, and the last that began.
AloneInv ==
    \A t \in Threads : call[t] # NoCall /\ call[t].alone =>
        /\ call[t].id = Len(info)
        /\ \A u \in Threads : u # t => call[u] = NoCall

\* A launch that has not returned is in the hands of a call.
OpenInv ==
    ~dead => \A id \in Ids : done[id] = NoCall =>
                                \E t \in Threads : call[t] # NoCall /\ call[t].id = id

Past(f, c) == f.phase # "open" /\ c \notin Pending(f)
Entering(hook) == IF hook \in AclHooks THEN "CreateContext" ELSE "AddLaunchEvent"
Describing(hook) == IF hook \in AclHooks THEN "UpdateOpMemInfo" ELSE "ParseMetaData"

\* What a call has taken for its launch: last is the last launch of its
\* interface, what is what was launched.
Named(f, last, what) ==
    f.alone /\ ~f.failed =>
       /\ Past(f, Entering(f.hook)) => last = f.id
       /\ Past(f, Entering(f.hook)) /\ Past(f, "GetLaunchId") => f.event = f.id
       /\ f.kernel = f.id
       /\ f.sink = what.sink
       /\ f.phase \notin Early => f.skip = what.skip
NamedInv(t) ==
    call[t] # NoCall => Named(call[t], LastOf(Api(call[t].hook)), info[call[t].id])

NoneFailed == /\ \A t \in Threads : call[t] # NoCall => ~call[t].failed
              /\ \A id \in Ids : done[id] # NoCall => ~done[id].failed

\* Where the description of a launch is: with the device, in the archive, in
\* the dump.  An archive in step with the list of launches is needed for the last.
Filed(f, args, archive, dump, inStep) ==
    f.alone /\ ~f.failed =>
       /\ f.phase = "init" /\ "ArchiveMemInfo" \in Pending(f) /\ Past(f, Describing(f.hook)) =>
             args = f.id
       /\ Past(f, "ArchiveMemInfo") => archive # <<>> /\ Last(archive) = f.id
       /\ inStep /\ f.ok /\ f.sink /\ ~f.skip /\ f.phase \in {"post", "end", "close"} =>
             "LaunchDumpTask" \in Pending(f) \/ dump = <<f.id, f.id>>
ArchiveInv(t) ==
    call[t] # NoCall =>
        Filed(call[t], dev[Api(call[t].hook)].args, dev[Api(call[t].hook)].archive,
              dumps[call[t].id], NoneFailed /\ ~dead)

\* The entry in the list comes first.
Ordered(f) ==
    f.phase = "init" /\ ~f.failed /\ Entering(f.hook) \in Pending(f) =>
        InitCalls(f.hook) \subseteq Pending(f)

\* Calls between their entry in the list and the one in the archive.
Amid(f, a) ==
    /\ Api(f.hook) = a /\ f.phase = "init"
    /\ "ArchiveMemInfo" \in Pending(f) /\ Entering(f.hook) \notin Pending(f)
Between(a) == {t \in Threads : call[t] # NoCall /\ Amid(call[t], a)}
OrderedInv == \A t \in Threads : call[t] # NoCall => Ordered(call[t])
InStep ==
    NoneFailed /\ ~dead => \A a \in {"acl", "rt"} :
        /\ IsFiniteSet(Between(a))
        /\ Len(dev[a].launches) = Len(dev[a].archive) + Cardinality(Between(a))

OwnWell(id) ==
    LET f == done[id] IN
    f # NoCall /\ f.alone /\ ~f.failed =>
       /\ f.kernel = id /\ f.event = id
       /\ f.skip = info[id].skip /\ f.sink = info[id].sink
       /\ \A j \in 1..id : done[j] # NoCall
       /\ f.sink /\ f.ok /\ ~f.skip /\ (\A j \in 1..id : ~done[j].failed) => dumps[id] = <<id, id>>

OwnWorld ==
    /\ ReportWorld /\ AloneInv /\ OpenInv /\ OrderedInv /\ InStep
    /\ \A t \in Threads : NamedInv(t) /\ ArchiveInv(t)
    /\ \A id \in Ids : OwnWell(id)

-----------------------------------------------------------------------------
(* Ranges the tool is told, and what is withdrawn.                            *)

\* A launch of the runtime's interface.
OfRt(id) ==
    /\ \A t \in Threads : call[t] # NoCall /\ call[t].id = id => call[t].hook \in RtHooks
    /\ id \in Ids /\ done[id] # NoCall => done[id].hook \in RtHooks
RtInv ==
    /\ \A i \in DOMAIN dev["rt"].launches : OfRt(dev["rt"].launches[i])
    /\ \A t \in Threads : call[t] # NoCall /\ call[t].hook \in RtHooks =>
          /\ call[t].pc # None => OfRt(call[t].pc)
          /\ call[t].event # None => OfRt(call[t].event)

\* Nobody else tells or withdraws the sections of its launch.
Owned(f) == ~f.failed /\ (f.hook \in AclHooks \/ f.alone)

\* The hook tells ranges, in SanitizerPre or in SanitizerPost.
Checks(f) == ~f.skip /\ ~f.sink
TellsFirst == SimtHooks \cup RtHooks

\* The launch whose ranges the hook tells is its own.
Pointed(f) ==
    /\ f.hook \in AclHooks => f.pc = None \/ f.pc = f.id
    /\ f.hook \in AclHooks /\ ~f.failed /\ Past(f, "CreateContext") => f.pc = f.id
    /\ f.hook \in RtHooks /\ f.alone /\ ~f.failed /\ f.phase = "pre" /\ Checks(f)
          /\ Pending(f) \cap Events = {} => f.pc = f.id
    /\ Owned(f) /\ f.sections => f.pc = f.id
PointedInv == \A t \in Threads : call[t] # NoCall => Pointed(call[t])

\* What was told is withdrawn later, in this order.
Paired(f) ==
    ~f.failed =>
       /\ f.sections => f.phase \notin Early /\ Checks(f)
       /\ f.phase = "post" /\ "SectionsMalloc" \in Pending(f) => "SectionsFree" \in Pending(f)
       /\ f.phase = "post" /\ "OpMalloc" \in Pending(f) => "OpFree" \in Pending(f)
       /\ f.phase = "post" /\ "Finalize" \in Pending(f) =>
             /\ "SectionsFree" \in Pending(f) /\ Checks(f)
             /\ "SectionsMalloc" \in Pending(f) \/ f.sections
       /\ f.phase = "pre" /\ f.hook \in TellsFirst /\ Checks(f) =>
             "SectionsMalloc" \in Pending(f) \/ f.sections
PairedInv == \A t \in Threads : call[t] # NoCall => Paired(call[t])

\* What the tool knows of a launch.
Shown(f) == f.sections /\ (f.phase = "pre" \/ (f.phase = "post" /\ "SectionsFree" \in Pending(f)))
ToolKnows(f, sections, ops) ==
    /\ Owned(f) => (f.id \in sections <=> Shown(f))
    /\ f.alone /\ ~f.failed /\ f.hook \in TellsTensors /\ Checks(f) /\ "OpMalloc" \notin Pending(f)
          /\ \/ f.phase = "pre" /\ f.hook \in SimtHooks
             \/ f.phase = "post" /\ "Finalize" \in Pending(f)
             => f.id \in ops
KnownInv == \A t \in Threads : call[t] # NoCall => ToolKnows(call[t], told.sections, told.ops)

ReturnedInv ==
    ~dead => \A id \in Ids : done[id] # NoCall /\ done[id].hook \in AclHooks /\ ~done[id].failed
                               => id \notin told.sections

\* As long as no launch failed or overlapped another, what the tool knows is of
\* the call that is under way.
AllAlone == /\ \A t \in Threads : call[t] # NoCall => call[t].alone /\ ~call[t].failed
            /\ \A id \in Ids : done[id] # NoCall => done[id].alone /\ ~done[id].failed
HoldsOps(f) == \/ f.phase = "pre" /\ f.hook \in SimtHooks /\ Checks(f)
               \/ f.phase = "post" /\ "OpFree" \in Pending(f)
HoldsOverflow(f) == \/ f.phase = "pre" /\ f.hook \in RtHooks /\ Checks(f)
                    \/ f.phase = "post" /\ "OverflowFree" \in Pending(f)
CleanInv ==
    AllAlone /\ ~dead =>
       /\ \A x \in told.sections : \E t \in Threads : call[t] # NoCall /\ call[t].id = x
       /\ told.ops # {} => \E t \in Threads :
             call[t] # NoCall /\ HoldsOps(call[t]) /\ told.ops \subseteq dev[Api(call[t].hook)].ops
       /\ told.overflow # {} => \E t \in Threads : call[t] # NoCall /\ HoldsOverflow(call[t])

SectionIds == told.sections \subseteq 0..Len(info)

-----------------------------------------------------------------------------
(* The invariant of all of this. *)

RangeWorld ==
    /\ OwnWorld /\ SectionIds /\ RtInv /\ PointedInv /\ PairedInv /\ KnownInv /\ ReturnedInv
    /\ CleanInv

=============================================================================
