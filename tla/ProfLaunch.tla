----------------------------- MODULE ProfLaunch -----------------------------
(***************************************************************************)
(* One kernel launch of the application under the profiler, on a device.   *)
(* The hijacked launch call runs the kernel many times: instrumented for   *)
(* PC sampling and for the timeline, to warm up, once per set of hardware  *)
(* counters, once as the application asked (Call), and once more for every *)
(* record task.  MemoryContext saves the application's device blocks and   *)
(* puts them back between the runs, so that all of them see the same       *)
(* input; DevMemManager lends the buffer the instrumented kernels write.   *)
(*                                                                         *)
(* A block's contents are abstracted to a number.  A kernel run reads all  *)
(* its operands and adds one to each: two runs on the same data are told   *)
(* from one.  The steps of the launching thread interleave with another    *)
(* thread that allocates, frees and writes other blocks of the device; the *)
(* lock of the device's bucket makes Append, Discard, Backup and Restore   *)
(* atomic.  Range replay, the simulator and SIGINT are not modelled.       *)
(***************************************************************************)
EXTENDS Naturals, Sequences, FiniteSets, LaunchHooks

CONSTANTS
    Sections,     \* the device blocks of the application
    Configs,      \* the profiler's settings: mode, dbiFlag, warm-up, evict
    UsedHooks,    \* the launch calls the application uses
    Kernels,      \* the kernels it launches: [simt, fused]
    ReplayTimes,  \* counter sets to replay
    Faults,       \* the operations that may fail
    MaxFaults,    \* bound on the steps of a behaviour in which something fails
    MaxWork,      \* bound on the launches and the steps of the other thread,
    LaunchWork    \* one launch counting for so many of those steps

Tasks == {"START", "TIMELINE", "BB", "MEMORY_CHART", "OPERAND_RECORD", "WARP"}

ASSUME LaunchAssumption ==
    /\ Configs \subseteq [mode : {"kernel", "application"}, flags : SUBSET Tasks,
                          warm : Nat, evict : BOOLEAN]
    /\ UsedHooks \subseteq Hooks
    /\ Kernels \subseteq [simt : BOOLEAN, fused : {"no", "lccl", "mc2"}]
    /\ Faults \subseteq {"backup", "alloc", "expand", "dbi", "start", "launch",
                   "restore"}
    /\ ReplayTimes \in Nat \ {0}
    /\ {MaxFaults, MaxWork, LaunchWork} \subseteq Nat

\* In application replay the tool asks for one kind of instrumentation in each
\* run of the application: IsNeedRunOriginLaunch compares dbiFlag for equality.
ASSUME OneTaskPerRun ==
    \A c \in Configs : c.mode = "application" => \E t \in Tasks : c.flags \subseteq {t}

VARIABLES
    cfg,        \* ProfConfig, read once
    hook,       \* the launch call in use
    pc,         \* the phase of the current launch
    count,      \* loop counter of the phase
    task,       \* the instrumentation being prepared or run
    launch,     \* the launch: kernel, need of profiling, operands, input, result
    fields,     \* the hook object: kernel handle, arguments, memInfo_
    buf,        \* DevMemManager's buffer: who wrote it last
    alloc,      \* the allocated blocks
    mem,        \* their contents
    tracked,    \* the keys of MemoryContext's memSectionMap
    snap,       \* the snapshots it holds
    lccl, mc2,  \* KernelContext's flags of the device
    failed,     \* history: what failed in this launch
    run,        \* history: the last kernel run of this launch
    collected,  \* history: the last record written out
    fresh,      \* history: blocks allocated since the last Backup
    written,    \* history: what the other thread last wrote to a block
    budget      \* what is left of the bounds

settings == <<cfg, hook>>
blocks == <<alloc, mem, tracked, snap, fresh, written>>
history == <<run, collected>>
vars == <<cfg, hook, pc, count, task, launch, fields, buf, alloc, mem, tracked,
          snap, lccl, mc2, failed, run, collected, fresh, written, budget>>

Trait == HookTable[hook]
AppReplay == cfg.mode = "application"
IsDbi == AppReplay /\ cfg.flags # {}
Fused == mc2 \/ lccl

NoRun == [what |-> "none", handle |-> "origin", args |-> "bare", clean |-> TRUE,
          restored |-> TRUE]
NoRecord == [task |-> "none", from |-> "none"]

NoLaunch == [simt |-> FALSE, fused |-> "no", prof |-> FALSE, operands |-> {},
             input |-> [s \in Sections |-> 0], stale |-> FALSE, ret |-> TRUE]
NoFields == [handle |-> "origin", args |-> "bare", memInfo |-> FALSE]

Init ==
    /\ cfg \in Configs
    /\ hook \in UsedHooks
    /\ pc = "idle" /\ count = 0 /\ task = "none"
    /\ launch = NoLaunch
    /\ fields = NoFields
    /\ buf = "free"
    /\ alloc = Sections
    /\ mem = [s \in Sections |-> 0]
    /\ tracked = IF cfg.mode = "kernel" THEN Sections ELSE {}
    /\ snap = << >>
    /\ lccl = FALSE /\ mc2 = FALSE
    /\ failed = {}
    /\ run = NoRun /\ collected = NoRecord
    /\ fresh = Sections
    /\ written = mem
    /\ budget = [faults |-> MaxFaults, work |-> MaxWork]

(***************************************************************************)
(* What may fail, and the record of it.                                    *)
(***************************************************************************)
CanFail(f) == f \in Faults /\ budget.faults > 0

Fail(where) ==
    /\ failed' = failed \cup {where}
    /\ budget' = [budget EXCEPT !.faults = @ - 1]

NoFail == UNCHANGED <<failed, budget>>

\* What went wrong in a step that restores, if `done`: `where`, and the copy of
\* the blocks in `left`.  failed keeps "restore" while the last Restore of the
\* launch has left an operand out; a complete one makes up for it.
Outcome(done, left, where) ==
    /\ failed' = (IF done THEN failed \ {"restore"} ELSE failed) \cup where
                  \cup {f \in {"restore"} : left \cap launch.operands # {}}
    /\ budget' = IF left = {} /\ where = {} THEN budget
                 ELSE [budget EXCEPT !.faults = @ - 1]

(***************************************************************************)
(* MemoryContext.                                                          *)
(***************************************************************************)
\* Restore goes on after a block whose copy fails, and returns true all the same:
\* the blocks that one Restore, if it is `done` at all, may leave out.
LeftOut(done) == IF done /\ CanFail("restore") THEN SUBSET DOMAIN snap ELSE {{}}

\* Mutant: Restore copies also for a block without a snapshot.
RestoredUnchecked(m, left) ==
    [s \in Sections |-> IF s \in DOMAIN snap \ left THEN snap[s]
                       ELSE IF s \in tracked THEN 0 ELSE m[s]]

\* What the blocks hold after Restore: a block without a snapshot is skipped.
Restored(m, left) ==
    [s \in Sections |-> IF s \in DOMAIN snap \ left THEN snap[s] ELSE m[s]]

\* Where the code restores on a condition.
PutBack(done, m, left) == IF done THEN Restored(m, left) ELSE m

\* Backup saves every recorded block, in the order of the map.  What a Restore
\* left in an operand becomes its snapshot.
Backup ==
    /\ snap' = [s \in tracked |-> mem[s]]
    /\ fresh' = fresh \ tracked
    /\ failed' = failed \cup {f \in {"spoiled"} : "restore" \in failed}
    /\ UNCHANGED budget

\* It stops at the first block whose snapshot cannot be allocated or copied:
\* the blocks not reached keep the snapshot of an earlier launch, a failed copy
\* leaves the new snapshot as allocated, as copied or as it was.
BackupStops ==
    \E done \in SUBSET tracked : \E s \in tracked \ done :
        /\ \/ /\ s \notin DOMAIN snap
              /\ snap' = [x \in done \cup DOMAIN snap |->
                            IF x \in done THEN mem[x] ELSE snap[x]]
           \/ \E v \in {0, mem[s]} \cup {snap[x] : x \in DOMAIN snap \cap {s}} :
                snap' = [x \in done \cup {s} \cup DOMAIN snap |->
                            IF x \in done THEN mem[x] ELSE IF x = s THEN v ELSE snap[x]]
        /\ fresh' = fresh \ (done \cup {s})

(***************************************************************************)
(* The hook object and the buffer of the instrumented kernels.             *)
(***************************************************************************)
\* refreshParamFunc_: the application's kernel and arguments again.
Refreshed ==
    [handle  |-> "origin",
     args    |-> IF Trait.init.nullArgs THEN "null" ELSE "bare",
     memInfo |-> fields.memInfo /\ ~Trait.init.clears]

\* Mutant: a buffer that is there already is not cleared.
InitMemoryKeeps(ok) ==
    buf' \in IF ~ok THEN {"free", buf} ELSE IF buf = "free" THEN {"zero"} ELSE {buf}

\* InitMemory takes the buffer, through DevMemManager, and clears it.  It fails
\* when there is no memory, the old buffer then being freed, or in the memset.
InitMemory(ok) == buf' \in IF ok THEN {"zero"} ELSE {"free", buf}

\* PrepareDbiTask: refresh, buffer, arguments with the buffer's address,
\* instrumented kernel.  It stops at the first that fails.
PrepareDbiTask(t, outcome) ==
    /\ InitMemory(outcome # "alloc")
    /\ fields' =
         [handle  |-> IF outcome = "ok" THEN t ELSE "origin",
          args    |-> IF \/ outcome = "ok"
                         \/ outcome = "dbi" /\ Trait.prepare.argsFirst
                      THEN "record" ELSE Refreshed.args,
          memInfo |-> outcome # "alloc"]

PrepareOutcomes == {"ok"} \cup {f \in {"alloc", "expand", "dbi"} : CanFail(f)}

\* n runs of a kernel on the operands, whose contents were m.
AfterRuns(m, n) ==
    [s \in Sections |-> IF s \in launch.operands THEN m[s] + n ELSE m[s]]

\* The run as the properties see it, and what it leaves in the buffer.  f is what
\* had failed by then: the run was `restored` if the last Restore was complete.
Runs(what, handle, args, m, f) ==
    /\ run' = [what |-> what, handle |-> handle, args |-> args,
               clean |-> \A s \in launch.operands : m[s] = launch.input[s],
               restored |-> "restore" \notin f]
    /\ buf' = IF handle # "origin" /\ args = "record" THEN handle ELSE buf

\* The application's own launch, as the lambda func captured it.
RunsOrigin(what, m, f) == Runs(what, "origin", "bare", m, f)

\* The instrumented launch of funcStub.
RunsStub(what, m, f) ==
    Runs(what, fields.handle,
         IF Trait.instr.stubArgs = "current" THEN fields.args ELSE "bare", m, f)

(***************************************************************************)
(* What has to be generated for this launch.                               *)
(***************************************************************************)
IsPCSamplingNeedGen == "START" \in cfg.flags /\ launch.prof /\ launch.simt

IsTimelineNeedGen == "TIMELINE" \in cfg.flags /\ launch.prof

IsBBCountNeedGen == "BB" \in cfg.flags /\ launch.prof /\ ~Fused

RecordTasks == <<"MEMORY_CHART", "OPERAND_RECORD", "WARP">>

IsRecordNeedGen(t) ==
    /\ t \in cfg.flags /\ launch.prof
    /\ IF t = "WARP" THEN launch.simt ELSE ~Fused

IsNeedRunOriginLaunch ==
    /\ ~Fused
    /\ \/ AppReplay /\ cfg.flags = {"WARP"} /\ ~launch.simt
       \/ ~launch.prof
       \/ ~(cfg.flags # {"BB"} /\ AppReplay)
-----------------------------------------------------------------------------
(***************************************************************************)
(* The application calls the hook; InitParam makes the launch's contexts   *)
(* and asks the tool whether this kernel is to be profiled.                *)
(***************************************************************************)
InitParam(k, prof, ops) ==
    /\ pc = "idle" /\ budget.work >= LaunchWork
    /\ ops # {} /\ ops \subseteq alloc
    /\ launch' = [simt |-> k.simt, fused |-> k.fused, prof |-> prof,
                  operands |-> ops, input |-> mem, stale |-> Fused, ret |-> TRUE]
    /\ fields' = [Refreshed EXCEPT !.memInfo = FALSE]
    /\ pc' = "pcsampling" /\ count' = 0 /\ task' = "none"
    /\ failed' = {} /\ run' = NoRun /\ collected' = NoRecord
    /\ fresh' = fresh \ ops
    /\ budget' = [budget EXCEPT !.work = @ - LaunchWork]
    /\ UNCHANGED <<settings, buf, alloc, mem, tracked, snap, lccl, mc2, written>>

\* InitParam can fail: the launch goes through as the application made it.
InitParamFails(k, ops) ==
    /\ pc = "idle" /\ budget.work >= LaunchWork
    /\ ops # {} /\ ops \subseteq alloc
    /\ launch' = [simt |-> k.simt, fused |-> k.fused, prof |-> FALSE,
                  operands |-> ops, input |-> mem, stale |-> Fused, ret |-> TRUE]
    /\ mem' = [s \in Sections |-> IF s \in ops THEN mem[s] + 1 ELSE mem[s]]
    /\ fields' = [Refreshed EXCEPT !.memInfo = FALSE]
    /\ run' = [NoRun EXCEPT !.what = "call"]
    /\ pc' = "done" /\ failed' = {} /\ collected' = NoRecord
    /\ fresh' = fresh \ ops
    /\ budget' = [budget EXCEPT !.work = @ - LaunchWork]
    /\ UNCHANGED <<settings, count, task, buf, alloc, tracked, snap, lccl, mc2, written>>

(***************************************************************************)
(* ProfPreForInstrProf: the kernel instrumented for PC sampling, then for  *)
(* the timeline.                                                           *)
(***************************************************************************)
InstrTask ==
    CASE pc = "pcsampling" -> "START"
      [] pc = "timeline" -> "TIMELINE"
      [] OTHER -> "none"

InstrNext(t) == IF t = "START" THEN "timeline" ELSE "profinit"

InstrSkip ==
    /\ pc \in {"pcsampling", "timeline"}
    /\ ~(IF pc = "pcsampling" THEN IsPCSamplingNeedGen ELSE IsTimelineNeedGen)
    /\ pc' = InstrNext(InstrTask)
    /\ UNCHANGED <<settings, count, task, launch, fields, buf, blocks, lccl, mc2,
                   failed, history, budget>>

InstrPrepare ==
    /\ pc \in {"pcsampling", "timeline"}
    /\ IF pc = "pcsampling" THEN IsPCSamplingNeedGen ELSE IsTimelineNeedGen
    /\ \E outcome \in PrepareOutcomes :
         /\ PrepareDbiTask(InstrTask, outcome)
         /\ IF outcome = "ok" THEN NoFail ELSE Fail("instr")
         /\ pc' = IF outcome = "ok" THEN "instrbackup" ELSE InstrNext(InstrTask)
    /\ task' = InstrTask
    /\ UNCHANGED <<settings, count, launch, blocks, lccl, mc2, history>>

\* Whether the replay of this launch saves and restores.
Restores == ~(AppReplay \/ Fused)

\* InstrProfData saves the operands, except where they are never restored.
InstrBackup ==
    /\ pc = "instrbackup"
    /\ \/ /\ ~Restores
          /\ pc' = "instrwarm" /\ NoFail
          /\ UNCHANGED <<snap, fresh>>
       \/ /\ Restores
          /\ Backup
          /\ pc' = "instrwarm"
       \/ /\ Restores /\ CanFail("backup")
          /\ BackupStops
          /\ pc' = "instrend" /\ Fail("backup")
    /\ count' = 0
    /\ UNCHANGED <<settings, task, launch, fields, buf, alloc, mem, tracked, written,
                   lccl, mc2, history>>

\* WarmUp launches the kernel in kernel replay only; application replay warms
\* the device up with copies of its own memory.
WarmUpTimes == IF Restores THEN cfg.warm ELSE 0

\* A warm-up run, after which the wait for the stream may fail, which ends WarmUp.
WarmUpRuns(left) ==
    /\ mem' = AfterRuns(Restored(mem, left), 1)
    /\ \/ /\ Outcome(TRUE, left, {})
          /\ count' = count + 1
       \/ /\ CanFail("launch") /\ Outcome(TRUE, left, {"warm"})
          /\ count' = WarmUpTimes

\* The kernel does not run: the launch is refused, which nobody looks at, or the
\* wait fails before it.
WarmUpFails(left) ==
    /\ CanFail("launch") /\ Outcome(TRUE, left, {"warm"})
    /\ mem' = Restored(mem, left)
    /\ count' \in {count + 1, WarmUpTimes}
    /\ UNCHANGED <<run, buf>>

InstrWarmUp ==
    /\ pc = "instrwarm" /\ count < WarmUpTimes
    /\ \E left \in LeftOut(TRUE) :
         \/ WarmUpRuns(left) /\ RunsStub("warm", Restored(mem, left), failed')
         \/ WarmUpFails(left)
    /\ UNCHANGED <<settings, pc, task, launch, fields, alloc, tracked, snap, fresh,
                   written, lccl, mc2, collected>>

\* KernelLaunchForInstrProf: the measured run, and Restore after it.  When the
\* launch or the wait for it fails the kernel has run or has not.
InstrRun ==
    /\ pc = "instrwarm" /\ count >= WarmUpTimes
    /\ \E left \in LeftOut(Restores) :
         \/ /\ Outcome(Restores, left, {})
            /\ mem' = PutBack(Restores, AfterRuns(mem, 1), left)
            /\ RunsStub("instr", mem, failed)
         \/ /\ CanFail("launch") /\ Outcome(Restores, left, {"instr"})
            /\ \E n \in {0, 1} : mem' = PutBack(Restores, AfterRuns(mem, n), left)
            /\ UNCHANGED <<buf, run>>
    /\ pc' = "instrend"
    /\ UNCHANGED <<settings, count, task, launch, fields, alloc, tracked, snap, fresh,
                   written, lccl, mc2, collected>>

\* StartProf failed: it returns before the run and before Restore.
InstrStartFails ==
    /\ pc = "instrwarm" /\ count >= WarmUpTimes
    /\ CanFail("start") /\ Fail("instrstart")
    /\ pc' = "instrend"
    /\ UNCHANGED <<settings, count, task, launch, fields, buf, blocks, lccl, mc2, history>>

\* After PC sampling, and only then, GenRecordData writes the buffer out.
InstrEnd ==
    /\ pc = "instrend"
    /\ collected' = IF task = "START" THEN [task |-> task, from |-> buf] ELSE collected
    /\ pc' = InstrNext(task)
    /\ UNCHANGED <<settings, count, task, launch, fields, buf, blocks, lccl, mc2, failed,
                   run, budget>>

(***************************************************************************)
(* ProfPre: ProfInit finds out the kind of the kernel; the lccl flag is    *)
(* only ever set, and neither flag is touched for a kernel not profiled.   *)
(***************************************************************************)
ProfInit ==
    /\ pc = "profinit"
    /\ fields' = IF Trait.instr.refreshes THEN Refreshed ELSE fields
    /\ lccl' = (lccl \/ (launch.prof /\ launch.fused = "lccl"))
    /\ mc2' = IF launch.prof THEN launch.fused = "mc2" ELSE mc2
    /\ pc' = "profdata"
    /\ UNCHANGED <<settings, count, task, launch, buf, blocks, failed, history, budget>>

\* ProfData up to KernelReplay.  Application replay with instrumentation has
\* nothing to replay.
AfterBackup == IF mc2 THEN "mc2" ELSE IF IsDbi THEN "bb" ELSE "warm"

ProfData ==
    /\ pc = "profdata"
    /\ \/ /\ ~launch.prof
          /\ pc' = "bb" /\ NoFail
          /\ UNCHANGED <<snap, fresh>>
       \/ /\ launch.prof /\ (AppReplay \/ lccl)
          /\ pc' = AfterBackup /\ NoFail
          /\ UNCHANGED <<snap, fresh>>
       \/ /\ launch.prof /\ ~(AppReplay \/ lccl)
          /\ Backup
          /\ pc' = AfterBackup
       \/ /\ launch.prof /\ ~(AppReplay \/ lccl) /\ CanFail("backup")
          /\ BackupStops
          /\ pc' = "bb" /\ Fail("backup")
    /\ count' = 0
    /\ UNCHANGED <<settings, task, launch, fields, buf, alloc, mem, tracked, written,
                   lccl, mc2, history>>

\* An MC2 kernel is launched once before anything is measured.
MC2WarmUp ==
    /\ pc = "mc2"
    /\ mem' = AfterRuns(mem, 1)
    /\ RunsOrigin("mc2", mem, failed)
    /\ pc' = IF IsDbi THEN "bb" ELSE "warm"
    /\ UNCHANGED <<settings, count, task, launch, fields, alloc, tracked, snap, fresh,
                   written, lccl, mc2, failed, collected, budget>>

(***************************************************************************)
(* KernelReplay.                                                           *)
(***************************************************************************)
WarmUp ==
    /\ pc = "warm" /\ count < WarmUpTimes
    /\ \E left \in LeftOut(TRUE) :
         \/ WarmUpRuns(left) /\ RunsOrigin("warm", Restored(mem, left), failed')
         \/ WarmUpFails(left)
    /\ UNCHANGED <<settings, pc, task, launch, fields, alloc, tracked, snap, fresh, written,
                   lccl, mc2, collected>>

WarmUpEnd ==
    /\ pc = "warm" /\ count >= WarmUpTimes
    /\ count' = 0 /\ pc' = "replay"
    /\ UNCHANGED <<settings, task, launch, fields, buf, blocks, lccl, mc2, failed, history,
                   budget>>

\* One round more when the L2 cache is evicted; application replay makes one
\* round per run of the application.
Rounds == IF AppReplay THEN 1 ELSE ReplayTimes + (IF cfg.evict THEN 1 ELSE 0)

\* A Lccl kernel warms up within the round, unless the L2 cache is evicted.
RunsInRound == IF lccl /\ ~(cfg.evict /\ count = 0) THEN cfg.warm + 1 ELSE 1

\* What the kernel reads in a round.
ReplayInput(left) == PutBack(Restores, mem, left)

\* Mutant: the round's counters are started on what the last round left.
ReplayOnceNoRestore ==
    /\ pc = "replay" /\ count < Rounds
    /\ mem' = AfterRuns(mem, RunsInRound)
    /\ RunsOrigin("replay", mem, failed)
    /\ NoFail
    /\ count' = count + 1
    /\ UNCHANGED <<settings, pc, task, launch, fields, alloc, tracked, snap, fresh,
                   written, lccl, mc2, collected>>

\* When a launch or the wait for it fails, some of its runs have happened.
ReplayOnce ==
    /\ pc = "replay" /\ count < Rounds
    /\ \E left \in LeftOut(Restores) :
         \/ /\ Outcome(Restores, left, {})
            /\ mem' = AfterRuns(ReplayInput(left), RunsInRound)
            /\ RunsOrigin("replay", ReplayInput(left), failed')
         \/ /\ CanFail("start") /\ Outcome(Restores, left, {"replay"})
            /\ mem' = ReplayInput(left)
            /\ UNCHANGED <<run, buf>>
         \/ /\ CanFail("launch") /\ Outcome(Restores, left, {"replay"})
            /\ \E n \in 0..RunsInRound : mem' = AfterRuns(ReplayInput(left), n)
            /\ UNCHANGED <<run, buf>>
    /\ count' = count + 1
    /\ UNCHANGED <<settings, pc, task, launch, fields, alloc, tracked, snap, fresh,
                   written, lccl, mc2, collected>>

\* Mutant: no Restore after the last round.
KernelReplayEndNoRestore ==
    /\ pc = "replay" /\ count >= Rounds
    /\ pc' = "bb"
    /\ UNCHANGED <<settings, count, task, launch, fields, buf, blocks, lccl, mc2, failed,
                   history, budget>>

KernelReplayEnd ==
    /\ pc = "replay" /\ count >= Rounds
    /\ \E left \in LeftOut(Restores) :
         /\ Outcome(Restores, left, {})
         /\ mem' = ReplayInput(left)
    /\ pc' = "bb"
    /\ UNCHANGED <<settings, count, task, launch, fields, buf, alloc, tracked, snap, fresh,
                   written, lccl, mc2, history>>

(***************************************************************************)
(* bbCountTask switches the kernel first and looks for the buffer and the  *)
(* arguments afterwards.                                                   *)
(***************************************************************************)
BBCountSkip ==
    /\ pc = "bb" /\ ~IsBBCountNeedGen
    /\ pc' = "call"
    /\ UNCHANGED <<settings, count, task, launch, fields, buf, blocks, lccl, mc2, failed,
                   history, budget>>

BBCountReplaceFails ==
    /\ pc = "bb" /\ IsBBCountNeedGen
    /\ CanFail("dbi") /\ Fail("bbreplace")
    /\ fields' = Refreshed
    /\ pc' = "call"
    /\ UNCHANGED <<settings, count, task, launch, buf, blocks, lccl, mc2, history>>

BBCountTask ==
    /\ pc = "bb" /\ IsBBCountNeedGen
    /\ \E outcome \in {"ok"} \cup {f \in {"alloc", "expand"} : CanFail(f)} :
         /\ InitMemory(outcome # "alloc")
         /\ fields' = [handle  |-> "BB",
                       args    |-> CASE outcome = "ok" -> "record"
                                     [] outcome = "expand" -> "bare"
                                     [] outcome = "alloc" -> Refreshed.args,
                       memInfo |-> outcome # "alloc"]
         /\ IF outcome = "ok" THEN NoFail ELSE Fail("bb")
    /\ pc' = "call"
    /\ UNCHANGED <<settings, count, task, launch, blocks, lccl, mc2, history>>

(***************************************************************************)
(* Call: the launch the application waits for.                             *)
(***************************************************************************)
CallSkipsOrigin ==
    /\ pc = "call" /\ ~IsNeedRunOriginLaunch
    /\ pc' = "post" /\ count' = 0
    /\ UNCHANGED <<settings, task, launch, fields, buf, blocks, lccl, mc2, failed, history,
                   budget>>

CallOrigin ==
    /\ pc = "call" /\ IsNeedRunOriginLaunch
    /\ mem' = AfterRuns(mem, 1)
    /\ IF Trait.call.fallsBack /\ fields.args = "null"
       THEN RunsOrigin("call", mem, failed)
       ELSE Runs("call", fields.handle, fields.args, mem, failed)
    /\ pc' = "post" /\ count' = 0
    /\ UNCHANGED <<settings, task, launch, fields, alloc, tracked, snap, fresh, written,
                   lccl, mc2, failed, collected, budget>>

\* A failed launch ends the ACL hooks here: no record task, no Free.
CallFails ==
    /\ pc = "call" /\ IsNeedRunOriginLaunch
    /\ CanFail("launch") /\ Fail("call")
    /\ launch' = [launch EXCEPT !.ret = FALSE]
    /\ pc' = IF Trait.post.checksRet THEN "done" ELSE "post"
    /\ count' = 0
    /\ UNCHANGED <<settings, task, fields, buf, blocks, lccl, mc2, history>>

(***************************************************************************)
(* ProfPost: the block counts of Call's run, then the record tasks.        *)
(***************************************************************************)
GenBBcountFile ==
    /\ pc = "post" /\ count = 0
    /\ collected' = IF IsBBCountNeedGen /\ fields.memInfo
                    THEN [task |-> "BB", from |-> buf] ELSE collected
    /\ count' = 1
    /\ UNCHANGED <<settings, pc, task, launch, fields, buf, blocks, lccl, mc2, failed, run,
                   budget>>

RecordSkip ==
    /\ pc = "post" /\ count \in 1..Len(RecordTasks)
    /\ ~IsRecordNeedGen(RecordTasks[count])
    /\ count' = count + 1
    /\ UNCHANGED <<settings, pc, task, launch, fields, buf, blocks, lccl, mc2, failed,
                   history, budget>>

\* RunDbiRecordTask: the operands as they were, then the instrumented kernel.
RecordPrepare ==
    /\ pc = "post" /\ count \in 1..Len(RecordTasks)
    /\ IsRecordNeedGen(RecordTasks[count])
    /\ \E left \in LeftOut(~AppReplay), outcome \in PrepareOutcomes :
         /\ mem' = PutBack(~AppReplay, mem, left)
         /\ PrepareDbiTask(RecordTasks[count], outcome)
         /\ Outcome(~AppReplay, left, IF outcome = "ok" THEN {} ELSE {"record"})
         /\ pc' = IF outcome = "ok" THEN "record" ELSE pc
         /\ count' = IF outcome = "ok" THEN count ELSE count + 1
    /\ task' = RecordTasks[count]
    /\ UNCHANGED <<settings, launch, alloc, tracked, snap, fresh, written, lccl, mc2,
                   history>>

\* The launch's own result is not looked at, only that of the wait for the stream:
\* when it fails the kernel has run or has not, and nothing is collected.
RecordRun ==
    /\ pc = "record"
    /\ \/ /\ mem' = AfterRuns(mem, 1)
          /\ Runs("record", fields.handle, fields.args, mem, failed)
          /\ \/ collected' = [task |-> task, from |-> buf'] /\ NoFail
             \/ CanFail("launch") /\ Fail("record") /\ UNCHANGED collected
       \/ /\ CanFail("launch") /\ Fail("record")
          /\ collected' \in {collected, [task |-> task, from |-> buf]}
          /\ UNCHANGED <<mem, run, buf>>
    /\ pc' = "post" /\ count' = count + 1
    /\ UNCHANGED <<settings, task, launch, fields, alloc, tracked, snap, fresh, written,
                   lccl, mc2>>

\* PostProcess and DevMemManager::Free.
Post ==
    /\ pc = "post" /\ count > Len(RecordTasks)
    /\ buf' = "free"
    /\ pc' = "done"
    /\ UNCHANGED <<settings, count, task, launch, fields, blocks, lccl, mc2, failed,
                   history, budget>>

\* The hook object lives as long as the call.
Return ==
    /\ pc = "done"
    /\ pc' = "idle" /\ count' = 0 /\ task' = "none"
    /\ launch' = NoLaunch /\ fields' = NoFields
    /\ failed' = {} /\ run' = NoRun /\ collected' = NoRecord
    /\ UNCHANGED <<settings, buf, blocks, lccl, mc2, budget>>
-----------------------------------------------------------------------------
(***************************************************************************)
(* Another thread of the application, which leaves the operands of a       *)
(* running launch alone.                                                   *)
(***************************************************************************)
Busy == IF pc = "idle" THEN {} ELSE launch.operands

OtherStep ==
    /\ budget.work > 0
    /\ budget' = [budget EXCEPT !.work = @ - 1]
    /\ UNCHANGED <<settings, pc, count, task, launch, fields, buf, lccl, mc2, failed,
                   history>>

\* The malloc hooks: Append, unless blocks are not saved at all.
AppendSection(s) ==
    IF AppReplay \/ lccl THEN UNCHANGED <<tracked, snap>>
    ELSE /\ tracked' = tracked \cup {s}
         /\ snap' = [x \in DOMAIN snap \ {s} |-> snap[x]]

Malloc(s) ==
    /\ s \notin alloc
    /\ alloc' = alloc \cup {s}
    /\ AppendSection(s)
    /\ fresh' = fresh \cup {s}
    /\ written' = [written EXCEPT ![s] = mem[s]]
    /\ UNCHANGED mem
    /\ OtherStep

\* The free hooks: Discard, with the snapshot, before the block is freed.
DiscardSection(s) ==
    /\ tracked' = tracked \ {s}
    /\ snap' = [x \in DOMAIN snap \ {s} |-> snap[x]]

Free(s) ==
    /\ s \in alloc \ Busy
    /\ alloc' = alloc \ {s}
    /\ DiscardSection(s)
    /\ fresh' = fresh \ {s}
    /\ UNCHANGED <<mem, written>>
    /\ OtherStep

HostWrite(s) ==
    /\ s \in alloc \ Busy
    /\ mem' = [mem EXCEPT ![s] = @ + 1]
    /\ written' = [written EXCEPT ![s] = mem[s] + 1]
    /\ UNCHANGED <<alloc, tracked, snap, fresh>>
    /\ OtherStep
-----------------------------------------------------------------------------
LaunchStep ==
    \/ \E k \in Kernels, prof \in BOOLEAN, ops \in SUBSET Sections : InitParam(k, prof, ops)
    \/ \E k \in Kernels, ops \in SUBSET Sections : InitParamFails(k, ops)
    \/ InstrSkip \/ InstrPrepare \/ InstrBackup \/ InstrWarmUp \/ InstrRun
    \/ InstrStartFails \/ InstrEnd
    \/ ProfInit \/ ProfData \/ MC2WarmUp \/ WarmUp \/ WarmUpEnd \/ ReplayOnce \/ KernelReplayEnd
    \/ BBCountSkip \/ BBCountReplaceFails \/ BBCountTask
    \/ CallSkipsOrigin \/ CallOrigin \/ CallFails
    \/ GenBBcountFile \/ RecordSkip \/ RecordPrepare \/ RecordRun \/ Post \/ Return

Next ==
    \/ LaunchStep
    \/ \E s \in Sections : Malloc(s) \/ Free(s) \/ HostWrite(s)

Spec == Init /\ [][Next]_vars

(***************************************************************************)
(* Properties.                                                             *)
(***************************************************************************)
TypeOK ==
    /\ pc \in {"idle", "pcsampling", "timeline", "instrbackup", "instrwarm", "instrend",
              "profinit", "profdata", "mc2", "warm", "replay", "bb", "call", "post",
              "record", "done"}
    /\ fields \in [handle : {"origin"} \cup Tasks, args : {"null", "bare", "record"},
                   memInfo : BOOLEAN]
    /\ buf \in {"free", "zero"} \cup Tasks
    /\ mem \in [Sections -> Nat]
    /\ tracked \subseteq alloc /\ DOMAIN snap \subseteq tracked
    /\ fresh \subseteq alloc
    /\ fields.memInfo => buf # "free" \/ pc \in {"done", "idle"}

\* What leaves the operands of this launch off their input for good: a Backup cut
\* short, one that saved what an incomplete Restore of the instrumented runs had
\* left, StartProf failing after the warm-up runs, and the flag of an earlier
\* fused kernel, which InstrProfData takes for that of this one.
InputLost ==
    \/ {"backup", "spoiled"} \cap failed # {}
    \/ launch.stale /\ {"START", "TIMELINE"} \cap cfg.flags # {}
    \/ "instrstart" \in failed /\ cfg.warm > 0

\* Every run of a profiled kernel that is measured, recorded or kept by the
\* application reads the input the application launched it with: WarmUp,
\* ReplayOnce and RunDbiRecordTask put it back before, KernelReplay and
\* KernelLaunchForInstrProf after.  What a Restore could not copy spoils no run
\* after the next complete one, unless a Backup came in between; until then it
\* does, as MemoryContext::Restore returns true whatever it left out, and the
\* checks of its result in WarmUp, ReplayOnce and RunDbiRecordTask never fire.
\* The instrumented run of PC sampling and of the timeline reads the input only
\* without warm-up: nothing restores between the two.
RunsReadInput ==
    run.what # "none" /\ ~Fused /\ ~InputLost /\ run.restored
        /\ (run.what = "instr" => cfg.warm = 0 \/ AppReplay)
    => run.clean

\* After a launch that succeeded the operands hold the effect of exactly one
\* run of the kernel, however many times it was replayed and whatever failed
\* on the way, launches, waits and copies of Restore among it, with these
\* exceptions: a Backup or a record task failed, or the last Restore of the launch
\* left an operand out.  The launch then succeeds with more than one effect.
\* In application replay any failure may leave the kernel without its one run,
\* and so does a PC sampling request for a kernel without SIMT code.
OneRunLeft ==
    pc = "done" /\ launch.ret /\ ~Fused
        /\ (AppReplay => failed = {} /\ ~("START" \in cfg.flags /\ launch.prof /\ ~launch.simt))
        /\ (InputLost \/ {"record", "restore"} \cap failed # {} => ~launch.prof)
    => \A s \in launch.operands : mem[s] = launch.input[s] + 1

\* A kernel that was instrumented is launched with the address of the buffer
\* it writes to.  The exceptions are bbCountTask, which keeps the instrumented
\* kernel when the buffer or the arguments fail, and the two rt hooks whose
\* funcStub passes argsInfo_.
InstrumentedCarryRecord ==
    run.handle # "origin" =>
        \/ run.args = "record"
        \/ run.what = "call" /\ "bb" \in failed
        \/ run.what \in {"instr", "warm"} /\ Trait.instr.stubArgs = "original"

\* What is written out as the record of a task was written by that task's
\* kernel, or is empty.  Where refreshParamFunc_ leaves memInfo_ alone, a
\* failed BBCountDumper::Replace makes GenBBcountFile read the timeline's.
CollectedIsOwn ==
    collected.from \in {"none", "zero", collected.task}
        \/ (collected.task = "BB" /\ "bbreplace" \in failed /\ ~Trait.init.clears)

\* A block another thread allocates while a launch is being replayed keeps
\* what that thread writes, even at the address of a block that was saved.
NewBlockKept == \A s \in fresh : mem[s] = written[s]

\* An instrumented kernel has a record to write to, and what is collected from it
\* is its own (PrepareDbiTask, DevMemManager::InitMemory).
RecordsOwn == TypeOK /\ InstrumentedCarryRecord /\ CollectedIsOwn
=============================================================================
