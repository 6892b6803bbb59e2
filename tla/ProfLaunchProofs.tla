--------------------------- MODULE ProfLaunchProofs ---------------------------
(***************************************************************************)
(* Proofs about ProfLaunch, for any number of blocks, launches, failures   *)
(* and steps of the other thread: replaying a kernel never rewinds a block *)
(* allocated after the last save, records are their own task's, every run  *)
(* reads the input, and a launch leaves the effect of one run.             *)
(***************************************************************************)
EXTENDS ProfLaunch, TLAPS

\* Every block has contents, and a launch works on live blocks.
BlocksOK ==
    /\ DOMAIN mem = Sections /\ DOMAIN written = Sections
    /\ alloc \subseteq Sections /\ fresh \subseteq alloc
    /\ pc # "idle" => launch.operands \subseteq alloc

\* The map knows no freed block, and keeps snapshots of known blocks only.
MapOK == tracked \subseteq alloc /\ DOMAIN snap \subseteq tracked

\* A block not saved since it was allocated has no snapshot that Restore could
\* write, and is not an operand of the running launch.
FreshUntouched ==
    /\ \A s \in fresh : s \notin DOMAIN snap
    /\ pc # "idle" => \A s \in fresh : s \notin launch.operands

KeptInv == BlocksOK /\ MapOK /\ FreshUntouched /\ NewBlockKept

\* What a phase of the launch may do to the contents m of the blocks: Restore
\* writes those with a snapshot, a run of the kernel its operands.
Touched(m) ==
    /\ DOMAIN m = Sections
    /\ \A s \in Sections : s \in DOMAIN snap \/ s \in launch.operands \/ m[s] = mem[s]

\* Restoring keeps within that.
LEMMA RestoredTouched ==
    ASSUME NEW m, Touched(m), NEW left PROVE Touched(Restored(m, left))
BY DEF Touched, Restored

\* On a condition or without.
LEMMA PutBackTouched ==
    ASSUME NEW m, Touched(m), NEW done, NEW left PROVE Touched(PutBack(done, m, left))
BY RestoredTouched DEF PutBack

\* Running the kernel writes its operands and nothing else.
LEMMA AfterRunsTouched ==
    ASSUME NEW m, NEW n, Touched(m) PROVE Touched(AfterRuns(m, n))
BY DEF Touched, AfterRuns

\* A step of a running launch that only touches contents preserves KeptInv.
LEMMA TouchStep ==
    ASSUME KeptInv, pc # "idle", Touched(mem'),
           launch'.operands = launch.operands,
           UNCHANGED <<alloc, tracked, snap, fresh, written>>
    PROVE  KeptInv'
BY DEF KeptInv, BlocksOK, MapOK, FreshUntouched, NewBlockKept, Touched

\* So does a phase that saves some of the recorded blocks.
LEMMA SaveStep ==
    ASSUME KeptInv, pc # "idle", NEW saved, saved \subseteq tracked,
           DOMAIN snap' \subseteq saved \cup DOMAIN snap,
           fresh' = fresh \ saved,
           UNCHANGED <<alloc, mem, tracked, written, launch>>
    PROVE  KeptInv'
BY DEF KeptInv, BlocksOK, MapOK, FreshUntouched, NewBlockKept

\* Backup saves recorded blocks and no others, whether it completes or not.
LEMMA BackupStep ==
    ASSUME KeptInv, pc # "idle", Backup \/ BackupStops,
           UNCHANGED <<alloc, mem, tracked, written, launch>>
    PROVE  KeptInv'
<1>1. CASE Backup
  <2>1. DOMAIN snap' \subseteq tracked \cup DOMAIN snap
    BY <1>1 DEF Backup
  <2>2. fresh' = fresh \ tracked
    BY <1>1 DEF Backup
  <2> QED BY <2>1, <2>2, SaveStep
<1>2. CASE BackupStops
  <2>1. PICK done \in SUBSET tracked : \E s \in tracked \ done :
            /\ DOMAIN snap' \subseteq (done \cup {s}) \cup DOMAIN snap
            /\ fresh' = fresh \ (done \cup {s})
    BY <1>2, Zenon DEF BackupStops
  <2>2. PICK s \in tracked \ done :
            /\ DOMAIN snap' \subseteq (done \cup {s}) \cup DOMAIN snap
            /\ fresh' = fresh \ (done \cup {s})
    BY <2>1
  <2>3. done \cup {s} \subseteq tracked
    BY <2>1, <2>2
  <2> QED BY <2>2, <2>3, SaveStep
<1> QED BY <1>1, <1>2

\* The contents themselves are within Touched.
LEMMA SelfTouched ==
    ASSUME KeptInv PROVE Touched(mem)
BY DEF KeptInv, BlocksOK, Touched

\* The phases that leave the blocks alone.
QuietPhase ==
    \/ InstrSkip \/ InstrPrepare \/ InstrStartFails \/ InstrEnd \/ ProfInit
    \/ WarmUpEnd \/ BBCountSkip \/ BBCountReplaceFails \/ BBCountTask \/ CallSkipsOrigin
    \/ CallFails \/ GenBBcountFile \/ RecordSkip \/ Post

\* Each of them preserves KeptInv.
LEMMA QuietStep ==
    ASSUME KeptInv, QuietPhase PROVE KeptInv'
<1>1. Touched(mem)
  BY SelfTouched
<1>2. CASE InstrSkip
  <2>1. pc # "idle" /\ launch'.operands = launch.operands /\ UNCHANGED blocks
    BY <1>2 DEF InstrSkip
  <2>2. Touched(mem') /\ UNCHANGED <<alloc, tracked, snap, fresh, written>>
    BY <1>1, <2>1 DEF Touched, blocks
  <2> QED BY <2>1, <2>2, TouchStep
<1>3. CASE InstrPrepare
  <2>1. pc # "idle" /\ launch'.operands = launch.operands /\ UNCHANGED blocks
    BY <1>3 DEF InstrPrepare
  <2>2. Touched(mem') /\ UNCHANGED <<alloc, tracked, snap, fresh, written>>
    BY <1>1, <2>1 DEF Touched, blocks
  <2> QED BY <2>1, <2>2, TouchStep
<1>4. CASE InstrStartFails
  <2>1. pc # "idle" /\ launch'.operands = launch.operands /\ UNCHANGED blocks
    BY <1>4 DEF InstrStartFails
  <2>2. Touched(mem') /\ UNCHANGED <<alloc, tracked, snap, fresh, written>>
    BY <1>1, <2>1 DEF Touched, blocks
  <2> QED BY <2>1, <2>2, TouchStep
<1>5. CASE InstrEnd
  <2>1. pc # "idle" /\ launch'.operands = launch.operands /\ UNCHANGED blocks
    BY <1>5 DEF InstrEnd
  <2>2. Touched(mem') /\ UNCHANGED <<alloc, tracked, snap, fresh, written>>
    BY <1>1, <2>1 DEF Touched, blocks
  <2> QED BY <2>1, <2>2, TouchStep
<1>6. CASE ProfInit
  <2>1. pc # "idle" /\ launch'.operands = launch.operands /\ UNCHANGED blocks
    BY <1>6 DEF ProfInit
  <2>2. Touched(mem') /\ UNCHANGED <<alloc, tracked, snap, fresh, written>>
    BY <1>1, <2>1 DEF Touched, blocks
  <2> QED BY <2>1, <2>2, TouchStep
<1>7. CASE WarmUpEnd
  <2>1. pc # "idle" /\ launch'.operands = launch.operands /\ UNCHANGED blocks
    BY <1>7 DEF WarmUpEnd
  <2>2. Touched(mem') /\ UNCHANGED <<alloc, tracked, snap, fresh, written>>
    BY <1>1, <2>1 DEF Touched, blocks
  <2> QED BY <2>1, <2>2, TouchStep
<1>8. CASE BBCountSkip
  <2>1. pc # "idle" /\ launch'.operands = launch.operands /\ UNCHANGED blocks
    BY <1>8 DEF BBCountSkip
  <2>2. Touched(mem') /\ UNCHANGED <<alloc, tracked, snap, fresh, written>>
    BY <1>1, <2>1 DEF Touched, blocks
  <2> QED BY <2>1, <2>2, TouchStep
<1>9. CASE BBCountReplaceFails
  <2>1. pc # "idle" /\ launch'.operands = launch.operands /\ UNCHANGED blocks
    BY <1>9 DEF BBCountReplaceFails
  <2>2. Touched(mem') /\ UNCHANGED <<alloc, tracked, snap, fresh, written>>
    BY <1>1, <2>1 DEF Touched, blocks
  <2> QED BY <2>1, <2>2, TouchStep
<1>10. CASE BBCountTask
  <2>1. pc # "idle" /\ launch'.operands = launch.operands /\ UNCHANGED blocks
    BY <1>10 DEF BBCountTask
  <2>2. Touched(mem') /\ UNCHANGED <<alloc, tracked, snap, fresh, written>>
    BY <1>1, <2>1 DEF Touched, blocks
  <2> QED BY <2>1, <2>2, TouchStep
<1>11. CASE CallSkipsOrigin
  <2>1. pc # "idle" /\ launch'.operands = launch.operands /\ UNCHANGED blocks
    BY <1>11 DEF CallSkipsOrigin
  <2>2. Touched(mem') /\ UNCHANGED <<alloc, tracked, snap, fresh, written>>
    BY <1>1, <2>1 DEF Touched, blocks
  <2> QED BY <2>1, <2>2, TouchStep
<1>12. CASE CallFails
  <2>1. pc # "idle" /\ launch'.operands = launch.operands /\ UNCHANGED blocks
    BY <1>12 DEF CallFails
  <2>2. Touched(mem') /\ UNCHANGED <<alloc, tracked, snap, fresh, written>>
    BY <1>1, <2>1 DEF Touched, blocks
  <2> QED BY <2>1, <2>2, TouchStep
<1>13. CASE GenBBcountFile
  <2>1. pc # "idle" /\ launch'.operands = launch.operands /\ UNCHANGED blocks
    BY <1>13 DEF GenBBcountFile
  <2>2. Touched(mem') /\ UNCHANGED <<alloc, tracked, snap, fresh, written>>
    BY <1>1, <2>1 DEF Touched, blocks
  <2> QED BY <2>1, <2>2, TouchStep
<1>14. CASE RecordSkip
  <2>1. pc # "idle" /\ launch'.operands = launch.operands /\ UNCHANGED blocks
    BY <1>14 DEF RecordSkip
  <2>2. Touched(mem') /\ UNCHANGED <<alloc, tracked, snap, fresh, written>>
    BY <1>1, <2>1 DEF Touched, blocks
  <2> QED BY <2>1, <2>2, TouchStep
<1>15. CASE Post
  <2>1. pc # "idle" /\ launch'.operands = launch.operands /\ UNCHANGED blocks
    BY <1>15 DEF Post
  <2>2. Touched(mem') /\ UNCHANGED <<alloc, tracked, snap, fresh, written>>
    BY <1>1, <2>1 DEF Touched, blocks
  <2> QED BY <2>1, <2>2, TouchStep
<1> QED
  BY <1>2, <1>3, <1>4, <1>5, <1>6, <1>7, <1>8, <1>9, <1>10, <1>11, <1>12, <1>13, <1>14, <1>15
  DEF QuietPhase

\* The phases that restore the blocks or run the kernel.
RunPhase ==
    \/ InstrWarmUp \/ InstrRun \/ MC2WarmUp \/ WarmUp \/ ReplayOnce \/ KernelReplayEnd
    \/ CallOrigin \/ RecordPrepare \/ RecordRun

\* A run writes its operands, Restore the saved blocks: both are touched blocks.
LEMMA RunStep ==
    ASSUME KeptInv, RunPhase PROVE KeptInv'
<1>1. Touched(mem)
  BY SelfTouched
<1>2. \A left : Touched(Restored(mem, left))
  BY <1>1, RestoredTouched
<1>3. \A n : Touched(AfterRuns(mem, n))
  BY <1>1, AfterRunsTouched
<1>4. \A left : Touched(ReplayInput(left))
  BY <1>1, PutBackTouched DEF ReplayInput
<1>5. CASE InstrWarmUp
  <2>1. /\ pc # "idle" /\ launch' = launch
        /\ UNCHANGED <<alloc, tracked, snap, fresh, written>>
    BY <1>5 DEF InstrWarmUp
  <2>2. \E left : mem' \in {AfterRuns(Restored(mem, left), 1), Restored(mem, left)}
    BY <1>5, Zenon DEF InstrWarmUp, WarmUpRuns, WarmUpFails
  <2>3. Touched(mem')
    BY <1>2, AfterRunsTouched, <2>2
  <2> QED BY <2>1, <2>3, TouchStep
<1>6. CASE InstrRun
  <2>1. /\ pc # "idle" /\ launch' = launch
        /\ UNCHANGED <<alloc, tracked, snap, fresh, written>>
    BY <1>6 DEF InstrRun
  <2>2. \E left, n : mem' = PutBack(Restores, AfterRuns(mem, n), left)
    BY <1>6, Zenon DEF InstrRun
  <2>3. Touched(mem')
    BY <1>3, PutBackTouched, <2>2
  <2> QED BY <2>1, <2>3, TouchStep
<1>7. CASE MC2WarmUp
  <2>1. /\ pc # "idle" /\ launch' = launch
        /\ UNCHANGED <<alloc, tracked, snap, fresh, written>>
    BY <1>7 DEF MC2WarmUp
  <2>2. mem' = AfterRuns(mem, 1)
    BY <1>7, Zenon DEF MC2WarmUp
  <2>3. Touched(mem')
    BY <1>3, <2>2
  <2> QED BY <2>1, <2>3, TouchStep
<1>8. CASE WarmUp
  <2>1. /\ pc # "idle" /\ launch' = launch
        /\ UNCHANGED <<alloc, tracked, snap, fresh, written>>
    BY <1>8 DEF WarmUp
  <2>2. \E left : mem' \in {AfterRuns(Restored(mem, left), 1), Restored(mem, left)}
    BY <1>8, Zenon DEF WarmUp, WarmUpRuns, WarmUpFails
  <2>3. Touched(mem')
    BY <1>2, AfterRunsTouched, <2>2
  <2> QED BY <2>1, <2>3, TouchStep
<1>9. CASE ReplayOnce
  <2>1. /\ pc # "idle" /\ launch' = launch
        /\ UNCHANGED <<alloc, tracked, snap, fresh, written>>
    BY <1>9 DEF ReplayOnce
  <2>2. \E left, n : mem' \in {ReplayInput(left), AfterRuns(ReplayInput(left), n)}
    BY <1>9, Zenon DEF ReplayOnce
  <2>3. Touched(mem')
    BY <1>4, AfterRunsTouched, <2>2
  <2> QED BY <2>1, <2>3, TouchStep
<1>10. CASE KernelReplayEnd
  <2>1. /\ pc # "idle" /\ launch' = launch
        /\ UNCHANGED <<alloc, tracked, snap, fresh, written>>
    BY <1>10 DEF KernelReplayEnd
  <2>2. \E left : mem' = ReplayInput(left)
    BY <1>10, Zenon DEF KernelReplayEnd
  <2>3. Touched(mem')
    BY <1>4, <2>2
  <2> QED BY <2>1, <2>3, TouchStep
<1>11. CASE CallOrigin
  <2>1. /\ pc # "idle" /\ launch' = launch
        /\ UNCHANGED <<alloc, tracked, snap, fresh, written>>
    BY <1>11 DEF CallOrigin
  <2>2. mem' = AfterRuns(mem, 1)
    BY <1>11, Zenon DEF CallOrigin
  <2>3. Touched(mem')
    BY <1>3, <2>2
  <2> QED BY <2>1, <2>3, TouchStep
<1>12. CASE RecordPrepare
  <2>1. /\ pc # "idle" /\ launch' = launch
        /\ UNCHANGED <<alloc, tracked, snap, fresh, written>>
    BY <1>12 DEF RecordPrepare
  <2>2. \E left : mem' = PutBack(~AppReplay, mem, left)
    BY <1>12, Zenon DEF RecordPrepare
  <2>3. Touched(mem')
    BY <1>1, PutBackTouched, <2>2
  <2> QED BY <2>1, <2>3, TouchStep
<1>13. CASE RecordRun
  <2>1. /\ pc # "idle" /\ launch' = launch
        /\ UNCHANGED <<alloc, tracked, snap, fresh, written>>
    BY <1>13 DEF RecordRun
  <2>2. mem' \in {mem, AfterRuns(mem, 1)}
    BY <1>13, Zenon DEF RecordRun
  <2>3. Touched(mem')
    BY <1>1, <1>3, <2>2
  <2> QED BY <2>1, <2>3, TouchStep
<1> QED BY <1>5, <1>6, <1>7, <1>8, <1>9, <1>10, <1>11, <1>12, <1>13 DEF RunPhase

\* The phases that save the blocks.
LEMMA BackupPhaseStep ==
    ASSUME KeptInv, InstrBackup \/ ProfData PROVE KeptInv'
<1>1. pc # "idle" /\ UNCHANGED <<alloc, mem, tracked, written, launch>>
  BY DEF InstrBackup, ProfData
<1>2. Backup \/ BackupStops \/ UNCHANGED <<snap, fresh>>
  BY DEF InstrBackup, ProfData
<1>3. CASE UNCHANGED <<snap, fresh>>
  BY <1>1, <1>3, SelfTouched, TouchStep DEF Touched
<1> QED BY <1>1, <1>2, <1>3, BackupStep

\* The application launches a kernel: its operands are no longer fresh.
LEMMA LaunchBegins ==
    ASSUME KeptInv, NEW k \in Kernels, NEW prof \in BOOLEAN, NEW ops \in SUBSET Sections,
           InitParam(k, prof, ops) \/ InitParamFails(k, ops)
    PROVE  KeptInv'
<1>1. /\ ops \subseteq alloc /\ launch'.operands = ops /\ fresh' = fresh \ ops
      /\ UNCHANGED <<alloc, tracked, snap, written>>
  BY DEF InitParam, InitParamFails
<1>2. \/ mem' = mem
      \/ mem' = [s \in Sections |-> IF s \in ops THEN mem[s] + 1 ELSE mem[s]]
  BY DEF InitParam, InitParamFails
<1>3. DOMAIN mem' = Sections /\ \A s \in Sections \ ops : mem'[s] = mem[s]
  BY <1>2 DEF KeptInv, BlocksOK
<1> QED BY <1>1, <1>3 DEF KeptInv, BlocksOK, MapOK, FreshUntouched, NewBlockKept

\* The launch returns: its operands no longer matter.
LEMMA LaunchReturns ==
    ASSUME KeptInv, Return PROVE KeptInv'
BY DEF Return, blocks, KeptInv, BlocksOK, MapOK, FreshUntouched, NewBlockKept

\* The other thread: a block it allocates starts without a snapshot, because
\* Discard erased the one its address had.
LEMMA MallocStep ==
    ASSUME KeptInv, NEW s \in Sections, Malloc(s) PROVE KeptInv'
<1>1. /\ s \notin alloc /\ alloc' = alloc \cup {s} /\ fresh' = fresh \cup {s}
      /\ written' = [written EXCEPT ![s] = mem[s]]
      /\ UNCHANGED <<mem, pc, launch>>
  BY DEF Malloc, OtherStep
<1>2. /\ tracked' \subseteq tracked \cup {s}
      /\ DOMAIN snap' \subseteq DOMAIN snap \ {s}
      /\ tracked \subseteq tracked'
  <2>1. s \notin DOMAIN snap
    BY <1>1 DEF KeptInv, MapOK
  <2> QED BY <2>1 DEF Malloc, AppendSection
<1>3. BlocksOK' /\ MapOK'
  BY <1>1, <1>2 DEF KeptInv, BlocksOK, MapOK
<1>4. FreshUntouched'
  BY <1>1, <1>2 DEF KeptInv, BlocksOK, MapOK, FreshUntouched
<1>5. NewBlockKept'
  BY <1>1 DEF KeptInv, BlocksOK, NewBlockKept
<1> QED BY <1>3, <1>4, <1>5 DEF KeptInv

\* A block that is freed leaves the map with its snapshot (Discard).
LEMMA FreeStep ==
    ASSUME KeptInv, NEW s \in Sections, Free(s) PROVE KeptInv'
<1>1. /\ s \in alloc \ Busy /\ alloc' = alloc \ {s} /\ fresh' = fresh \ {s}
      /\ tracked' = tracked \ {s} /\ DOMAIN snap' = DOMAIN snap \ {s}
      /\ UNCHANGED <<mem, written, pc, launch>>
  BY DEF Free, OtherStep, DiscardSection
<1> QED
  BY <1>1 DEF Busy, KeptInv, BlocksOK, MapOK, FreshUntouched, NewBlockKept

\* A write of the other thread is what the history expects of the block.
LEMMA HostWriteStep ==
    ASSUME KeptInv, NEW s \in Sections, HostWrite(s) PROVE KeptInv'
<1>1. /\ mem' = [mem EXCEPT ![s] = mem[s] + 1]
      /\ written' = [written EXCEPT ![s] = mem[s] + 1]
      /\ UNCHANGED <<alloc, tracked, snap, fresh, pc, launch>>
  BY DEF HostWrite, OtherStep
<1> QED
  BY <1>1 DEF KeptInv, BlocksOK, MapOK, FreshUntouched, NewBlockKept

\* At the start no block has a snapshot.
LEMMA KeptInit == Init => KeptInv
BY DEF Init, NoLaunch, KeptInv, BlocksOK, MapOK, FreshUntouched, NewBlockKept

\* KeptInv is inductive.
LEMMA KeptNext == KeptInv /\ [Next]_vars => KeptInv'
<1> SUFFICES ASSUME KeptInv, [Next]_vars PROVE KeptInv'
  OBVIOUS
<1>1. CASE \E k \in Kernels, prof \in BOOLEAN, ops \in SUBSET Sections :
               InitParam(k, prof, ops)
  BY <1>1, LaunchBegins
<1>2. CASE \E k \in Kernels, ops \in SUBSET Sections : InitParamFails(k, ops)
  BY <1>2, LaunchBegins
<1>3. CASE QuietPhase
  BY <1>3, QuietStep
<1>4. CASE RunPhase
  BY <1>4, RunStep
<1>5. CASE InstrBackup \/ ProfData
  BY <1>5, BackupPhaseStep
<1>6. CASE Return
  BY <1>6, LaunchReturns
<1>7. CASE \E s \in Sections : Malloc(s) \/ Free(s) \/ HostWrite(s)
  BY <1>7, MallocStep, FreeStep, HostWriteStep
<1>8. CASE UNCHANGED vars
  BY <1>8 DEF vars, KeptInv, BlocksOK, MapOK, FreshUntouched, NewBlockKept
<1> QED
  BY <1>1, <1>2, <1>3, <1>4, <1>5, <1>6, <1>7, <1>8
  DEF Next, LaunchStep, QuietPhase, RunPhase

\* A block the application allocates while a kernel is being replayed keeps
\* what is written to it: no Restore of MemoryContext rewinds it, even when its
\* address had been saved before and whatever Backup was cut short.
THEOREM NewBlockKeptThm == Spec => []NewBlockKept
<1>1. KeptInv => NewBlockKept
  BY DEF KeptInv
<1> QED BY <1>1, KeptInit, KeptNext, PTL DEF Spec

\* MemoryContext's map never names a freed block, so neither Backup nor Restore
\* touches one, and it holds a snapshot of recorded blocks only.
THEOREM MapOKThm == Spec => []MapOK
<1>1. KeptInv => MapOK
  BY DEF KeptInv
<1> QED BY <1>1, KeptInit, KeptNext, PTL DEF Spec

-----------------------------------------------------------------------------
(***************************************************************************)
(* Records: whose data the buffer holds, phase by phase.                   *)
(***************************************************************************)
\* The settings are those read at the start, and the launch has the form that
\* InitParam gives it.
LaunchOK ==
    /\ cfg \in Configs /\ hook \in UsedHooks
    /\ lccl \in BOOLEAN /\ mc2 \in BOOLEAN
    /\ launch \in [simt : BOOLEAN, fused : {"no", "lccl", "mc2"}, prof : BOOLEAN,
                   operands : SUBSET Sections, input : [Sections -> Nat],
                   stale : BOOLEAN, ret : BOOLEAN]

\* What the blocks and the snapshots hold.
ContentsOK == mem \in [Sections -> Nat] /\ \A s \in DOMAIN snap : snap[s] \in Nat

\* The hook object, the buffer and the counters of the phases.
FormOK ==
    /\ pc \in {"idle", "pcsampling", "timeline", "instrbackup", "instrwarm", "instrend",
              "profinit", "profdata", "mc2", "warm", "replay", "bb", "call", "post",
              "record", "done"}
    /\ count \in Nat
    /\ fields \in [handle : {"origin"} \cup Tasks, args : {"null", "bare", "record"},
                   memInfo : BOOLEAN]
    /\ buf \in {"free", "zero"} \cup Tasks
    /\ fields.memInfo => buf # "free" \/ pc \in {"done", "idle"}

\* An instrumented kernel is in place together with the expanded arguments,
\* except after a bbCountTask that failed half-way.
FieldsTogether ==
    fields.handle # "origin" =>
        \/ fields.args = "record"
        \/ "bb" \in failed /\ pc \in {"call", "post", "done"}

InstrPhases == {"instrbackup", "instrwarm", "instrend"}
InstrTasks == {"START", "TIMELINE"}

\* While a task's kernel is in place for its run the buffer is empty or the
\* task's own, and the task was asked for.
TaskOwnsBuffer ==
    pc \in InstrPhases \cup {"record"} =>
        /\ fields.handle = task /\ fields.args = "record"
        /\ buf \in {"zero", task}
        /\ task \in cfg.flags /\ launch.prof
        /\ pc \in InstrPhases =>
             task \in InstrTasks /\ (task = "START" => launch.simt)
        /\ pc = "record" =>
             count \in 1..3 /\ task = RecordTasks[count] /\ IsRecordNeedGen(task)

\* The same for the block counts, which the run of Call writes.
BlockCountsOwn ==
    (pc = "call" \/ (pc = "post" /\ count = 0)) /\ IsBBCountNeedGen /\ fields.memInfo =>
        \/ fields.handle = "BB" /\ buf \in {"zero", "BB"}
        \/ "bbreplace" \in failed /\ ~Trait.init.clears

RecordInv ==
    /\ LaunchOK /\ ContentsOK /\ FormOK
    /\ FieldsTogether /\ TaskOwnsBuffer /\ BlockCountsOwn
    /\ InstrumentedCarryRecord /\ CollectedIsOwn

\* The settings of a behaviour, as the constants allow them.
LEMMA SettingsForm ==
    ASSUME LaunchOK
    PROVE  /\ cfg.flags \subseteq Tasks /\ cfg.warm \in Nat
           /\ cfg.mode \in {"kernel", "application"} /\ cfg.evict \in BOOLEAN
           /\ ReplayTimes \in Nat \ {0}
BY LaunchAssumption DEF LaunchOK

\* funcStub passes the hook's current arguments or the application's.
LEMMA StubArgsAre ==
    ASSUME LaunchOK PROVE Trait.instr.stubArgs \in {"current", "original"}
<1>1. hook \in Hooks
  BY LaunchAssumption DEF LaunchOK
<1> QED
  BY <1>1
  DEF Trait, Hooks, HookTable, AclrtLaunchKernelInstr, AclrtLaunchKernelV2Instr,
      AclrtLaunchKernelWithConfigInstr, AclrtLaunchKernelWithHostArgsInstr,
      AclrtLaunchKernelWithArgsArrayInstr, AclrtLaunchSIMTKernelWithArgsArrayInstr,
      AclrtLaunchSIMTKernelWithHostArgsInstr, KernelLaunchInstr,
      KernelLaunchWithFlagV2Instr, KernelLaunchWithHandleV2Instr

\* The record tasks, in the order ProfPost runs them.
LEMMA RecordTasksAre ==
    /\ Len(RecordTasks) = 3
    /\ RecordTasks[1] = "MEMORY_CHART" /\ RecordTasks[2] = "OPERAND_RECORD"
    /\ RecordTasks[3] = "WARP"
    /\ \A i \in 1..3 : RecordTasks[i] \in Tasks \ {"START", "TIMELINE", "BB"}
<1>1. /\ Len(RecordTasks) = 3
      /\ RecordTasks[1] = "MEMORY_CHART" /\ RecordTasks[2] = "OPERAND_RECORD"
      /\ RecordTasks[3] = "WARP"
  BY DEF RecordTasks
<1>2. \A i \in 1..3 : i = 1 \/ i = 2 \/ i = 3
  OBVIOUS
<1> QED BY <1>1, <1>2 DEF Tasks

\* A round of the replay runs the kernel at least once.
LEMMA RoundRuns ==
    ASSUME LaunchOK PROVE RunsInRound \in Nat
BY SettingsForm DEF RunsInRound

\* Running keeps the contents natural numbers.
LEMMA RunsNat ==
    ASSUME NEW m \in [Sections -> Nat], NEW n \in Nat
    PROVE  AfterRuns(m, n) \in [Sections -> Nat]
BY DEF AfterRuns

\* So does restoring.
LEMMA RestoredNat ==
    ASSUME ContentsOK, NEW m \in [Sections -> Nat], NEW left, NEW done
    PROVE  /\ Restored(m, left) \in [Sections -> Nat]
           /\ PutBack(done, m, left) \in [Sections -> Nat]
BY DEF ContentsOK, Restored, PutBack

\* No phase leaves a block or a snapshot without contents.
LEMMA ContentsStep ==
    ASSUME KeptInv, LaunchOK, ContentsOK, [Next]_vars PROVE ContentsOK'
<1>1. mem \in [Sections -> Nat] /\ \A left : Restored(mem, left) \in [Sections -> Nat]
  BY RestoredNat DEF ContentsOK
<1>2. \A left : ReplayInput(left) \in [Sections -> Nat]
  BY <1>1, RestoredNat DEF ReplayInput
<1>3. \A n \in Nat : AfterRuns(mem, n) \in [Sections -> Nat]
  BY <1>1, RunsNat
<1>4. 0 \in Nat /\ 1 \in Nat
  OBVIOUS
<1>5. RunsInRound \in Nat /\ \A n \in 0..RunsInRound : n \in Nat
  BY RoundRuns
<1>6. CASE QuietPhase \/ Return \/ UNCHANGED vars
  <2>1. UNCHANGED <<mem, snap>>
    BY <1>6
    DEF QuietPhase, vars, blocks, InstrSkip, InstrPrepare, InstrStartFails, InstrEnd,
        ProfInit, WarmUpEnd, BBCountSkip, BBCountReplaceFails, BBCountTask,
        CallSkipsOrigin, CallFails, GenBBcountFile, RecordSkip, Post, Return
  <2> QED BY <2>1 DEF ContentsOK
<1>7. CASE RunPhase
  <2>1. UNCHANGED snap
    BY <1>7
    DEF RunPhase, InstrWarmUp, InstrRun, MC2WarmUp, WarmUp, ReplayOnce, KernelReplayEnd,
        CallOrigin, RecordPrepare, RecordRun
  <2>2. mem' \in [Sections -> Nat]
    <3>1. CASE InstrWarmUp
      <4>1. \E left : mem' \in {AfterRuns(Restored(mem, left), 1), Restored(mem, left)}
        BY <3>1, Zenon DEF InstrWarmUp, WarmUpRuns, WarmUpFails
      <4> QED BY <4>1, <1>1, <1>4, RunsNat
    <3>2. CASE InstrRun
      <4>1. \E left : \E n \in Nat : mem' = PutBack(Restores, AfterRuns(mem, n), left)
        BY <1>4, <3>2, Zenon DEF InstrRun
      <4> QED BY <4>1, <1>3, RestoredNat
    <3>3. CASE MC2WarmUp
      <4>1. mem' = AfterRuns(mem, 1)
        BY <3>3, Zenon DEF MC2WarmUp
      <4> QED BY <4>1, <1>3, <1>4
    <3>4. CASE WarmUp
      <4>1. \E left : mem' \in {AfterRuns(Restored(mem, left), 1), Restored(mem, left)}
        BY <3>4, Zenon DEF WarmUp, WarmUpRuns, WarmUpFails
      <4> QED BY <4>1, <1>1, <1>4, RunsNat
    <3>5. CASE ReplayOnce
      <4>1. \E left : \E n \in Nat : mem' \in {ReplayInput(left), AfterRuns(ReplayInput(left), n)}
        BY <1>4, <1>5, <3>5, Zenon DEF ReplayOnce
      <4> QED BY <4>1, <1>2, RunsNat
    <3>6. CASE KernelReplayEnd
      <4>1. \E left : mem' = ReplayInput(left)
        BY <3>6, Zenon DEF KernelReplayEnd
      <4> QED BY <4>1, <1>2
    <3>7. CASE CallOrigin
      <4>1. mem' = AfterRuns(mem, 1)
        BY <3>7, Zenon DEF CallOrigin
      <4> QED BY <4>1, <1>3, <1>4
    <3>8. CASE RecordPrepare
      <4>1. \E left : mem' = PutBack(~AppReplay, mem, left)
        BY <3>8, Zenon DEF RecordPrepare
      <4> QED BY <4>1, <1>1, RestoredNat
    <3>9. CASE RecordRun
      <4>1. mem' \in {mem, AfterRuns(mem, 1)}
        BY <3>9, Zenon DEF RecordRun
      <4> QED BY <4>1, <1>1, <1>3, <1>4
    <3> QED BY <1>7, <3>1, <3>2, <3>3, <3>4, <3>5, <3>6, <3>7, <3>8, <3>9 DEF RunPhase
  <2> QED BY <2>1, <2>2 DEF ContentsOK
<1>8. CASE InstrBackup \/ ProfData
  <2>1. UNCHANGED mem /\ (Backup \/ BackupStops \/ UNCHANGED snap)
    BY <1>8 DEF InstrBackup, ProfData
  <2>2. tracked \subseteq Sections
    BY DEF KeptInv, MapOK, BlocksOK
  <2>3. \A s \in DOMAIN snap' : snap'[s] \in Nat
    <3>1. CASE Backup
      BY <2>2, <3>1 DEF Backup, ContentsOK
    <3>2. CASE BackupStops
      <4>1. PICK done \in SUBSET tracked, s \in tracked :
              \/ snap' = [x \in done \cup DOMAIN snap |->
                            IF x \in done THEN mem[x] ELSE snap[x]]
              \/ \E v \in {0, mem[s]} \cup {snap[x] : x \in DOMAIN snap \cap {s}} :
                   snap' = [x \in done \cup {s} \cup DOMAIN snap |->
                              IF x \in done THEN mem[x] ELSE IF x = s THEN v ELSE snap[x]]
        BY <3>2, Zenon DEF BackupStops
      <4>2. \A v \in {0, mem[s]} \cup {snap[x] : x \in DOMAIN snap \cap {s}} : v \in Nat
        BY <2>2 DEF ContentsOK
      <4>3. \A x \in done : mem[x] \in Nat
        BY <2>2 DEF ContentsOK
      <4>4. CASE snap' = [x \in done \cup DOMAIN snap |->
                            IF x \in done THEN mem[x] ELSE snap[x]]
        BY <4>3, <4>4 DEF ContentsOK
      <4>5. CASE \E v \in {0, mem[s]} \cup {snap[x] : x \in DOMAIN snap \cap {s}} :
                   snap' = [x \in done \cup {s} \cup DOMAIN snap |->
                              IF x \in done THEN mem[x] ELSE IF x = s THEN v ELSE snap[x]]
        <5>1. PICK v \in {0, mem[s]} \cup {snap[x] : x \in DOMAIN snap \cap {s}} :
                   snap' = [x \in done \cup {s} \cup DOMAIN snap |->
                              IF x \in done THEN mem[x] ELSE IF x = s THEN v ELSE snap[x]]
          BY <4>5
        <5>2. v \in Nat
          BY <4>2
        <5> QED BY <4>3, <5>1, <5>2 DEF ContentsOK
      <4> QED BY <4>1, <4>4, <4>5
    <3> QED BY <2>1, <3>1, <3>2 DEF ContentsOK
  <2> QED BY <2>1, <2>3 DEF ContentsOK
<1>9. CASE \E k \in Kernels, prof \in BOOLEAN, ops \in SUBSET Sections :
               InitParam(k, prof, ops)
  BY <1>9 DEF InitParam, ContentsOK
<1>10. CASE \E k \in Kernels, ops \in SUBSET Sections : InitParamFails(k, ops)
  BY <1>10 DEF InitParamFails, ContentsOK
<1>11. CASE \E s \in Sections : Malloc(s) \/ Free(s) \/ HostWrite(s)
  <2>1. PICK s \in Sections : Malloc(s) \/ Free(s) \/ HostWrite(s)
    BY <1>11
  <2>2. mem' = mem \/ mem' = [mem EXCEPT ![s] = mem[s] + 1]
    BY <2>1 DEF Malloc, Free, HostWrite
  <2>3. snap' = snap \/ snap' = [x \in DOMAIN snap \ {s} |-> snap[x]]
    BY <2>1 DEF Malloc, Free, HostWrite, AppendSection, DiscardSection
  <2> QED BY <2>2, <2>3 DEF ContentsOK
<1> QED
  BY <1>6, <1>7, <1>8, <1>9, <1>10, <1>11 DEF Next, LaunchStep, QuietPhase, RunPhase

\* The settings never change, and a launch keeps the form it was given.
LEMMA LaunchFormStep ==
    ASSUME LaunchOK, ContentsOK, [Next]_vars PROVE LaunchOK'
<1>1. CASE Return
  BY <1>1 DEF Return, settings, NoLaunch, LaunchOK
<1>2. CASE \E k \in Kernels, prof \in BOOLEAN, ops \in SUBSET Sections :
               InitParam(k, prof, ops)
  BY <1>2, LaunchAssumption DEF InitParam, settings, LaunchOK, ContentsOK, Fused
<1>3. CASE \E k \in Kernels, ops \in SUBSET Sections : InitParamFails(k, ops)
  BY <1>3, LaunchAssumption DEF InitParamFails, settings, LaunchOK, ContentsOK, Fused
<1>4. CASE ProfInit
  BY <1>4 DEF ProfInit, settings, LaunchOK
<1>5. CASE CallFails
  BY <1>5 DEF CallFails, settings, LaunchOK
<1>6. CASE \/ InstrSkip \/ InstrPrepare \/ InstrStartFails \/ InstrEnd \/ WarmUpEnd
           \/ BBCountSkip \/ BBCountReplaceFails \/ BBCountTask \/ CallSkipsOrigin
           \/ GenBBcountFile \/ RecordSkip \/ Post \/ RunPhase \/ InstrBackup \/ ProfData
           \/ UNCHANGED vars
  <2>1. UNCHANGED <<cfg, hook, lccl, mc2, launch>>
    BY <1>6
    DEF settings, vars, RunPhase, InstrSkip, InstrPrepare, InstrStartFails, InstrEnd,
        WarmUpEnd, BBCountSkip, BBCountReplaceFails, BBCountTask, CallSkipsOrigin,
        GenBBcountFile, RecordSkip, Post, InstrWarmUp, InstrRun, MC2WarmUp, WarmUp,
        ReplayOnce, KernelReplayEnd, CallOrigin, RecordPrepare, RecordRun, InstrBackup,
        ProfData
  <2> QED BY <2>1 DEF LaunchOK
<1>7. CASE \E s \in Sections : Malloc(s) \/ Free(s) \/ HostWrite(s)
  <2>1. UNCHANGED <<cfg, hook, lccl, mc2, launch>>
    BY <1>7 DEF Malloc, Free, HostWrite, OtherStep, settings
  <2> QED BY <2>1 DEF LaunchOK
<1> QED
  BY <1>1, <1>2, <1>3, <1>4, <1>5, <1>6, <1>7 DEF Next, LaunchStep, RunPhase


\* The part of RecordInv about the hook object, the buffer and the records.
RecordPart ==
    /\ FormOK /\ FieldsTogether /\ TaskOwnsBuffer /\ BlockCountsOwn
    /\ InstrumentedCarryRecord /\ CollectedIsOwn

\* A phase that has nothing to do leaves the hook object alone.
LEMMA RecordInstrSkip ==
    ASSUME RecordInv, LaunchOK', InstrSkip PROVE RecordPart'
<1> USE DEF settings, history
<1>1. FormOK'
  BY DEF InstrSkip, InstrNext, RecordInv, FormOK
<1>2. FieldsTogether'
  BY DEF InstrSkip, RecordInv, FieldsTogether
<1>3. TaskOwnsBuffer'
  BY DEF InstrSkip, InstrNext, InstrPhases, TaskOwnsBuffer
<1>4. BlockCountsOwn'
  BY DEF InstrSkip, InstrNext, BlockCountsOwn
<1>5. InstrumentedCarryRecord'
  BY DEF InstrSkip, RecordInv, Trait, InstrumentedCarryRecord
<1>6. CollectedIsOwn'
  BY DEF InstrSkip, RecordInv, Trait, CollectedIsOwn
<1> QED BY <1>1, <1>2, <1>3, <1>4, <1>5, <1>6 DEF RecordPart

\* PrepareDbiTask puts kernel, arguments and an empty buffer in place together,
\* or the launch goes on without.
LEMMA RecordInstrPrepare ==
    ASSUME RecordInv, LaunchOK', InstrPrepare PROVE RecordPart'
<1> USE DEF settings, history
<1>1. FormOK'
  <2>1. PICK outcome \in PrepareOutcomes :
          /\ PrepareDbiTask(InstrTask, outcome)
          /\ pc' = IF outcome = "ok" THEN "instrbackup" ELSE InstrNext(InstrTask)
    BY DEF InstrPrepare
  <2>2. InstrTask \in Tasks /\ pc' \in {"instrbackup", "timeline", "profinit"}
    BY DEF InstrPrepare, InstrTask, InstrNext, Tasks
  <2>3. Refreshed.args \in {"null", "bare"}
    BY DEF Refreshed
  <2>4. /\ buf' \in {"free", "zero"} \cup Tasks /\ (fields'.memInfo => buf' # "free")
        /\ fields' \in [handle : {"origin"} \cup Tasks, args : {"null", "bare", "record"},
                        memInfo : BOOLEAN]
    BY <2>1, <2>2, <2>3 DEF PrepareDbiTask, InitMemory, RecordInv, FormOK
  <2> QED BY <2>2, <2>4 DEF InstrPrepare, RecordInv, FormOK
<1>2. FieldsTogether'
  BY DEF InstrPrepare, PrepareDbiTask, FieldsTogether
<1>3. TaskOwnsBuffer'
  BY DEF InstrPrepare, PrepareDbiTask, InitMemory, InstrTask, InstrNext, IsPCSamplingNeedGen,
      IsTimelineNeedGen, InstrTasks, InstrPhases, TaskOwnsBuffer
<1>4. BlockCountsOwn'
  BY DEF InstrPrepare, InstrNext, BlockCountsOwn
<1>5. InstrumentedCarryRecord'
  BY DEF InstrPrepare, Fail, NoFail, RecordInv, Trait, InstrumentedCarryRecord
<1>6. CollectedIsOwn'
  BY DEF InstrPrepare, Fail, NoFail, RecordInv, Trait, CollectedIsOwn
<1> QED BY <1>1, <1>2, <1>3, <1>4, <1>5, <1>6 DEF RecordPart

\* A failed StartProf ends the phase with the buffer as it was.
LEMMA RecordInstrStartFails ==
    ASSUME RecordInv, LaunchOK', InstrStartFails PROVE RecordPart'
<1> USE DEF settings, history
<1>1. FormOK'
  BY DEF InstrStartFails, RecordInv, FormOK
<1>2. FieldsTogether'
  BY DEF InstrStartFails, RecordInv, FieldsTogether
<1>3. TaskOwnsBuffer'
  BY DEF InstrStartFails, RecordInv, InstrPhases, TaskOwnsBuffer
<1>4. BlockCountsOwn'
  BY DEF InstrStartFails, BlockCountsOwn
<1>5. InstrumentedCarryRecord'
  BY DEF InstrStartFails, Fail, RecordInv, Trait, InstrumentedCarryRecord
<1>6. CollectedIsOwn'
  BY DEF InstrStartFails, Fail, RecordInv, Trait, CollectedIsOwn
<1> QED BY <1>1, <1>2, <1>3, <1>4, <1>5, <1>6 DEF RecordPart

\* GenRecordData after PC sampling reads what the instrumented kernel wrote, or nothing.
LEMMA RecordInstrEnd ==
    ASSUME RecordInv, LaunchOK', InstrEnd PROVE RecordPart'
<1> USE DEF settings, history
<1>1. FormOK'
  BY DEF InstrEnd, InstrNext, RecordInv, FormOK
<1>2. FieldsTogether'
  BY DEF InstrEnd, RecordInv, FieldsTogether
<1>3. TaskOwnsBuffer'
  BY DEF InstrEnd, InstrNext, InstrPhases, TaskOwnsBuffer
<1>4. BlockCountsOwn'
  BY DEF InstrEnd, InstrNext, BlockCountsOwn
<1>5. InstrumentedCarryRecord'
  BY DEF InstrEnd, RecordInv, Trait, InstrumentedCarryRecord
<1>6. CollectedIsOwn'
  <2>1. task = "START" => buf \in {"zero", task}
    BY DEF InstrEnd, RecordInv, TaskOwnsBuffer, InstrPhases
  <2> QED BY <2>1 DEF InstrEnd, RecordInv, Trait, CollectedIsOwn
<1> QED BY <1>1, <1>2, <1>3, <1>4, <1>5, <1>6 DEF RecordPart

\* ProfInit may leave the instrumented kernel of the timeline in place, with its arguments.
LEMMA RecordProfInit ==
    ASSUME RecordInv, LaunchOK', ProfInit PROVE RecordPart'
<1> USE DEF settings, history
<1>1. FormOK'
  BY DEF ProfInit, Refreshed, RecordInv, FormOK
<1>2. FieldsTogether'
  BY DEF ProfInit, Refreshed, RecordInv, FieldsTogether
<1>3. TaskOwnsBuffer'
  BY DEF ProfInit, InstrPhases, TaskOwnsBuffer
<1>4. BlockCountsOwn'
  BY DEF ProfInit, BlockCountsOwn
<1>5. InstrumentedCarryRecord'
  BY DEF ProfInit, RecordInv, Trait, InstrumentedCarryRecord
<1>6. CollectedIsOwn'
  BY DEF ProfInit, RecordInv, Trait, CollectedIsOwn
<1> QED BY <1>1, <1>2, <1>3, <1>4, <1>5, <1>6 DEF RecordPart

\* The end of the warm-up.
LEMMA RecordWarmUpEnd ==
    ASSUME RecordInv, LaunchOK', WarmUpEnd PROVE RecordPart'
<1> USE DEF settings, history
<1>1. FormOK'
  BY DEF WarmUpEnd, RecordInv, FormOK
<1>2. FieldsTogether'
  BY DEF WarmUpEnd, RecordInv, FieldsTogether
<1>3. TaskOwnsBuffer'
  BY DEF WarmUpEnd, InstrPhases, TaskOwnsBuffer
<1>4. BlockCountsOwn'
  BY DEF WarmUpEnd, BlockCountsOwn
<1>5. InstrumentedCarryRecord'
  BY DEF WarmUpEnd, RecordInv, Trait, InstrumentedCarryRecord
<1>6. CollectedIsOwn'
  BY DEF WarmUpEnd, RecordInv, Trait, CollectedIsOwn
<1> QED BY <1>1, <1>2, <1>3, <1>4, <1>5, <1>6 DEF RecordPart

\* Without block counts there is nothing for GenBBcountFile to read.
LEMMA RecordBBCountSkip ==
    ASSUME RecordInv, LaunchOK', BBCountSkip PROVE RecordPart'
<1> USE DEF settings, history
<1>1. FormOK'
  BY DEF BBCountSkip, RecordInv, FormOK
<1>2. FieldsTogether'
  BY DEF BBCountSkip, RecordInv, FieldsTogether
<1>3. TaskOwnsBuffer'
  BY DEF BBCountSkip, InstrPhases, TaskOwnsBuffer
<1>4. BlockCountsOwn'
  BY DEF BBCountSkip, IsBBCountNeedGen, Fused, BlockCountsOwn
<1>5. InstrumentedCarryRecord'
  BY DEF BBCountSkip, RecordInv, Trait, InstrumentedCarryRecord
<1>6. CollectedIsOwn'
  BY DEF BBCountSkip, RecordInv, Trait, CollectedIsOwn
<1> QED BY <1>1, <1>2, <1>3, <1>4, <1>5, <1>6 DEF RecordPart

\* A failed Replace leaves the application's kernel, and memInfo_ where the refresh keeps it.
LEMMA RecordBBCountReplaceFails ==
    ASSUME RecordInv, LaunchOK', BBCountReplaceFails PROVE RecordPart'
<1> USE DEF settings, history
<1>1. FormOK'
  BY DEF BBCountReplaceFails, Refreshed, RecordInv, FormOK
<1>2. FieldsTogether'
  BY DEF BBCountReplaceFails, Refreshed, FieldsTogether
<1>3. TaskOwnsBuffer'
  BY DEF BBCountReplaceFails, InstrPhases, TaskOwnsBuffer
<1>4. BlockCountsOwn'
  BY DEF BBCountReplaceFails, Refreshed, Fail, Trait, BlockCountsOwn
<1>5. InstrumentedCarryRecord'
  BY DEF BBCountReplaceFails, Fail, RecordInv, Trait, InstrumentedCarryRecord
<1>6. CollectedIsOwn'
  BY DEF BBCountReplaceFails, Fail, RecordInv, Trait, CollectedIsOwn
<1> QED BY <1>1, <1>2, <1>3, <1>4, <1>5, <1>6 DEF RecordPart

\* bbCountTask clears the buffer, or leaves memInfo_ unset.
LEMMA RecordBBCountTask ==
    ASSUME RecordInv, LaunchOK', BBCountTask PROVE RecordPart'
<1> USE DEF settings, history
<1>1. FormOK'
  <2>1. PICK outcome \in {"ok", "alloc", "expand"} :
          /\ InitMemory(outcome # "alloc")
          /\ fields' = [handle  |-> "BB",
                        args    |-> CASE outcome = "ok" -> "record"
                                      [] outcome = "expand" -> "bare"
                                      [] outcome = "alloc" -> Refreshed.args,
                        memInfo |-> outcome # "alloc"]
    BY DEF BBCountTask
  <2>2. Refreshed.args \in {"null", "bare"}
    BY DEF Refreshed
  <2>3. /\ buf' \in {"free", "zero"} \cup Tasks /\ (fields'.memInfo => buf' # "free")
        /\ fields' \in [handle : {"origin"} \cup Tasks, args : {"null", "bare", "record"},
                        memInfo : BOOLEAN]
    BY <2>1, <2>2 DEF InitMemory, RecordInv, FormOK, Tasks
  <2> QED BY <2>3 DEF BBCountTask, RecordInv, FormOK
<1>2. FieldsTogether'
  BY DEF BBCountTask, Fail, FieldsTogether
<1>3. TaskOwnsBuffer'
  BY DEF BBCountTask, InstrPhases, TaskOwnsBuffer
<1>4. BlockCountsOwn'
  <2>1. PICK outcome \in {"ok", "alloc", "expand"} :
          /\ InitMemory(outcome # "alloc")
          /\ fields'.handle = "BB" /\ fields'.memInfo = (outcome # "alloc")
    BY DEF BBCountTask
  <2>2. fields'.memInfo => fields'.handle = "BB" /\ buf' = "zero"
    BY <2>1 DEF InitMemory
  <2> QED BY <2>2 DEF BlockCountsOwn
<1>5. InstrumentedCarryRecord'
  BY DEF BBCountTask, Fail, NoFail, RecordInv, Trait, InstrumentedCarryRecord
<1>6. CollectedIsOwn'
  BY DEF BBCountTask, Fail, NoFail, RecordInv, Trait, CollectedIsOwn
<1> QED BY <1>1, <1>2, <1>3, <1>4, <1>5, <1>6 DEF RecordPart

\* Call without a launch.
LEMMA RecordCallSkipsOrigin ==
    ASSUME RecordInv, LaunchOK', CallSkipsOrigin PROVE RecordPart'
<1> USE DEF settings, history
<1>1. FormOK'
  BY DEF CallSkipsOrigin, RecordInv, FormOK
<1>2. FieldsTogether'
  BY DEF CallSkipsOrigin, RecordInv, FieldsTogether
<1>3. TaskOwnsBuffer'
  BY DEF CallSkipsOrigin, InstrPhases, TaskOwnsBuffer
<1>4. BlockCountsOwn'
  BY DEF CallSkipsOrigin, RecordInv, IsBBCountNeedGen, Fused, Trait, BlockCountsOwn
<1>5. InstrumentedCarryRecord'
  BY DEF CallSkipsOrigin, RecordInv, Trait, InstrumentedCarryRecord
<1>6. CollectedIsOwn'
  BY DEF CallSkipsOrigin, RecordInv, Trait, CollectedIsOwn
<1> QED BY <1>1, <1>2, <1>3, <1>4, <1>5, <1>6 DEF RecordPart

\* A failed launch writes no buffer.
LEMMA RecordCallFails ==
    ASSUME RecordInv, LaunchOK', CallFails PROVE RecordPart'
<1> USE DEF settings, history
<1>1. FormOK'
  BY DEF CallFails, RecordInv, FormOK
<1>2. FieldsTogether'
  BY DEF CallFails, Fail, RecordInv, FieldsTogether
<1>3. TaskOwnsBuffer'
  BY DEF CallFails, InstrPhases, TaskOwnsBuffer
<1>4. BlockCountsOwn'
  BY DEF CallFails, Fail, RecordInv, IsBBCountNeedGen, Fused, Trait, BlockCountsOwn
<1>5. InstrumentedCarryRecord'
  BY DEF CallFails, Fail, RecordInv, Trait, InstrumentedCarryRecord
<1>6. CollectedIsOwn'
  BY DEF CallFails, Fail, RecordInv, Trait, CollectedIsOwn
<1> QED BY <1>1, <1>2, <1>3, <1>4, <1>5, <1>6 DEF RecordPart

\* GenBBcountFile reads what the run of Call wrote.
LEMMA RecordGenBBcountFile ==
    ASSUME RecordInv, LaunchOK', GenBBcountFile PROVE RecordPart'
<1> USE DEF settings, history
<1>1. FormOK'
  BY DEF GenBBcountFile, RecordInv, FormOK
<1>2. FieldsTogether'
  BY DEF GenBBcountFile, RecordInv, FieldsTogether
<1>3. TaskOwnsBuffer'
  BY DEF GenBBcountFile, InstrPhases, TaskOwnsBuffer
<1>4. BlockCountsOwn'
  BY DEF GenBBcountFile, BlockCountsOwn
<1>5. InstrumentedCarryRecord'
  BY DEF GenBBcountFile, RecordInv, Trait, InstrumentedCarryRecord
<1>6. CollectedIsOwn'
  BY DEF GenBBcountFile, RecordInv, Trait, BlockCountsOwn, CollectedIsOwn
<1> QED BY <1>1, <1>2, <1>3, <1>4, <1>5, <1>6 DEF RecordPart

\* A record task that is not needed.
LEMMA RecordRecordSkip ==
    ASSUME RecordInv, LaunchOK', RecordSkip PROVE RecordPart'
<1> USE DEF settings, history
<1>1. FormOK'
  BY DEF RecordSkip, RecordInv, FormOK
<1>2. FieldsTogether'
  BY DEF RecordSkip, RecordInv, FieldsTogether
<1>3. TaskOwnsBuffer'
  BY DEF RecordSkip, InstrPhases, TaskOwnsBuffer
<1>4. BlockCountsOwn'
  BY DEF RecordSkip, BlockCountsOwn
<1>5. InstrumentedCarryRecord'
  BY DEF RecordSkip, RecordInv, Trait, InstrumentedCarryRecord
<1>6. CollectedIsOwn'
  BY DEF RecordSkip, RecordInv, Trait, CollectedIsOwn
<1> QED BY <1>1, <1>2, <1>3, <1>4, <1>5, <1>6 DEF RecordPart

\* PostProcess frees the buffer.
LEMMA RecordPost ==
    ASSUME RecordInv, LaunchOK', Post PROVE RecordPart'
<1> USE DEF settings, history
<1>1. FormOK'
  BY DEF Post, RecordInv, FormOK
<1>2. FieldsTogether'
  BY DEF Post, RecordInv, FieldsTogether
<1>3. TaskOwnsBuffer'
  BY DEF Post, InstrPhases, TaskOwnsBuffer
<1>4. BlockCountsOwn'
  BY DEF Post, BlockCountsOwn
<1>5. InstrumentedCarryRecord'
  BY DEF Post, RecordInv, Trait, InstrumentedCarryRecord
<1>6. CollectedIsOwn'
  BY DEF Post, RecordInv, Trait, CollectedIsOwn
<1> QED BY <1>1, <1>2, <1>3, <1>4, <1>5, <1>6 DEF RecordPart

\* The hook object ends with the call.
LEMMA RecordReturn ==
    ASSUME RecordInv, LaunchOK', Return PROVE RecordPart'
<1> USE DEF settings, history
<1>1. FormOK'
  BY DEF Return, NoFields, RecordInv, FormOK
<1>2. FieldsTogether'
  BY DEF Return, NoFields, FieldsTogether
<1>3. TaskOwnsBuffer'
  BY DEF Return, InstrPhases, TaskOwnsBuffer
<1>4. BlockCountsOwn'
  BY DEF Return, BlockCountsOwn
<1>5. InstrumentedCarryRecord'
  BY DEF Return, NoRun, InstrumentedCarryRecord
<1>6. CollectedIsOwn'
  BY DEF Return, NoRecord, CollectedIsOwn
<1> QED BY <1>1, <1>2, <1>3, <1>4, <1>5, <1>6 DEF RecordPart

\* A warm-up run of the instrumented kernel writes its own task's data.
LEMMA RecordInstrWarmUp ==
    ASSUME RecordInv, LaunchOK', InstrWarmUp PROVE RecordPart'
<1> USE DEF settings, history
<1>1. FormOK'
  <2>1. WarmUpTimes \in Nat
    BY SettingsForm DEF WarmUpTimes, RecordInv
  <2>2. count' \in {count + 1, WarmUpTimes}
    BY Zenon DEF InstrWarmUp, WarmUpRuns, WarmUpFails
  <2>3. count' \in Nat
    BY <2>1, <2>2 DEF RecordInv, FormOK
  <2> QED
    BY <2>3 DEF InstrWarmUp, RunsStub, Runs, WarmUpFails, RecordInv, FormOK, Tasks
<1>2. FieldsTogether'
  BY DEF InstrWarmUp, WarmUpRuns, WarmUpFails, Outcome, RecordInv, FieldsTogether
<1>3. TaskOwnsBuffer'
  BY DEF InstrWarmUp, RunsStub, Runs, WarmUpFails, RecordInv, TaskOwnsBuffer
<1>4. BlockCountsOwn'
  BY DEF InstrWarmUp, BlockCountsOwn
<1>5. InstrumentedCarryRecord'
  <2>1. fields.args = "record"
    BY DEF InstrWarmUp, RecordInv, TaskOwnsBuffer, InstrPhases
  <2> QED
    BY <2>1, StubArgsAre
    DEF InstrWarmUp, RunsStub, Runs, WarmUpRuns, WarmUpFails, Outcome, RecordInv, Trait,
        InstrumentedCarryRecord
<1>6. CollectedIsOwn'
  BY DEF InstrWarmUp, WarmUpRuns, WarmUpFails, Outcome, RecordInv, Trait, CollectedIsOwn
<1> QED BY <1>1, <1>2, <1>3, <1>4, <1>5, <1>6 DEF RecordPart

\* So does the measured run.
LEMMA RecordInstrRun ==
    ASSUME RecordInv, LaunchOK', InstrRun PROVE RecordPart'
<1> USE DEF settings, history
<1>1. FormOK'
  BY DEF InstrRun, RunsStub, Runs, RecordInv, FormOK, Tasks
<1>2. FieldsTogether'
  BY DEF InstrRun, Outcome, RecordInv, FieldsTogether
<1>3. TaskOwnsBuffer'
  BY DEF InstrRun, RunsStub, Runs, RecordInv, InstrPhases, TaskOwnsBuffer
<1>4. BlockCountsOwn'
  BY DEF InstrRun, BlockCountsOwn
<1>5. InstrumentedCarryRecord'
  <2>1. fields.args = "record"
    BY DEF InstrRun, RecordInv, TaskOwnsBuffer, InstrPhases
  <2> QED
    BY <2>1, StubArgsAre
    DEF InstrRun, RunsStub, Runs, Outcome, RecordInv, Trait, InstrumentedCarryRecord
<1>6. CollectedIsOwn'
  BY DEF InstrRun, Outcome, RecordInv, Trait, CollectedIsOwn
<1> QED BY <1>1, <1>2, <1>3, <1>4, <1>5, <1>6 DEF RecordPart

\* The application's kernel writes no record.
LEMMA RecordMC2WarmUp ==
    ASSUME RecordInv, LaunchOK', MC2WarmUp PROVE RecordPart'
<1> USE DEF settings, history
<1>1. FormOK'
  BY DEF MC2WarmUp, RunsOrigin, Runs, RecordInv, FormOK
<1>2. FieldsTogether'
  BY DEF MC2WarmUp, RecordInv, FieldsTogether
<1>3. TaskOwnsBuffer'
  BY DEF MC2WarmUp, InstrPhases, TaskOwnsBuffer
<1>4. BlockCountsOwn'
  BY DEF MC2WarmUp, BlockCountsOwn
<1>5. InstrumentedCarryRecord'
  BY DEF MC2WarmUp, RunsOrigin, Runs, InstrumentedCarryRecord
<1>6. CollectedIsOwn'
  BY DEF MC2WarmUp, RecordInv, Trait, CollectedIsOwn
<1> QED BY <1>1, <1>2, <1>3, <1>4, <1>5, <1>6 DEF RecordPart

\* The warm-up of KernelReplay runs the application's kernel.
LEMMA RecordWarmUp ==
    ASSUME RecordInv, LaunchOK', WarmUp PROVE RecordPart'
<1> USE DEF settings, history
<1>1. FormOK'
  <2>1. WarmUpTimes \in Nat
    BY SettingsForm DEF WarmUpTimes, RecordInv
  <2>2. count' \in {count + 1, WarmUpTimes}
    BY Zenon DEF WarmUp, WarmUpRuns, WarmUpFails
  <2>3. count' \in Nat
    BY <2>1, <2>2 DEF RecordInv, FormOK
  <2> QED
    BY <2>3 DEF WarmUp, RunsOrigin, Runs, WarmUpFails, RecordInv, FormOK
<1>2. FieldsTogether'
  BY DEF WarmUp, WarmUpRuns, WarmUpFails, Outcome, RecordInv, FieldsTogether
<1>3. TaskOwnsBuffer'
  BY DEF WarmUp, InstrPhases, TaskOwnsBuffer
<1>4. BlockCountsOwn'
  BY DEF WarmUp, BlockCountsOwn
<1>5. InstrumentedCarryRecord'
  BY DEF WarmUp, RunsOrigin, Runs, WarmUpRuns, WarmUpFails, Outcome, RecordInv, Trait,
         InstrumentedCarryRecord
<1>6. CollectedIsOwn'
  BY DEF WarmUp, WarmUpRuns, WarmUpFails, Outcome, RecordInv, Trait, CollectedIsOwn
<1> QED BY <1>1, <1>2, <1>3, <1>4, <1>5, <1>6 DEF RecordPart

\* So does a round of the replay.
LEMMA RecordReplayOnce ==
    ASSUME RecordInv, LaunchOK', ReplayOnce PROVE RecordPart'
<1> USE DEF settings, history
<1>1. FormOK'
  BY DEF ReplayOnce, RunsOrigin, Runs, RecordInv, FormOK
<1>2. FieldsTogether'
  BY DEF ReplayOnce, Outcome, RecordInv, FieldsTogether
<1>3. TaskOwnsBuffer'
  BY DEF ReplayOnce, InstrPhases, TaskOwnsBuffer
<1>4. BlockCountsOwn'
  BY DEF ReplayOnce, BlockCountsOwn
<1>5. InstrumentedCarryRecord'
  BY DEF ReplayOnce, RunsOrigin, Runs, Outcome, RecordInv, Trait, InstrumentedCarryRecord
<1>6. CollectedIsOwn'
  BY DEF ReplayOnce, Outcome, RecordInv, Trait, CollectedIsOwn
<1> QED BY <1>1, <1>2, <1>3, <1>4, <1>5, <1>6 DEF RecordPart

\* The end of the replay.
LEMMA RecordKernelReplayEnd ==
    ASSUME RecordInv, LaunchOK', KernelReplayEnd PROVE RecordPart'
<1> USE DEF settings, history
<1>1. FormOK'
  BY DEF KernelReplayEnd, Outcome, RecordInv, FormOK
<1>2. FieldsTogether'
  BY DEF KernelReplayEnd, Outcome, RecordInv, FieldsTogether
<1>3. TaskOwnsBuffer'
  BY DEF KernelReplayEnd, InstrPhases, TaskOwnsBuffer
<1>4. BlockCountsOwn'
  BY DEF KernelReplayEnd, BlockCountsOwn
<1>5. InstrumentedCarryRecord'
  BY DEF KernelReplayEnd, Outcome, RecordInv, Trait, InstrumentedCarryRecord
<1>6. CollectedIsOwn'
  BY DEF KernelReplayEnd, Outcome, RecordInv, Trait, CollectedIsOwn
<1> QED BY <1>1, <1>2, <1>3, <1>4, <1>5, <1>6 DEF RecordPart

\* The run of Call writes the block counts, or nothing.
LEMMA RecordCallOrigin ==
    ASSUME RecordInv, LaunchOK', CallOrigin PROVE RecordPart'
<1> USE DEF settings, history
<1>1. FormOK'
  BY DEF CallOrigin, RunsOrigin, Runs, RecordInv, FormOK, Tasks
<1>2. FieldsTogether'
  BY DEF CallOrigin, RecordInv, FieldsTogether
<1>3. TaskOwnsBuffer'
  BY DEF CallOrigin, InstrPhases, TaskOwnsBuffer
<1>4. BlockCountsOwn'
  BY DEF CallOrigin, RunsOrigin, Runs, RecordInv, IsBBCountNeedGen, Fused, Trait, BlockCountsOwn
<1>5. InstrumentedCarryRecord'
  BY DEF CallOrigin, RunsOrigin, Runs, RecordInv, FieldsTogether, InstrumentedCarryRecord
<1>6. CollectedIsOwn'
  BY DEF CallOrigin, RecordInv, Trait, CollectedIsOwn
<1> QED BY <1>1, <1>2, <1>3, <1>4, <1>5, <1>6 DEF RecordPart

\* A record task starts from an empty buffer.
LEMMA RecordRecordPrepare ==
    ASSUME RecordInv, LaunchOK', RecordPrepare PROVE RecordPart'
<1> USE DEF settings, history
<1>1. FormOK'
  <2>1. PICK outcome \in PrepareOutcomes :
          /\ PrepareDbiTask(RecordTasks[count], outcome)
          /\ pc' = IF outcome = "ok" THEN "record" ELSE pc
          /\ count' = IF outcome = "ok" THEN count ELSE count + 1
    BY DEF RecordPrepare
  <2>2. RecordTasks[count] \in Tasks /\ pc' \in {"record", "post"} /\ count' \in Nat
    BY RecordTasksAre DEF RecordPrepare
  <2>3. Refreshed.args \in {"null", "bare"}
    BY DEF Refreshed
  <2>4. /\ buf' \in {"free", "zero"} \cup Tasks /\ (fields'.memInfo => buf' # "free")
        /\ fields' \in [handle : {"origin"} \cup Tasks, args : {"null", "bare", "record"},
                        memInfo : BOOLEAN]
    BY <2>1, <2>2, <2>3 DEF PrepareDbiTask, InitMemory, RecordInv, FormOK
  <2> QED BY <2>2, <2>4 DEF FormOK
<1>2. FieldsTogether'
  BY DEF RecordPrepare, PrepareDbiTask, FieldsTogether
<1>3. TaskOwnsBuffer'
  BY RecordTasksAre
  DEF RecordPrepare, PrepareDbiTask, InitMemory, IsRecordNeedGen, Fused, InstrPhases,
      TaskOwnsBuffer
<1>4. BlockCountsOwn'
  BY DEF RecordPrepare, BlockCountsOwn
<1>5. InstrumentedCarryRecord'
  BY DEF RecordPrepare, Outcome, RecordInv, Trait, InstrumentedCarryRecord
<1>6. CollectedIsOwn'
  BY DEF RecordPrepare, Outcome, RecordInv, Trait, CollectedIsOwn
<1> QED BY <1>1, <1>2, <1>3, <1>4, <1>5, <1>6 DEF RecordPart

\* What RunDbiRecordTask collects is its own.
LEMMA RecordRecordRun ==
    ASSUME RecordInv, LaunchOK', RecordRun PROVE RecordPart'
<1> USE DEF settings, history
<1>1. FormOK'
  BY DEF RecordRun, Runs, RecordInv, FormOK, Tasks
<1>2. FieldsTogether'
  BY DEF RecordRun, RecordInv, FieldsTogether
<1>3. TaskOwnsBuffer'
  BY DEF RecordRun, InstrPhases, TaskOwnsBuffer
<1>4. BlockCountsOwn'
  BY DEF RecordRun, RecordInv, FormOK, BlockCountsOwn
<1>5. InstrumentedCarryRecord'
  BY DEF RecordRun, Runs, Fail, NoFail, RecordInv, Trait, FieldsTogether, InstrumentedCarryRecord
<1>6. CollectedIsOwn'
  BY DEF RecordRun, Runs, Fail, NoFail, RecordInv, Trait, TaskOwnsBuffer, CollectedIsOwn
<1> QED BY <1>1, <1>2, <1>3, <1>4, <1>5, <1>6 DEF RecordPart

\* Saving blocks leaves the hook object alone.
LEMMA RecordInstrBackup ==
    ASSUME RecordInv, LaunchOK', InstrBackup PROVE RecordPart'
<1> USE DEF settings, history
<1>1. FormOK'
  BY DEF InstrBackup, RecordInv, FormOK
<1>2. FieldsTogether'
  BY DEF InstrBackup, Backup, Fail, NoFail, RecordInv, FieldsTogether
<1>3. TaskOwnsBuffer'
  BY DEF InstrBackup, RecordInv, InstrPhases, TaskOwnsBuffer
<1>4. BlockCountsOwn'
  BY DEF InstrBackup, BlockCountsOwn
<1>5. InstrumentedCarryRecord'
  BY DEF InstrBackup, Backup, Fail, NoFail, RecordInv, Trait, InstrumentedCarryRecord
<1>6. CollectedIsOwn'
  BY DEF InstrBackup, Backup, Fail, NoFail, RecordInv, Trait, CollectedIsOwn
<1> QED BY <1>1, <1>2, <1>3, <1>4, <1>5, <1>6 DEF RecordPart

\* ProfData does too.
LEMMA RecordProfData ==
    ASSUME RecordInv, LaunchOK', ProfData PROVE RecordPart'
<1> USE DEF settings, history
<1>1. FormOK'
  BY DEF ProfData, AfterBackup, RecordInv, FormOK
<1>2. FieldsTogether'
  BY DEF ProfData, Backup, Fail, NoFail, RecordInv, FieldsTogether
<1>3. TaskOwnsBuffer'
  BY DEF ProfData, AfterBackup, InstrPhases, TaskOwnsBuffer
<1>4. BlockCountsOwn'
  BY DEF ProfData, AfterBackup, BlockCountsOwn
<1>5. InstrumentedCarryRecord'
  BY DEF ProfData, Backup, Fail, NoFail, RecordInv, Trait, InstrumentedCarryRecord
<1>6. CollectedIsOwn'
  BY DEF ProfData, Backup, Fail, NoFail, RecordInv, Trait, CollectedIsOwn
<1> QED BY <1>1, <1>2, <1>3, <1>4, <1>5, <1>6 DEF RecordPart

\* A launch begins with the application's kernel and an unset memInfo_.
LEMMA RecordInitParam ==
    ASSUME RecordInv, NEW k \in Kernels, NEW prof \in BOOLEAN, NEW ops \in SUBSET Sections,
           InitParam(k, prof, ops) \/ InitParamFails(k, ops)
    PROVE  RecordPart'
<1>1. /\ pc' \in {"pcsampling", "done"} /\ count' \in {0, count} /\ buf' = buf
      /\ fields' = [Refreshed EXCEPT !.memInfo = FALSE]
      /\ run'.handle = "origin" /\ collected' = NoRecord
  BY DEF InitParam, InitParamFails, NoRun
<1>2. /\ fields'.handle = "origin" /\ ~fields'.memInfo
      /\ fields' \in [handle : {"origin"} \cup Tasks, args : {"null", "bare", "record"},
                      memInfo : BOOLEAN]
  BY <1>1 DEF Refreshed
<1>3. FormOK'
  BY <1>1, <1>2 DEF RecordInv, FormOK
<1>4. FieldsTogether' /\ TaskOwnsBuffer' /\ BlockCountsOwn'
  BY <1>1, <1>2 DEF FieldsTogether, TaskOwnsBuffer, BlockCountsOwn, InstrPhases
<1>5. InstrumentedCarryRecord' /\ CollectedIsOwn'
  BY <1>1 DEF InstrumentedCarryRecord, CollectedIsOwn, NoRecord
<1> QED BY <1>3, <1>4, <1>5 DEF RecordPart

\* The other thread has no part in the records.
LEMMA RecordOther ==
    ASSUME RecordInv,
           (\E s \in Sections : Malloc(s) \/ Free(s) \/ HostWrite(s)) \/ UNCHANGED vars
    PROVE  RecordPart'
<1>1. UNCHANGED <<cfg, hook, pc, count, task, launch, fields, buf, lccl, mc2, failed,
                  run, collected>>
  BY DEF Malloc, Free, HostWrite, OtherStep, settings, history, vars
<1>2. FormOK' /\ FieldsTogether' /\ TaskOwnsBuffer'
  BY <1>1 DEF RecordInv, FormOK, FieldsTogether, TaskOwnsBuffer, IsRecordNeedGen, Fused
<1>3. BlockCountsOwn' /\ InstrumentedCarryRecord' /\ CollectedIsOwn'
  BY <1>1
  DEF RecordInv, BlockCountsOwn, IsBBCountNeedGen, Fused, Trait, InstrumentedCarryRecord,
      CollectedIsOwn
<1> QED BY <1>2, <1>3 DEF RecordPart

\* At the start no launch is running.
LEMMA RecordInit == Init => RecordInv
<1> SUFFICES ASSUME Init PROVE RecordInv
  OBVIOUS
<1>1. LaunchOK /\ ContentsOK
  <2>1. LaunchOK
    BY DEF Init, LaunchOK, NoLaunch
  <2>2. DOMAIN snap = {}
    BY DEF Init
  <2> QED BY <2>1, <2>2 DEF Init, ContentsOK
<1>2. FormOK /\ FieldsTogether /\ TaskOwnsBuffer /\ BlockCountsOwn
  BY DEF Init, FormOK, FieldsTogether, TaskOwnsBuffer, BlockCountsOwn, NoFields, InstrPhases
<1>3. InstrumentedCarryRecord /\ CollectedIsOwn
  BY DEF Init, InstrumentedCarryRecord, CollectedIsOwn, NoRun, NoRecord
<1> QED BY <1>1, <1>2, <1>3 DEF RecordInv

\* RecordInv is inductive, given what KeptInv says of the blocks.
LEMMA RecordNext == KeptInv /\ RecordInv /\ [Next]_vars => RecordInv'
<1> SUFFICES ASSUME KeptInv, RecordInv, [Next]_vars PROVE RecordInv'
  OBVIOUS
<1>1. ContentsOK' /\ LaunchOK'
  BY ContentsStep, LaunchFormStep DEF RecordInv
<1>2. RecordPart'
  <2>1. CASE QuietPhase \/ Return
    BY <1>1, <2>1, RecordInstrSkip, RecordInstrPrepare, RecordInstrStartFails, RecordInstrEnd,
       RecordProfInit, RecordWarmUpEnd, RecordBBCountSkip, RecordBBCountReplaceFails,
       RecordBBCountTask, RecordCallSkipsOrigin, RecordCallFails, RecordGenBBcountFile,
       RecordRecordSkip, RecordPost, RecordReturn
    DEF QuietPhase
  <2>2. CASE RunPhase \/ InstrBackup \/ ProfData
    BY <1>1, <2>2, RecordInstrWarmUp, RecordInstrRun, RecordMC2WarmUp, RecordWarmUp,
       RecordReplayOnce, RecordKernelReplayEnd, RecordCallOrigin, RecordRecordPrepare,
       RecordRecordRun, RecordInstrBackup, RecordProfData
    DEF RunPhase
  <2>3. CASE \E k \in Kernels, prof \in BOOLEAN, ops \in SUBSET Sections :
                 InitParam(k, prof, ops)
    BY <2>3, RecordInitParam
  <2>4. CASE \E k \in Kernels, ops \in SUBSET Sections : InitParamFails(k, ops)
    BY <2>4, RecordInitParam
  <2>5. CASE (\E s \in Sections : Malloc(s) \/ Free(s) \/ HostWrite(s)) \/ UNCHANGED vars
    BY <2>5, RecordOther
  <2> QED
    BY <2>1, <2>2, <2>3, <2>4, <2>5 DEF Next, LaunchStep, QuietPhase, RunPhase
<1> QED BY <1>1, <1>2 DEF RecordPart, RecordInv

\* An instrumented kernel never runs without the buffer its arguments name, and
\* what GenRecordData, GenBBcountFile and RunDbiRecordTask write out comes from
\* the kernel of that very task, whatever step of PrepareDbiTask failed before
\* and whichever of the ten hooks is in use; the exceptions are those the
\* property names.
THEOREM RecordsAreOwn == Spec => []RecordsOwn
<1>1. KeptInv /\ RecordInv => RecordsOwn
  BY DEF KeptInv, BlocksOK, MapOK, RecordInv, LaunchOK, ContentsOK, FormOK, RecordsOwn, TypeOK
<1> QED BY <1>1, KeptInit, KeptNext, RecordInit, RecordNext, PTL DEF Spec

-----------------------------------------------------------------------------
(***************************************************************************)
(* Replay: what the operands of the running launch hold, phase by phase.   *)
(***************************************************************************)
\* The operands as the application passed them, and after one run of the
\* kernel; and the snapshots MemoryContext has of them.
OnInput == \A s \in launch.operands : mem[s] = launch.input[s]
OnResult == \A s \in launch.operands : mem[s] = launch.input[s] + 1
SavedInput == \A s \in launch.operands : s \in DOMAIN snap /\ snap[s] = launch.input[s]

BeforeInit == {"pcsampling", "timeline", "profinit"} \cup InstrPhases

\* Until ProfInit the lccl and mc2 flags are those the launch found, and a run
\* by then is one of InstrProfData.
StaleFlags == pc \in BeforeInit => launch.stale = Fused
EarlyRuns == pc \in BeforeInit /\ run.what # "none" => InstrTasks \cap cfg.flags # {}

\* As long as no Lccl kernel was seen kernel replay records every block.
AllTracked == ~AppReplay /\ ~lccl => tracked = alloc

\* A kernel the tool does not profile runs once, in Call.
NotProfiled ==
    ~launch.prof =>
        /\ pc \in {"pcsampling", "timeline", "profinit", "profdata", "bb", "call"} => OnInput
        /\ pc \notin {"mc2", "warm", "replay", "record"} \cup InstrPhases
        /\ pc \in {"post", "done"} /\ launch.ret /\ ~Fused => OnResult

\* A profiled launch of which nothing was lost and which is not of a fused
\* kernel; that of an earlier launch is still in the flags before ProfInit.
Sound ==
    /\ launch.prof /\ pc # "idle" /\ ~InputLost
    /\ pc \in BeforeInit \/ ~Fused

\* The phases of kernel replay at which the operands hold the input, while the last
\* Restore, if there was one, was complete.
InputPhase ==
    \/ pc \in {"pcsampling", "timeline", "instrbackup", "instrend", "profinit", "profdata",
              "bb", "call", "record"}
    \/ pc = "instrwarm" /\ cfg.warm = 0

\* Kernel replay: between the phases the operands hold the input, while the
\* phases run the snapshots do, and after Call and every record task the
\* operands hold the result of one run.
KernelReplayed ==
    Sound /\ ~AppReplay =>
        /\ InputPhase /\ "restore" \notin failed => OnInput
        /\ pc \in {"instrwarm", "warm", "replay", "bb", "call", "post", "record"} => SavedInput
        /\ pc \in {"post", "done"} /\ launch.ret /\ {"record", "restore"} \cap failed = {} =>
             OnResult
        /\ pc # "mc2"

Early == {"pcsampling", "timeline", "profinit", "profdata"}

\* Application replay: the one run of the launch is still to come.  Which phase
\* makes it depends on the instrumentation asked for.
RecordAhead(n) ==
    \/ pc \in Early \cup {"bb", "call", "record"}
    \/ pc = "post" /\ count <= n

RunAhead ==
    /\ cfg.flags = {} => pc \in Early \cup {"warm"} \/ (pc = "replay" /\ count = 0)
    /\ "START" \in cfg.flags => pc \in {"pcsampling", "instrbackup", "instrwarm"}
    /\ "TIMELINE" \in cfg.flags =>
         pc \in {"pcsampling", "timeline", "instrbackup", "instrwarm"}
    /\ "BB" \in cfg.flags => pc \in Early \cup {"bb", "call"}
    /\ "MEMORY_CHART" \in cfg.flags => RecordAhead(1)
    /\ "OPERAND_RECORD" \in cfg.flags => RecordAhead(2)
    /\ "WARP" \in cfg.flags =>
         IF launch.simt THEN RecordAhead(3) ELSE pc \in Early \cup {"bb", "call"}

\* Nothing is restored: the operands hold the input until that run and, when
\* nothing failed, its result from then on.
AppReplayed ==
    Sound /\ AppReplay =>
        /\ RunAhead => OnInput
        /\ ~RunAhead /\ failed = {} /\ ~("START" \in cfg.flags /\ ~launch.simt) => OnResult
        /\ pc \in {"warm", "replay"} => cfg.flags = {}
        /\ pc # "mc2"

ReplayInv ==
    /\ StaleFlags /\ EarlyRuns /\ AllTracked
    /\ NotProfiled /\ KernelReplayed /\ AppReplayed /\ RunsReadInput

\* In application replay at most one kind of instrumentation is asked for.
LEMMA AppFlags ==
    ASSUME LaunchOK, AppReplay PROVE \A a, b \in cfg.flags : a = b
BY OneTaskPerRun DEF LaunchOK, AppReplay

\* A phase that leaves the blocks and the launch alone, whatever failed in it,
\* changes nothing of what the operands hold or of what was lost.
LEMMA ControlStep ==
    ASSUME ReplayInv, failed \subseteq failed',
           UNCHANGED <<cfg, launch, lccl, mc2, mem, snap, alloc, tracked, run>>
    PROVE  /\ OnInput' <=> OnInput
           /\ OnResult' <=> OnResult
           /\ SavedInput' <=> SavedInput
           /\ Fused' = Fused
           /\ AppReplay' <=> AppReplay
           /\ InputLost => InputLost'
           /\ AllTracked' /\ RunsReadInput'
<1>1. /\ OnInput' <=> OnInput
      /\ OnResult' <=> OnResult
      /\ SavedInput' <=> SavedInput
  BY DEF OnInput, OnResult, SavedInput
<1>2. /\ Fused' = Fused
      /\ AppReplay' <=> AppReplay
  BY DEF Fused, AppReplay
<1>3. InputLost => InputLost'
  BY DEF InputLost
<1>4. AllTracked'
  BY <1>2 DEF ReplayInv, AllTracked
<1>5. RunsReadInput'
  BY <1>2, <1>3 DEF ReplayInv, RunsReadInput
<1> QED BY <1>1, <1>2, <1>3, <1>4, <1>5

\* A phase of instrumentation that is not asked for.
LEMMA ReplayInstrSkip ==
    ASSUME RecordInv, ReplayInv, InstrSkip PROVE ReplayInv'
<1>1. /\ pc \in {"pcsampling", "timeline"}
      /\ pc' = IF pc = "pcsampling" THEN "timeline" ELSE "profinit"
      /\ failed' = failed /\ count' = count
      /\ pc = "pcsampling" /\ "START" \in cfg.flags /\ launch.prof => ~launch.simt
      /\ pc = "timeline" /\ "TIMELINE" \in cfg.flags => ~launch.prof
  BY DEF InstrSkip, IsPCSamplingNeedGen, IsTimelineNeedGen, InstrNext, InstrTask, history
<1>2. /\ UNCHANGED <<cfg, launch, lccl, mc2, mem, snap, alloc, tracked, run>>
      /\ failed \subseteq failed'
  BY <1>1 DEF InstrSkip, settings, blocks, history
<1>3. /\ OnInput' <=> OnInput
      /\ OnResult' <=> OnResult
      /\ SavedInput' <=> SavedInput
      /\ Fused' = Fused
      /\ AppReplay' <=> AppReplay
      /\ InputLost => InputLost'
      /\ AllTracked' /\ RunsReadInput'
  BY <1>2, ControlStep
<1>4. StaleFlags' /\ EarlyRuns'
  BY <1>1, <1>2, <1>3 DEF ReplayInv, StaleFlags, EarlyRuns, BeforeInit, InstrPhases
<1>5. NotProfiled'
  BY <1>1, <1>2, <1>3 DEF ReplayInv, NotProfiled, InstrPhases
<1>6. KernelReplayed'
  BY <1>1, <1>2, <1>3 DEF ReplayInv, KernelReplayed, InputPhase, Sound, BeforeInit, InstrPhases
<1>7. AppReplayed'
  <2>1. SUFFICES ASSUME Sound', AppReplay' PROVE AppReplayed'
    BY DEF AppReplayed
  <2>2. Sound /\ AppReplay /\ LaunchOK
    BY <1>1, <1>2, <1>3, <2>1 DEF Sound, BeforeInit, InstrPhases, RecordInv
  <2>3. \A a, b \in cfg.flags : a = b
    BY <2>2, AppFlags
  <2>4. cfg.flags \subseteq Tasks
    BY <2>2, SettingsForm
  <2> QED
    BY <1>1, <1>2, <1>3, <2>1, <2>2, <2>3, <2>4
    DEF ReplayInv, AppReplayed, RunAhead, RecordAhead, Early, Sound, BeforeInit,
        InstrPhases, Tasks
<1> QED BY <1>3, <1>4, <1>5, <1>6, <1>7 DEF ReplayInv

\* PrepareDbiTask leaves the blocks alone; a failure of it is remembered.
LEMMA ReplayInstrPrepare ==
    ASSUME RecordInv, ReplayInv, InstrPrepare PROVE ReplayInv'
<1>1. /\ pc \in {"pcsampling", "timeline"} /\ launch.prof /\ count' = count
      /\ pc = "pcsampling" => "START" \in cfg.flags /\ launch.simt
      /\ pc = "timeline" => "TIMELINE" \in cfg.flags
      /\ \/ pc' = "instrbackup" /\ failed' = failed
         \/ /\ pc' = IF pc = "pcsampling" THEN "timeline" ELSE "profinit"
            /\ failed' = failed \cup {"instr"}
  BY DEF InstrPrepare, IsPCSamplingNeedGen, IsTimelineNeedGen, InstrNext, InstrTask, Fail,
      NoFail, history
<1>2. /\ UNCHANGED <<cfg, launch, lccl, mc2, mem, snap, alloc, tracked, run>>
      /\ failed \subseteq failed'
  BY <1>1 DEF InstrPrepare, settings, blocks, history
<1>3. /\ OnInput' <=> OnInput
      /\ OnResult' <=> OnResult
      /\ SavedInput' <=> SavedInput
      /\ Fused' = Fused
      /\ AppReplay' <=> AppReplay
      /\ InputLost => InputLost'
      /\ AllTracked' /\ RunsReadInput'
  BY <1>2, ControlStep
<1>4. StaleFlags' /\ EarlyRuns'
  BY <1>1, <1>2, <1>3 DEF ReplayInv, StaleFlags, EarlyRuns, BeforeInit, InstrPhases
<1>5. NotProfiled'
  BY <1>1, <1>2, <1>3 DEF ReplayInv, NotProfiled, InstrPhases
<1>6. KernelReplayed'
  BY <1>1, <1>2, <1>3 DEF ReplayInv, KernelReplayed, InputPhase, Sound, BeforeInit, InstrPhases
<1>7. AppReplayed'
  <2>1. SUFFICES ASSUME Sound', AppReplay' PROVE AppReplayed'
    BY DEF AppReplayed
  <2>2. Sound /\ AppReplay /\ LaunchOK
    BY <1>1, <1>2, <1>3, <2>1 DEF Sound, BeforeInit, InstrPhases, RecordInv
  <2>3. \A a, b \in cfg.flags : a = b
    BY <2>2, AppFlags
  <2>4. cfg.flags \subseteq Tasks
    BY <2>2, SettingsForm
  <2> QED
    BY <1>1, <1>2, <1>3, <2>1, <2>2, <2>3, <2>4
    DEF ReplayInv, AppReplayed, RunAhead, RecordAhead, Early, Sound, BeforeInit,
        InstrPhases, Tasks
<1> QED BY <1>3, <1>4, <1>5, <1>6, <1>7 DEF ReplayInv

\* A failed StartProf leaves the operands as the warm-up left them.
LEMMA ReplayInstrStartFails ==
    ASSUME RecordInv, ReplayInv, InstrStartFails PROVE ReplayInv'
<1>1. /\ pc = "instrwarm" /\ pc' = "instrend"
      /\ failed' = failed \cup {"instrstart"} /\ count' = count
  BY DEF InstrStartFails, Fail, history
<1>2. /\ UNCHANGED <<cfg, launch, lccl, mc2, mem, snap, alloc, tracked, run>>
      /\ failed \subseteq failed'
  BY <1>1 DEF InstrStartFails, settings, blocks, history
<1>3. /\ OnInput' <=> OnInput
      /\ OnResult' <=> OnResult
      /\ SavedInput' <=> SavedInput
      /\ Fused' = Fused
      /\ AppReplay' <=> AppReplay
      /\ InputLost => InputLost'
      /\ AllTracked' /\ RunsReadInput'
  BY <1>2, ControlStep
<1>4. StaleFlags' /\ EarlyRuns'
  BY <1>1, <1>2, <1>3 DEF ReplayInv, StaleFlags, EarlyRuns, BeforeInit, InstrPhases
<1>5. NotProfiled'
  BY <1>1, <1>2, <1>3 DEF ReplayInv, NotProfiled, InstrPhases
<1>6. KernelReplayed'
  <2>1. ~InputLost' => cfg.warm = 0
    BY <1>1, <1>2, SettingsForm DEF InputLost, RecordInv
  <2> QED
    BY <1>1, <1>2, <1>3, <2>1 DEF ReplayInv, KernelReplayed, InputPhase, Sound, BeforeInit, InstrPhases
<1>7. AppReplayed'
  <2>1. SUFFICES ASSUME Sound', AppReplay' PROVE AppReplayed'
    BY DEF AppReplayed
  <2>2. Sound /\ AppReplay /\ LaunchOK
    BY <1>1, <1>2, <1>3, <2>1 DEF Sound, BeforeInit, InstrPhases, RecordInv
  <2>3. \A a, b \in cfg.flags : a = b
    BY <2>2, AppFlags
  <2>4. cfg.flags \subseteq Tasks
    BY <2>2, SettingsForm
  <2> QED
    BY <1>1, <1>2, <1>3, <2>1, <2>2, <2>3, <2>4
    DEF ReplayInv, AppReplayed, RunAhead, RecordAhead, Early, Sound, BeforeInit,
        InstrPhases, Tasks
<1> QED BY <1>3, <1>4, <1>5, <1>6, <1>7 DEF ReplayInv

\* The next kind of instrumentation starts where the last one ended.
LEMMA ReplayInstrEnd ==
    ASSUME RecordInv, ReplayInv, InstrEnd PROVE ReplayInv'
<1>1. /\ pc = "instrend" /\ failed' = failed /\ count' = count
      /\ task \in InstrTasks \cap cfg.flags /\ launch.prof
      /\ pc' = IF task = "START" THEN "timeline" ELSE "profinit"
  BY DEF InstrEnd, InstrNext, RecordInv, TaskOwnsBuffer, InstrPhases, history
<1>2. /\ UNCHANGED <<cfg, launch, lccl, mc2, mem, snap, alloc, tracked, run>>
      /\ failed \subseteq failed'
  BY <1>1 DEF InstrEnd, settings, blocks, history
<1>3. /\ OnInput' <=> OnInput
      /\ OnResult' <=> OnResult
      /\ SavedInput' <=> SavedInput
      /\ Fused' = Fused
      /\ AppReplay' <=> AppReplay
      /\ InputLost => InputLost'
      /\ AllTracked' /\ RunsReadInput'
  BY <1>2, ControlStep
<1>4. StaleFlags' /\ EarlyRuns'
  BY <1>1, <1>2, <1>3 DEF ReplayInv, StaleFlags, EarlyRuns, BeforeInit, InstrPhases
<1>5. NotProfiled'
  BY <1>1, <1>2, <1>3 DEF ReplayInv, NotProfiled, InstrPhases
<1>6. KernelReplayed'
  BY <1>1, <1>2, <1>3 DEF ReplayInv, KernelReplayed, InputPhase, Sound, BeforeInit, InstrPhases
<1>7. AppReplayed'
  <2>1. SUFFICES ASSUME Sound', AppReplay' PROVE AppReplayed'
    BY DEF AppReplayed
  <2>2. Sound /\ AppReplay /\ LaunchOK
    BY <1>1, <1>2, <1>3, <2>1 DEF Sound, BeforeInit, InstrPhases, RecordInv
  <2>3. \A a, b \in cfg.flags : a = b
    BY <2>2, AppFlags
  <2>4. cfg.flags \subseteq Tasks
    BY <2>2, SettingsForm
  <2> QED
    BY <1>1, <1>2, <1>3, <2>1, <2>2, <2>3, <2>4
    DEF ReplayInv, AppReplayed, RunAhead, RecordAhead, Early, Sound, BeforeInit,
        InstrPhases, Tasks, InstrTasks
<1> QED BY <1>3, <1>4, <1>5, <1>6, <1>7 DEF ReplayInv

\* The replay starts after the warm-up.
LEMMA ReplayWarmUpEnd ==
    ASSUME RecordInv, ReplayInv, WarmUpEnd PROVE ReplayInv'
<1>1. /\ pc = "warm" /\ pc' = "replay" /\ failed' = failed /\ count' = 0
  BY DEF WarmUpEnd, history
<1>2. /\ UNCHANGED <<cfg, launch, lccl, mc2, mem, snap, alloc, tracked, run>>
      /\ failed \subseteq failed'
  BY <1>1 DEF WarmUpEnd, settings, blocks, history
<1>3. /\ OnInput' <=> OnInput
      /\ OnResult' <=> OnResult
      /\ SavedInput' <=> SavedInput
      /\ Fused' = Fused
      /\ AppReplay' <=> AppReplay
      /\ InputLost => InputLost'
      /\ AllTracked' /\ RunsReadInput'
  BY <1>2, ControlStep
<1>4. StaleFlags' /\ EarlyRuns'
  BY <1>1, <1>2, <1>3 DEF ReplayInv, StaleFlags, EarlyRuns, BeforeInit, InstrPhases
<1>5. NotProfiled'
  BY <1>1, <1>2, <1>3 DEF ReplayInv, NotProfiled, InstrPhases
<1>6. KernelReplayed'
  BY <1>1, <1>2, <1>3 DEF ReplayInv, KernelReplayed, InputPhase, Sound, BeforeInit, InstrPhases
<1>7. AppReplayed'
  <2>1. SUFFICES ASSUME Sound', AppReplay' PROVE AppReplayed'
    BY DEF AppReplayed
  <2>2. Sound /\ AppReplay /\ LaunchOK
    BY <1>1, <1>2, <1>3, <2>1 DEF Sound, BeforeInit, InstrPhases, RecordInv
  <2>3. \A a, b \in cfg.flags : a = b
    BY <2>2, AppFlags
  <2>4. cfg.flags \subseteq Tasks
    BY <2>2, SettingsForm
  <2> QED
    BY <1>1, <1>2, <1>3, <2>1, <2>2, <2>3, <2>4
    DEF ReplayInv, AppReplayed, RunAhead, RecordAhead, Early, Sound, BeforeInit,
        InstrPhases, Tasks
<1> QED BY <1>3, <1>4, <1>5, <1>6, <1>7 DEF ReplayInv

\* No block counts.
LEMMA ReplayBBCountSkip ==
    ASSUME RecordInv, ReplayInv, BBCountSkip PROVE ReplayInv'
<1>1. /\ pc = "bb" /\ pc' = "call" /\ failed' = failed /\ count' = count
  BY DEF BBCountSkip, history
<1>2. /\ UNCHANGED <<cfg, launch, lccl, mc2, mem, snap, alloc, tracked, run>>
      /\ failed \subseteq failed'
  BY <1>1 DEF BBCountSkip, settings, blocks, history
<1>3. /\ OnInput' <=> OnInput
      /\ OnResult' <=> OnResult
      /\ SavedInput' <=> SavedInput
      /\ Fused' = Fused
      /\ AppReplay' <=> AppReplay
      /\ InputLost => InputLost'
      /\ AllTracked' /\ RunsReadInput'
  BY <1>2, ControlStep
<1>4. StaleFlags' /\ EarlyRuns'
  BY <1>1, <1>2, <1>3 DEF ReplayInv, StaleFlags, EarlyRuns, BeforeInit, InstrPhases
<1>5. NotProfiled'
  BY <1>1, <1>2, <1>3 DEF ReplayInv, NotProfiled, InstrPhases
<1>6. KernelReplayed'
  BY <1>1, <1>2, <1>3 DEF ReplayInv, KernelReplayed, InputPhase, Sound, BeforeInit, InstrPhases
<1>7. AppReplayed'
  <2>1. SUFFICES ASSUME Sound', AppReplay' PROVE AppReplayed'
    BY DEF AppReplayed
  <2>2. Sound /\ AppReplay /\ LaunchOK
    BY <1>1, <1>2, <1>3, <2>1 DEF Sound, BeforeInit, InstrPhases, RecordInv
  <2>3. \A a, b \in cfg.flags : a = b
    BY <2>2, AppFlags
  <2>4. cfg.flags \subseteq Tasks
    BY <2>2, SettingsForm
  <2> QED
    BY <1>1, <1>2, <1>3, <2>1, <2>2, <2>3, <2>4
    DEF ReplayInv, AppReplayed, RunAhead, RecordAhead, Early, Sound, BeforeInit,
        InstrPhases, Tasks
<1> QED BY <1>3, <1>4, <1>5, <1>6, <1>7 DEF ReplayInv

\* A failed Replace of the block counting kernel.
LEMMA ReplayBBCountReplaceFails ==
    ASSUME RecordInv, ReplayInv, BBCountReplaceFails PROVE ReplayInv'
<1>1. /\ pc = "bb" /\ pc' = "call" /\ failed' = failed \cup {"bbreplace"} /\ count' = count
  BY DEF BBCountReplaceFails, Fail, history
<1>2. /\ UNCHANGED <<cfg, launch, lccl, mc2, mem, snap, alloc, tracked, run>>
      /\ failed \subseteq failed'
  BY <1>1 DEF BBCountReplaceFails, settings, blocks, history
<1>3. /\ OnInput' <=> OnInput
      /\ OnResult' <=> OnResult
      /\ SavedInput' <=> SavedInput
      /\ Fused' = Fused
      /\ AppReplay' <=> AppReplay
      /\ InputLost => InputLost'
      /\ AllTracked' /\ RunsReadInput'
  BY <1>2, ControlStep
<1>4. StaleFlags' /\ EarlyRuns'
  BY <1>1, <1>2, <1>3 DEF ReplayInv, StaleFlags, EarlyRuns, BeforeInit, InstrPhases
<1>5. NotProfiled'
  BY <1>1, <1>2, <1>3 DEF ReplayInv, NotProfiled, InstrPhases
<1>6. KernelReplayed'
  BY <1>1, <1>2, <1>3 DEF ReplayInv, KernelReplayed, InputPhase, Sound, BeforeInit, InstrPhases
<1>7. AppReplayed'
  <2>1. SUFFICES ASSUME Sound', AppReplay' PROVE AppReplayed'
    BY DEF AppReplayed
  <2>2. Sound /\ AppReplay /\ LaunchOK
    BY <1>1, <1>2, <1>3, <2>1 DEF Sound, BeforeInit, InstrPhases, RecordInv
  <2>3. \A a, b \in cfg.flags : a = b
    BY <2>2, AppFlags
  <2>4. cfg.flags \subseteq Tasks
    BY <2>2, SettingsForm
  <2> QED
    BY <1>1, <1>2, <1>3, <2>1, <2>2, <2>3, <2>4
    DEF ReplayInv, AppReplayed, RunAhead, RecordAhead, Early, Sound, BeforeInit,
        InstrPhases, Tasks
<1> QED BY <1>3, <1>4, <1>5, <1>6, <1>7 DEF ReplayInv

\* The block counting kernel is in place; it has not run yet.
LEMMA ReplayBBCountTask ==
    ASSUME RecordInv, ReplayInv, BBCountTask PROVE ReplayInv'
<1>1. /\ pc = "bb" /\ pc' = "call" /\ count' = count
      /\ failed' = failed \/ failed' = failed \cup {"bb"}
  BY DEF BBCountTask, Fail, NoFail, history
<1>2. /\ UNCHANGED <<cfg, launch, lccl, mc2, mem, snap, alloc, tracked, run>>
      /\ failed \subseteq failed'
  BY <1>1 DEF BBCountTask, settings, blocks, history
<1>3. /\ OnInput' <=> OnInput
      /\ OnResult' <=> OnResult
      /\ SavedInput' <=> SavedInput
      /\ Fused' = Fused
      /\ AppReplay' <=> AppReplay
      /\ InputLost => InputLost'
      /\ AllTracked' /\ RunsReadInput'
  BY <1>2, ControlStep
<1>4. StaleFlags' /\ EarlyRuns'
  BY <1>1, <1>2, <1>3 DEF ReplayInv, StaleFlags, EarlyRuns, BeforeInit, InstrPhases
<1>5. NotProfiled'
  BY <1>1, <1>2, <1>3 DEF ReplayInv, NotProfiled, InstrPhases
<1>6. KernelReplayed'
  BY <1>1, <1>2, <1>3 DEF ReplayInv, KernelReplayed, InputPhase, Sound, BeforeInit, InstrPhases
<1>7. AppReplayed'
  <2>1. SUFFICES ASSUME Sound', AppReplay' PROVE AppReplayed'
    BY DEF AppReplayed
  <2>2. Sound /\ AppReplay /\ LaunchOK
    BY <1>1, <1>2, <1>3, <2>1 DEF Sound, BeforeInit, InstrPhases, RecordInv
  <2>3. \A a, b \in cfg.flags : a = b
    BY <2>2, AppFlags
  <2>4. cfg.flags \subseteq Tasks
    BY <2>2, SettingsForm
  <2> QED
    BY <1>1, <1>2, <1>3, <2>1, <2>2, <2>3, <2>4
    DEF ReplayInv, AppReplayed, RunAhead, RecordAhead, Early, Sound, BeforeInit,
        InstrPhases, Tasks
<1> QED BY <1>3, <1>4, <1>5, <1>6, <1>7 DEF ReplayInv

\* Call leaves the launch out in application replay only, where another phase makes it.
LEMMA ReplayCallSkipsOrigin ==
    ASSUME RecordInv, ReplayInv, CallSkipsOrigin PROVE ReplayInv'
<1>1. /\ pc = "call" /\ pc' = "post" /\ failed' = failed /\ count' = 0
      /\ ~Fused => /\ launch.prof /\ AppReplay /\ cfg.flags # {"BB"}
                   /\ "WARP" \in cfg.flags /\ ~launch.simt => cfg.flags # {"WARP"}
  BY DEF CallSkipsOrigin, IsNeedRunOriginLaunch, history
<1>2. /\ UNCHANGED <<cfg, launch, lccl, mc2, mem, snap, alloc, tracked, run>>
      /\ failed \subseteq failed'
  BY <1>1 DEF CallSkipsOrigin, settings, blocks, history
<1>3. /\ OnInput' <=> OnInput
      /\ OnResult' <=> OnResult
      /\ SavedInput' <=> SavedInput
      /\ Fused' = Fused
      /\ AppReplay' <=> AppReplay
      /\ InputLost => InputLost'
      /\ AllTracked' /\ RunsReadInput'
  BY <1>2, ControlStep
<1>4. StaleFlags' /\ EarlyRuns'
  BY <1>1, <1>2, <1>3 DEF ReplayInv, StaleFlags, EarlyRuns, BeforeInit, InstrPhases
<1>5. NotProfiled'
  BY <1>1, <1>2, <1>3 DEF ReplayInv, NotProfiled, InstrPhases
<1>6. KernelReplayed'
  BY <1>1, <1>2, <1>3 DEF ReplayInv, KernelReplayed, InputPhase, Sound, BeforeInit, InstrPhases
<1>7. AppReplayed'
  <2>1. SUFFICES ASSUME Sound', AppReplay' PROVE AppReplayed'
    BY DEF AppReplayed
  <2>2. Sound /\ AppReplay /\ LaunchOK
    BY <1>1, <1>2, <1>3, <2>1 DEF Sound, BeforeInit, InstrPhases, RecordInv
  <2>3. \A a, b \in cfg.flags : a = b
    BY <2>2, AppFlags
  <2>4. cfg.flags \subseteq Tasks
    BY <2>2, SettingsForm
  <2> QED
    BY <1>1, <1>2, <1>3, <2>1, <2>2, <2>3, <2>4
    DEF ReplayInv, AppReplayed, RunAhead, RecordAhead, Early, Sound, BeforeInit,
        InstrPhases, Tasks
<1> QED BY <1>3, <1>4, <1>5, <1>6, <1>7 DEF ReplayInv

\* Writing the block counts.
LEMMA ReplayGenBBcountFile ==
    ASSUME RecordInv, ReplayInv, GenBBcountFile PROVE ReplayInv'
<1>1. /\ pc = "post" /\ pc' = "post" /\ failed' = failed /\ count = 0 /\ count' = 1
  BY DEF GenBBcountFile, history
<1>2. /\ UNCHANGED <<cfg, launch, lccl, mc2, mem, snap, alloc, tracked, run>>
      /\ failed \subseteq failed'
  BY <1>1 DEF GenBBcountFile, settings, blocks, history
<1>3. /\ OnInput' <=> OnInput
      /\ OnResult' <=> OnResult
      /\ SavedInput' <=> SavedInput
      /\ Fused' = Fused
      /\ AppReplay' <=> AppReplay
      /\ InputLost => InputLost'
      /\ AllTracked' /\ RunsReadInput'
  BY <1>2, ControlStep
<1>4. StaleFlags' /\ EarlyRuns'
  BY <1>1, <1>2, <1>3 DEF ReplayInv, StaleFlags, EarlyRuns, BeforeInit, InstrPhases
<1>5. NotProfiled'
  BY <1>1, <1>2, <1>3 DEF ReplayInv, NotProfiled, InstrPhases
<1>6. KernelReplayed'
  BY <1>1, <1>2, <1>3 DEF ReplayInv, KernelReplayed, InputPhase, Sound, BeforeInit, InstrPhases
<1>7. AppReplayed'
  <2>1. SUFFICES ASSUME Sound', AppReplay' PROVE AppReplayed'
    BY DEF AppReplayed
  <2>2. Sound /\ AppReplay /\ LaunchOK
    BY <1>1, <1>2, <1>3, <2>1 DEF Sound, BeforeInit, InstrPhases, RecordInv
  <2>3. \A a, b \in cfg.flags : a = b
    BY <2>2, AppFlags
  <2>4. cfg.flags \subseteq Tasks
    BY <2>2, SettingsForm
  <2> QED
    BY <1>1, <1>2, <1>3, <2>1, <2>2, <2>3, <2>4
    DEF ReplayInv, AppReplayed, RunAhead, RecordAhead, Early, Sound, BeforeInit,
        InstrPhases, Tasks
<1> QED BY <1>3, <1>4, <1>5, <1>6, <1>7 DEF ReplayInv

\* A record task is left out only when it was not asked for.
LEMMA ReplayRecordSkip ==
    ASSUME RecordInv, ReplayInv, RecordSkip PROVE ReplayInv'
<1>1. /\ pc = "post" /\ pc' = "post" /\ failed' = failed
      /\ count \in 1..3 /\ count' = count + 1
      /\ ~Fused /\ launch.prof =>
           /\ count = 1 => "MEMORY_CHART" \notin cfg.flags
           /\ count = 2 => "OPERAND_RECORD" \notin cfg.flags
           /\ count = 3 /\ launch.simt => "WARP" \notin cfg.flags
  BY RecordTasksAre DEF RecordSkip, IsRecordNeedGen, history
<1>2. /\ UNCHANGED <<cfg, launch, lccl, mc2, mem, snap, alloc, tracked, run>>
      /\ failed \subseteq failed'
  BY <1>1 DEF RecordSkip, settings, blocks, history
<1>3. /\ OnInput' <=> OnInput
      /\ OnResult' <=> OnResult
      /\ SavedInput' <=> SavedInput
      /\ Fused' = Fused
      /\ AppReplay' <=> AppReplay
      /\ InputLost => InputLost'
      /\ AllTracked' /\ RunsReadInput'
  BY <1>2, ControlStep
<1>4. StaleFlags' /\ EarlyRuns'
  BY <1>1, <1>2, <1>3 DEF ReplayInv, StaleFlags, EarlyRuns, BeforeInit, InstrPhases
<1>5. NotProfiled'
  BY <1>1, <1>2, <1>3 DEF ReplayInv, NotProfiled, InstrPhases
<1>6. KernelReplayed'
  BY <1>1, <1>2, <1>3 DEF ReplayInv, KernelReplayed, InputPhase, Sound, BeforeInit, InstrPhases
<1>7. AppReplayed'
  <2>1. SUFFICES ASSUME Sound', AppReplay' PROVE AppReplayed'
    BY DEF AppReplayed
  <2>2. Sound /\ AppReplay /\ LaunchOK
    BY <1>1, <1>2, <1>3, <2>1 DEF Sound, BeforeInit, InstrPhases, RecordInv
  <2>3. \A a, b \in cfg.flags : a = b
    BY <2>2, AppFlags
  <2>4. cfg.flags \subseteq Tasks
    BY <2>2, SettingsForm
  <2> QED
    BY <1>1, <1>2, <1>3, <2>1, <2>2, <2>3, <2>4
    DEF ReplayInv, AppReplayed, RunAhead, RecordAhead, Early, Sound, BeforeInit,
        InstrPhases, Tasks
<1> QED BY <1>3, <1>4, <1>5, <1>6, <1>7 DEF ReplayInv

\* The record tasks are over.
LEMMA ReplayPost ==
    ASSUME RecordInv, ReplayInv, Post PROVE ReplayInv'
<1>1. /\ pc = "post" /\ pc' = "done" /\ failed' = failed /\ count > 3 /\ count' = count
      /\ count \in Nat
  BY RecordTasksAre DEF Post, RecordInv, FormOK, history
<1>2. /\ UNCHANGED <<cfg, launch, lccl, mc2, mem, snap, alloc, tracked, run>>
      /\ failed \subseteq failed'
  BY <1>1 DEF Post, settings, blocks, history
<1>3. /\ OnInput' <=> OnInput
      /\ OnResult' <=> OnResult
      /\ SavedInput' <=> SavedInput
      /\ Fused' = Fused
      /\ AppReplay' <=> AppReplay
      /\ InputLost => InputLost'
      /\ AllTracked' /\ RunsReadInput'
  BY <1>2, ControlStep
<1>4. StaleFlags' /\ EarlyRuns'
  BY <1>1, <1>2, <1>3 DEF ReplayInv, StaleFlags, EarlyRuns, BeforeInit, InstrPhases
<1>5. NotProfiled'
  BY <1>1, <1>2, <1>3 DEF ReplayInv, NotProfiled, InstrPhases
<1>6. KernelReplayed'
  BY <1>1, <1>2, <1>3 DEF ReplayInv, KernelReplayed, InputPhase, Sound, BeforeInit, InstrPhases
<1>7. AppReplayed'
  <2>1. SUFFICES ASSUME Sound', AppReplay' PROVE AppReplayed'
    BY DEF AppReplayed
  <2>2. Sound /\ AppReplay /\ LaunchOK
    BY <1>1, <1>2, <1>3, <2>1 DEF Sound, BeforeInit, InstrPhases, RecordInv
  <2>3. \A a, b \in cfg.flags : a = b
    BY <2>2, AppFlags
  <2>4. cfg.flags \subseteq Tasks
    BY <2>2, SettingsForm
  <2> QED
    BY <1>1, <1>2, <1>3, <2>1, <2>2, <2>3, <2>4
    DEF ReplayInv, AppReplayed, RunAhead, RecordAhead, Early, Sound, BeforeInit,
        InstrPhases, Tasks
<1> QED BY <1>3, <1>4, <1>5, <1>6, <1>7 DEF ReplayInv

\* Restore gives the operands their input back.
LEMMA RestoredInput ==
    ASSUME LaunchOK, SavedInput, NEW m, NEW left, left \cap launch.operands = {}
    PROVE  \A s \in launch.operands : Restored(m, left)[s] = launch.input[s]
BY DEF LaunchOK, SavedInput, Restored

\* A run on the input leaves the result.
LEMMA RunLeavesResult ==
    ASSUME LaunchOK, NEW m, \A s \in launch.operands : m[s] = launch.input[s],
           mem' = AfterRuns(m, 1), launch' = launch
    PROVE  OnResult'
BY DEF LaunchOK, OnResult, AfterRuns

\* Backup saves the input where the operands hold it and are all recorded.
LEMMA BackupSavesInput ==
    ASSUME OnInput, Backup, launch.operands \subseteq tracked, launch' = launch
    PROVE  SavedInput'
BY DEF OnInput, Backup, SavedInput

\* What is remembered of a run.
LEMMA RunsForm ==
    ASSUME NEW what, NEW handle, NEW args, NEW m, NEW f, Runs(what, handle, args, m, f)
    PROVE  /\ run'.what = what
           /\ run'.clean <=> \A s \in launch.operands : m[s] = launch.input[s]
           /\ run'.restored <=> "restore" \notin f
<1>1. run'.what = what
  BY DEF Runs
<1>2. run'.clean <=> \A s \in launch.operands : m[s] = launch.input[s]
  BY Zenon DEF Runs
<1>3. run'.restored <=> "restore" \notin f
  BY Zenon DEF Runs
<1> QED BY <1>1, <1>2, <1>3

\* What a step that writes blocks leaves alone.  Of what failed only an incomplete
\* Restore can be made up for.
LEMMA RunFrame ==
    ASSUME ReplayInv, failed \ {"restore"} \subseteq failed',
           UNCHANGED <<cfg, launch, lccl, mc2, snap, alloc, tracked>>
    PROVE  /\ SavedInput' <=> SavedInput
           /\ Fused' = Fused
           /\ AppReplay' <=> AppReplay
           /\ InputLost => InputLost'
           /\ AllTracked'
BY DEF ReplayInv, SavedInput, Fused, AppReplay, InputLost, AllTracked

\* An instrumented run of a launch of which nothing was lost is not of a kernel
\* that the flags call fused.
LEMMA InstrNotFused ==
    ASSUME RecordInv, ReplayInv, pc \in InstrPhases, ~InputLost
    PROVE  ~Fused /\ launch.prof /\ InstrTasks \cap cfg.flags # {}
<1>1. task \in InstrTasks \cap cfg.flags /\ launch.prof
  BY DEF RecordInv, TaskOwnsBuffer
<1>2. ~launch.stale
  BY <1>1 DEF InputLost, InstrTasks
<1> QED BY <1>1, <1>2 DEF ReplayInv, StaleFlags, BeforeInit

\* Fused is a truth value.
LEMMA FusedBool == Fused \in BOOLEAN
BY DEF Fused

\* InstrProfData saves the input before it runs anything.
LEMMA ReplayInstrBackup ==
    ASSUME KeptInv, RecordInv, ReplayInv, InstrBackup PROVE ReplayInv'
<1>1. /\ pc = "instrbackup" /\ count' = 0
      /\ UNCHANGED <<cfg, launch, lccl, mc2, mem, alloc, tracked, run>>
      /\ failed \subseteq failed'
      /\ \/ (AppReplay \/ Fused) /\ pc' = "instrwarm" /\ failed' = failed
         \/ ~(AppReplay \/ Fused) /\ Backup /\ pc' = "instrwarm"
         \/ ~(AppReplay \/ Fused) /\ pc' = "instrend" /\ failed' = failed \cup {"backup"}
  BY DEF InstrBackup, Restores, Backup, settings, history, Fail, NoFail
<1>2. /\ OnInput' <=> OnInput
      /\ OnResult' <=> OnResult
      /\ Fused' = Fused
      /\ AppReplay' <=> AppReplay
      /\ InputLost => InputLost'
  BY <1>1 DEF OnInput, OnResult, Fused, AppReplay, InputLost
<1>3. AllTracked' /\ RunsReadInput'
  BY <1>1, <1>2 DEF ReplayInv, AllTracked, RunsReadInput
<1>4. StaleFlags' /\ EarlyRuns'
  BY <1>1, <1>2 DEF ReplayInv, StaleFlags, EarlyRuns, BeforeInit, InstrPhases
<1>5. NotProfiled'
  BY <1>1 DEF ReplayInv, NotProfiled, InstrPhases
<1>6. KernelReplayed'
  <2>1. SUFFICES ASSUME Sound', ~AppReplay' PROVE KernelReplayed'
    BY DEF KernelReplayed
  <2>2. Sound /\ ~AppReplay /\ ~InputLost'
    BY <1>1, <1>2, <2>1 DEF Sound, BeforeInit, InstrPhases
  <2>3. ~Fused
    BY <1>1, <2>2, InstrNotFused DEF Sound, InstrPhases
  <2>4. Backup /\ pc' = "instrwarm" /\ "restore" \notin failed
    BY <1>1, <2>2, <2>3 DEF InputLost, Backup
  <2>5. OnInput
    BY <1>1, <2>2, <2>4 DEF ReplayInv, KernelReplayed, InputPhase
  <2>6. launch.operands \subseteq tracked
    BY <1>1, <2>2, <2>3 DEF ReplayInv, AllTracked, Fused, KeptInv, BlocksOK
  <2>7. SavedInput'
    BY <1>1, <2>4, <2>5, <2>6, BackupSavesInput
  <2> QED BY <1>2, <2>4, <2>5, <2>7 DEF KernelReplayed, InputPhase
<1>7. AppReplayed'
  <2>1. SUFFICES ASSUME Sound', AppReplay' PROVE AppReplayed'
    BY DEF AppReplayed
  <2>2. Sound /\ AppReplay /\ pc' = "instrwarm" /\ failed' = failed
    BY <1>1, <1>2, <2>1 DEF Sound, BeforeInit, InstrPhases
  <2> QED
    BY <1>1, <1>2, <2>2 DEF ReplayInv, AppReplayed, RunAhead, RecordAhead, Early
<1> QED BY <1>3, <1>4, <1>5, <1>6, <1>7 DEF ReplayInv

\* A warm-up run of the instrumented kernel starts from the snapshots, and
\* happens in kernel replay only.
LEMMA ReplayInstrWarmUp ==
    ASSUME RecordInv, ReplayInv, InstrWarmUp PROVE ReplayInv'
<1>1. /\ pc = "instrwarm" /\ pc' = "instrwarm" /\ ~AppReplay /\ ~Fused /\ cfg.warm > 0
      /\ UNCHANGED <<cfg, launch, lccl, mc2, snap, alloc, tracked>>
      /\ failed \ {"restore"} \subseteq failed'
  BY SettingsForm
  DEF InstrWarmUp, WarmUpTimes, Restores, WarmUpRuns, WarmUpFails, Outcome, settings, RecordInv,
      FormOK
<1>2. run' # run =>
        \E left : /\ run'.restored => left \cap launch.operands = {}
                  /\ run'.clean <=> \A s \in launch.operands :
                                      Restored(mem, left)[s] = launch.input[s]
  <2>1. SUFFICES ASSUME run' # run
                 PROVE  \E left : /\ run'.restored => left \cap launch.operands = {}
                                  /\ run'.clean <=> \A s \in launch.operands :
                                                      Restored(mem, left)[s] = launch.input[s]
    OBVIOUS
  <2>2. PICK left : WarmUpRuns(left) /\ RunsStub("warm", Restored(mem, left), failed')
    BY <2>1 DEF InstrWarmUp, WarmUpFails
  <2>3. /\ run'.clean <=> \A s \in launch.operands : Restored(mem, left)[s] = launch.input[s]
        /\ run'.restored <=> "restore" \notin failed'
    BY <2>2, RunsForm DEF RunsStub
  <2>4. "restore" \notin failed' => left \cap launch.operands = {}
    BY <2>2 DEF WarmUpRuns, Outcome
  <2> QED BY <2>3, <2>4
<1>3. /\ SavedInput' <=> SavedInput
      /\ Fused' = Fused
      /\ AppReplay' <=> AppReplay
      /\ InputLost => InputLost'
      /\ AllTracked'
  BY <1>1, RunFrame
<1>4. StaleFlags' /\ EarlyRuns'
  <2>1. InstrTasks \cap cfg.flags # {}
    BY <1>1 DEF RecordInv, TaskOwnsBuffer, InstrPhases
  <2> QED BY <1>1, <1>3, <2>1 DEF ReplayInv, StaleFlags, EarlyRuns, BeforeInit, InstrPhases
<1>5. NotProfiled'
  BY <1>1 DEF ReplayInv, NotProfiled, InstrPhases
<1>6. KernelReplayed'
  BY <1>1, <1>3, SettingsForm
  DEF ReplayInv, KernelReplayed, InputPhase, Sound, BeforeInit, InstrPhases, RecordInv
<1>7. AppReplayed'
  BY <1>1, <1>3 DEF AppReplayed
<1>8. RunsReadInput'
  <2>1. SUFFICES ASSUME ~InputLost', run' # run, run'.restored PROVE run'.clean
    BY <1>1, <1>3 DEF ReplayInv, RunsReadInput
  <2>2. ~InputLost /\ launch.prof
    BY <1>1, <1>3, <2>1, InstrNotFused DEF InstrPhases
  <2>3. SavedInput
    BY <1>1, <2>2 DEF ReplayInv, KernelReplayed, Sound, BeforeInit, InstrPhases
  <2> QED BY <1>2, <2>1, <2>3, RestoredInput DEF RecordInv
<1> QED BY <1>3, <1>4, <1>5, <1>6, <1>7, <1>8 DEF ReplayInv

\* The measured run of KernelLaunchForInstrProf: Restore follows it in kernel
\* replay; in application replay it is the run of this launch.
LEMMA ReplayInstrRun ==
    ASSUME RecordInv, ReplayInv, InstrRun PROVE ReplayInv'
<1>1. /\ pc = "instrwarm" /\ pc' = "instrend" /\ count' = count
      /\ UNCHANGED <<cfg, launch, lccl, mc2, snap, alloc, tracked>>
      /\ failed \ {"restore"} \subseteq failed'
  BY DEF InstrRun, Outcome, settings
<1>2. \/ run' = run
      \/ /\ run'.what = "instr" /\ (run'.clean <=> OnInput)
         /\ run'.restored <=> "restore" \notin failed
  BY RunsForm DEF InstrRun, RunsStub, OnInput
<1>3. Restores /\ "restore" \notin failed' =>
        \E m, left : left \cap launch.operands = {} /\ mem' = Restored(m, left)
  BY DEF InstrRun, Outcome, PutBack
<1>4. ~Restores /\ failed' = {} => mem' = AfterRuns(mem, 1)
  BY DEF InstrRun, Outcome, PutBack
<1>5. /\ SavedInput' <=> SavedInput
      /\ Fused' = Fused
      /\ AppReplay' <=> AppReplay
      /\ InputLost => InputLost'
      /\ AllTracked'
  BY <1>1, RunFrame
<1>6. task \in InstrTasks \cap cfg.flags /\ launch.prof /\ (task = "START" => launch.simt)
  BY <1>1 DEF RecordInv, TaskOwnsBuffer, InstrPhases
<1>7. StaleFlags' /\ EarlyRuns'
  BY <1>1, <1>5, <1>6 DEF ReplayInv, StaleFlags, EarlyRuns, BeforeInit, InstrPhases
<1>8. NotProfiled'
  BY <1>1, <1>6 DEF NotProfiled
<1>9. ~InputLost => Sound /\ ~Fused
  BY <1>1, <1>6, InstrNotFused DEF Sound, BeforeInit, InstrPhases
<1>10. KernelReplayed'
  <2>1. SUFFICES ASSUME Sound', ~AppReplay' PROVE KernelReplayed'
    BY DEF KernelReplayed
  <2>2. Sound /\ ~AppReplay /\ ~Fused
    BY <1>5, <1>9, <2>1 DEF Sound
  <2>3. SavedInput
    BY <1>1, <2>2 DEF ReplayInv, KernelReplayed, InputPhase
  <2>4. "restore" \notin failed' => OnInput'
    BY <1>1, <1>3, <2>2, <2>3, RestoredInput DEF Restores, OnInput, RecordInv
  <2> QED BY <1>1, <2>4 DEF KernelReplayed
<1>11. AppReplay /\ ~InputLost => OnInput
  <2>1. SUFFICES ASSUME AppReplay, ~InputLost PROVE OnInput
    OBVIOUS
  <2>2. \A a, b \in cfg.flags : a = b
    BY <2>1, AppFlags DEF RecordInv
  <2>3. RunAhead
    BY <1>1, <1>6, <2>2 DEF RunAhead, InstrTasks
  <2> QED BY <1>9, <2>1, <2>3 DEF ReplayInv, AppReplayed
<1>12. AppReplayed'
  <2>1. SUFFICES ASSUME Sound', AppReplay' PROVE AppReplayed'
    BY DEF AppReplayed
  <2>2. AppReplay /\ OnInput
    BY <1>5, <1>11, <2>1 DEF Sound
  <2>3. ~RunAhead'
    BY <1>1, <1>6 DEF RunAhead, InstrTasks
  <2>4. failed' = {} => OnResult'
    BY <1>1, <1>4, <2>2, RunLeavesResult DEF Restores, OnInput, RecordInv
  <2> QED BY <1>1, <2>3, <2>4 DEF AppReplayed
<1>13. RunsReadInput'
  <2>1. SUFFICES ASSUME ~InputLost', run' # run, run'.restored, run'.what = "instr",
                        cfg.warm = 0 \/ AppReplay
                 PROVE  run'.clean
    BY <1>1, <1>5, <1>2 DEF ReplayInv, RunsReadInput, AppReplay
  <2>2. "restore" \notin failed
    BY <1>2, <2>1
  <2>3. OnInput
    BY <1>1, <1>5, <1>9, <1>11, <2>1, <2>2 DEF ReplayInv, KernelReplayed, InputPhase
  <2> QED BY <1>2, <2>1, <2>3
<1> QED BY <1>5, <1>7, <1>8, <1>10, <1>12, <1>13 DEF ReplayInv

\* ProfInit sets the flags for this kernel.  The flag of an earlier fused kernel
\* may go: then no phase before has run anything, or the input counts as lost.
LEMMA ReplayProfInit ==
    ASSUME RecordInv, ReplayInv, ProfInit PROVE ReplayInv'
<1>1. /\ pc = "profinit" /\ pc' = "profdata" /\ count' = count
      /\ (lccl => lccl')
      /\ UNCHANGED <<cfg, launch, mem, snap, alloc, tracked, run, failed>>
  BY DEF ProfInit, settings, blocks, history
<1>2. /\ OnInput' <=> OnInput
      /\ OnResult' <=> OnResult
      /\ AppReplay' <=> AppReplay
      /\ InputLost' <=> InputLost
  BY <1>1 DEF OnInput, OnResult, AppReplay, InputLost
<1>3. StaleFlags' /\ EarlyRuns'
  BY <1>1 DEF StaleFlags, EarlyRuns, BeforeInit, InstrPhases
<1>4. AllTracked'
  BY <1>1, <1>2 DEF ReplayInv, AllTracked
<1>5. NotProfiled'
  BY <1>1, <1>2 DEF ReplayInv, NotProfiled, InstrPhases
<1>6. Sound' => Sound
  BY <1>1, <1>2 DEF Sound, BeforeInit
<1>7. KernelReplayed'
  BY <1>1, <1>2, <1>6 DEF ReplayInv, KernelReplayed, InputPhase
<1>8. AppReplayed'
  BY <1>1, <1>2, <1>6 DEF ReplayInv, AppReplayed, RunAhead, RecordAhead, Early
<1>9. RunsReadInput'
  <2>1. CASE Fused
    <3>1. ~InputLost => run.what = "none"
      BY <1>1, <2>1 DEF ReplayInv, StaleFlags, EarlyRuns, BeforeInit, InputLost, InstrTasks
    <3> QED BY <1>1, <1>2, <3>1 DEF RunsReadInput
  <2>2. CASE ~Fused
    BY <1>1, <1>2, <2>2 DEF ReplayInv, RunsReadInput
  <2> QED BY <2>1, <2>2
<1> QED BY <1>3, <1>4, <1>5, <1>7, <1>8, <1>9 DEF ReplayInv

\* ProfData saves the input before KernelReplay runs anything.
LEMMA ReplayProfData ==
    ASSUME KeptInv, RecordInv, ReplayInv, ProfData PROVE ReplayInv'
<1>1. /\ pc = "profdata" /\ count' = 0
      /\ UNCHANGED <<cfg, launch, lccl, mc2, mem, alloc, tracked, run>>
      /\ \/ ~launch.prof /\ pc' = "bb" /\ failed' = failed
         \/ /\ launch.prof /\ (AppReplay \/ lccl)
            /\ pc' = AfterBackup /\ failed' = failed
         \/ /\ launch.prof /\ ~(AppReplay \/ lccl) /\ Backup
            /\ pc' = AfterBackup
         \/ /\ launch.prof /\ ~(AppReplay \/ lccl)
            /\ pc' = "bb" /\ failed' = failed \cup {"backup"}
      /\ failed \subseteq failed'
  BY DEF ProfData, Backup, settings, history, Fail, NoFail
<1>2. /\ OnInput' <=> OnInput
      /\ OnResult' <=> OnResult
      /\ Fused' = Fused
      /\ AppReplay' <=> AppReplay
      /\ InputLost => InputLost'
  BY <1>1 DEF OnInput, OnResult, Fused, AppReplay, InputLost
<1>3. /\ AfterBackup \in {"mc2", "bb", "warm"}
      /\ AfterBackup = "mc2" => Fused
      /\ AfterBackup = "bb" => AppReplay /\ cfg.flags # {}
      /\ AfterBackup = "warm" /\ AppReplay => cfg.flags = {}
  BY DEF AfterBackup, IsDbi, Fused
<1>4. pc' \in {"mc2", "bb", "warm"}
  BY <1>1, <1>3
<1>5. AllTracked' /\ RunsReadInput'
  BY <1>1, <1>2 DEF ReplayInv, AllTracked, RunsReadInput
<1>6. StaleFlags' /\ EarlyRuns'
  BY <1>4 DEF StaleFlags, EarlyRuns, BeforeInit, InstrPhases
<1>7. NotProfiled'
  BY <1>1, <1>2 DEF ReplayInv, NotProfiled, InstrPhases
<1>8. Sound' => Sound /\ ~Fused
  BY <1>1, <1>2, <1>4 DEF Sound, BeforeInit, InstrPhases
<1>9. KernelReplayed'
  <2>1. SUFFICES ASSUME Sound', ~AppReplay' PROVE KernelReplayed'
    BY DEF KernelReplayed
  <2>2. Sound /\ ~AppReplay /\ ~Fused /\ launch.prof /\ ~InputLost'
    BY <1>2, <1>8, <2>1 DEF Sound
  <2>3. Backup /\ pc' = "warm" /\ "restore" \notin failed
    BY <1>1, <1>3, <2>2 DEF InputLost, Fused, Backup
  <2>4. OnInput
    BY <1>1, <2>2, <2>3 DEF ReplayInv, KernelReplayed, InputPhase
  <2>5. launch.operands \subseteq tracked
    BY <1>1, <2>2 DEF ReplayInv, AllTracked, Fused, KeptInv, BlocksOK
  <2>6. SavedInput'
    BY <1>1, <2>3, <2>4, <2>5, BackupSavesInput
  <2> QED BY <2>3, <2>6 DEF KernelReplayed, InputPhase
<1>10. AppReplayed'
  <2>1. SUFFICES ASSUME Sound', AppReplay' PROVE AppReplayed'
    BY DEF AppReplayed
  <2>2. Sound /\ AppReplay /\ ~Fused /\ launch.prof /\ LaunchOK
    BY <1>2, <1>8, <2>1 DEF Sound, RecordInv
  <2>3. pc' = AfterBackup /\ pc' # "mc2" /\ failed' = failed
    BY <1>1, <1>3, <2>2
  <2>4. RunAhead' <=> RunAhead
    <3>1. cfg.flags \subseteq Tasks
      BY <2>2, SettingsForm
    <3> QED
      BY <1>1, <1>3, <2>2, <2>3, <3>1 DEF RunAhead, RecordAhead, Early, Tasks
  <2> QED
    BY <1>1, <1>2, <1>3, <2>2, <2>3, <2>4 DEF ReplayInv, AppReplayed
<1> QED BY <1>5, <1>6, <1>7, <1>9, <1>10 DEF ReplayInv

\* An MC2 kernel is fused: its warm-up is outside of the invariant.
LEMMA ReplayMC2WarmUp ==
    ASSUME RecordInv, ReplayInv, MC2WarmUp PROVE ReplayInv'
<1>1. /\ pc = "mc2" /\ pc' \in {"bb", "warm"} /\ failed' = failed
      /\ UNCHANGED <<cfg, launch, lccl, mc2, snap, alloc, tracked>>
  BY DEF MC2WarmUp, settings
<1>2. /\ Fused' = Fused
      /\ AppReplay' <=> AppReplay
      /\ InputLost' <=> InputLost
      /\ AllTracked'
  BY <1>1, RunFrame DEF InputLost
<1>3. launch.prof
  BY <1>1 DEF ReplayInv, NotProfiled
<1>4. ~Sound /\ ~Sound'
  BY <1>1, <1>2 DEF ReplayInv, KernelReplayed, AppReplayed, Sound, BeforeInit, InstrPhases
<1>5. Fused' \/ InputLost'
  BY <1>1, <1>2, <1>3, <1>4 DEF Sound
<1> QED
  BY <1>1, <1>2, <1>3, <1>4, <1>5
  DEF ReplayInv, StaleFlags, EarlyRuns, NotProfiled, KernelReplayed, AppReplayed,
      RunsReadInput, BeforeInit, InstrPhases

\* Every warm-up run of KernelReplay starts from the snapshots.
LEMMA ReplayWarmUp ==
    ASSUME RecordInv, ReplayInv, WarmUp PROVE ReplayInv'
<1>1. /\ pc = "warm" /\ pc' = "warm" /\ ~AppReplay /\ ~Fused
      /\ UNCHANGED <<cfg, launch, lccl, mc2, snap, alloc, tracked>>
      /\ failed \ {"restore"} \subseteq failed'
  BY SettingsForm
  DEF WarmUp, WarmUpTimes, Restores, WarmUpRuns, WarmUpFails, Outcome, settings, RecordInv,
      FormOK
<1>2. run' # run =>
        \E left : /\ run'.restored => left \cap launch.operands = {}
                  /\ run'.clean <=> \A s \in launch.operands :
                                      Restored(mem, left)[s] = launch.input[s]
  <2>1. SUFFICES ASSUME run' # run
                 PROVE  \E left : /\ run'.restored => left \cap launch.operands = {}
                                  /\ run'.clean <=> \A s \in launch.operands :
                                                      Restored(mem, left)[s] = launch.input[s]
    OBVIOUS
  <2>2. PICK left : WarmUpRuns(left) /\ RunsOrigin("warm", Restored(mem, left), failed')
    BY <2>1 DEF WarmUp, WarmUpFails
  <2>3. /\ run'.clean <=> \A s \in launch.operands : Restored(mem, left)[s] = launch.input[s]
        /\ run'.restored <=> "restore" \notin failed'
    BY <2>2, RunsForm DEF RunsOrigin
  <2>4. "restore" \notin failed' => left \cap launch.operands = {}
    BY <2>2 DEF WarmUpRuns, Outcome
  <2> QED BY <2>3, <2>4
<1>3. /\ SavedInput' <=> SavedInput
      /\ Fused' = Fused
      /\ AppReplay' <=> AppReplay
      /\ InputLost => InputLost'
      /\ AllTracked'
  BY <1>1, RunFrame
<1>4. launch.prof
  BY <1>1 DEF ReplayInv, NotProfiled
<1>5. StaleFlags' /\ EarlyRuns' /\ NotProfiled'
  BY <1>1, <1>4 DEF StaleFlags, EarlyRuns, NotProfiled, BeforeInit, InstrPhases
<1>6. KernelReplayed'
  BY <1>1, <1>3 DEF ReplayInv, KernelReplayed, InputPhase, Sound, BeforeInit, InstrPhases
<1>7. AppReplayed'
  BY <1>1, <1>3 DEF AppReplayed
<1>8. RunsReadInput'
  <2>1. SUFFICES ASSUME ~InputLost', run' # run, run'.restored PROVE run'.clean
    BY <1>1, <1>3 DEF ReplayInv, RunsReadInput
  <2>2. SavedInput
    BY <1>1, <1>3, <1>4, <2>1 DEF ReplayInv, KernelReplayed, Sound
  <2> QED BY <1>2, <2>1, <2>2, RestoredInput DEF RecordInv
<1> QED BY <1>3, <1>5, <1>6, <1>7, <1>8 DEF ReplayInv

\* A round of the replay starts from the snapshots; in application replay the
\* one round is the run of this launch.
LEMMA ReplayReplayOnce ==
    ASSUME RecordInv, ReplayInv, ReplayOnce PROVE ReplayInv'
<1>1. /\ pc = "replay" /\ pc' = "replay" /\ count < Rounds /\ count' = count + 1
      /\ UNCHANGED <<cfg, launch, lccl, mc2, snap, alloc, tracked>>
      /\ failed \ {"restore"} \subseteq failed'
  BY DEF ReplayOnce, Outcome, settings
<1>2. run' # run =>
        \E left : /\ Restores /\ run'.restored => left \cap launch.operands = {}
                  /\ run'.clean <=> \A s \in launch.operands :
                                      ReplayInput(left)[s] = launch.input[s]
  <2>1. SUFFICES ASSUME run' # run
                 PROVE  \E left : /\ Restores /\ run'.restored =>
                                       left \cap launch.operands = {}
                                  /\ run'.clean <=> \A s \in launch.operands :
                                                      ReplayInput(left)[s] = launch.input[s]
    OBVIOUS
  <2>2. PICK left : /\ Outcome(Restores, left, {})
                    /\ RunsOrigin("replay", ReplayInput(left), failed')
    BY <2>1 DEF ReplayOnce
  <2>3. /\ run'.clean <=> \A s \in launch.operands : ReplayInput(left)[s] = launch.input[s]
        /\ run'.restored <=> "restore" \notin failed'
    BY <2>2, RunsForm DEF RunsOrigin
  <2>4. "restore" \notin failed' => left \cap launch.operands = {}
    BY <2>2 DEF Outcome
  <2> QED BY <2>3, <2>4
<1>3. failed' = {} => \E left : mem' = AfterRuns(ReplayInput(left), RunsInRound)
  BY DEF ReplayOnce, Outcome
<1>4. /\ SavedInput' <=> SavedInput
      /\ Fused' = Fused
      /\ AppReplay' <=> AppReplay
      /\ InputLost => InputLost'
      /\ AllTracked'
  BY <1>1, RunFrame
<1>5. launch.prof
  BY <1>1 DEF ReplayInv, NotProfiled
<1>6. StaleFlags' /\ EarlyRuns' /\ NotProfiled'
  BY <1>1, <1>5 DEF StaleFlags, EarlyRuns, NotProfiled, BeforeInit, InstrPhases
<1>7. KernelReplayed'
  BY <1>1, <1>4 DEF ReplayInv, KernelReplayed, InputPhase, Sound, BeforeInit, InstrPhases
<1>8. ~InputLost /\ ~Fused => Sound
  BY <1>1, <1>5 DEF Sound
<1>9. AppReplay /\ Sound => OnInput /\ cfg.flags = {}
  <2>1. SUFFICES ASSUME AppReplay, Sound PROVE OnInput /\ cfg.flags = {}
    OBVIOUS
  <2>2. cfg.flags = {} /\ count = 0
    BY <1>1, <2>1 DEF ReplayInv, AppReplayed, Rounds, RecordInv, FormOK
  <2>3. RunAhead
    BY <1>1, <2>2 DEF RunAhead
  <2> QED BY <2>1, <2>2, <2>3 DEF ReplayInv, AppReplayed
<1>10. AppReplayed'
  <2>1. SUFFICES ASSUME Sound', AppReplay' PROVE AppReplayed'
    BY DEF AppReplayed
  <2>2. AppReplay /\ Sound /\ ~Fused
    BY <1>1, <1>4, <1>8, <2>1 DEF Sound, BeforeInit, InstrPhases
  <2>3. OnInput /\ cfg.flags = {}
    BY <1>9, <2>2
  <2>4. RunsInRound = 1 /\ \A left : ReplayInput(left) = mem
    BY <2>2 DEF ReplayInput, PutBack, Restores, RunsInRound, Fused
  <2>5. ~RunAhead'
    BY <1>1, <2>3 DEF RunAhead, Early, RecordInv, FormOK
  <2>6. failed' = {} => OnResult'
    BY <1>1, <1>3, <2>3, <2>4, RunLeavesResult DEF OnInput, RecordInv
  <2> QED BY <1>1, <2>3, <2>5, <2>6 DEF AppReplayed
<1>11. RunsReadInput'
  <2>1. SUFFICES ASSUME ~InputLost', ~Fused', run' # run, run'.restored PROVE run'.clean
    BY <1>1, <1>4 DEF ReplayInv, RunsReadInput
  <2>2. Sound /\ ~Fused
    BY <1>4, <1>8, <2>1
  <2>3. CASE AppReplay
    <3>1. OnInput /\ \A left : ReplayInput(left) = mem
      BY <1>9, <2>2, <2>3 DEF ReplayInput, PutBack, Restores
    <3> QED BY <1>2, <2>1, <3>1 DEF OnInput
  <2>4. CASE ~AppReplay
    <3>1. SavedInput /\ Restores /\ \A left : ReplayInput(left) = Restored(mem, left)
      BY <1>1, <2>2, <2>4 DEF ReplayInv, KernelReplayed, ReplayInput, PutBack, Restores
    <3> QED BY <1>2, <2>1, <3>1, RestoredInput DEF RecordInv
  <2> QED BY <2>3, <2>4
<1> QED BY <1>4, <1>6, <1>7, <1>10, <1>11 DEF ReplayInv

\* KernelReplay ends with the input in place again.
LEMMA ReplayKernelReplayEnd ==
    ASSUME RecordInv, ReplayInv, KernelReplayEnd PROVE ReplayInv'
<1>1. /\ pc = "replay" /\ pc' = "bb" /\ count >= Rounds
      /\ UNCHANGED <<cfg, launch, lccl, mc2, snap, alloc, tracked, run>>
      /\ failed \ {"restore"} \subseteq failed'
      /\ ~Restores => mem' = mem /\ failed \subseteq failed'
  BY DEF KernelReplayEnd, Outcome, ReplayInput, PutBack, settings, history
<1>2. Restores /\ "restore" \notin failed' =>
        \E left : left \cap launch.operands = {} /\ mem' = Restored(mem, left)
  BY DEF KernelReplayEnd, Outcome, ReplayInput, PutBack
<1>3. /\ SavedInput' <=> SavedInput
      /\ Fused' = Fused
      /\ AppReplay' <=> AppReplay
      /\ InputLost => InputLost'
      /\ AllTracked'
  BY <1>1, RunFrame
<1>4. launch.prof
  BY <1>1 DEF ReplayInv, NotProfiled
<1>5. StaleFlags' /\ EarlyRuns' /\ NotProfiled'
  BY <1>1, <1>4 DEF StaleFlags, EarlyRuns, NotProfiled, BeforeInit, InstrPhases
<1>6. RunsReadInput'
  BY <1>1, <1>3 DEF ReplayInv, RunsReadInput
<1>7. Sound' => Sound /\ ~Fused
  BY <1>1, <1>3 DEF Sound, BeforeInit, InstrPhases
<1>8. KernelReplayed'
  <2>1. SUFFICES ASSUME Sound', ~AppReplay' PROVE KernelReplayed'
    BY DEF KernelReplayed
  <2>2. Sound /\ ~AppReplay /\ ~Fused
    BY <1>3, <1>7, <2>1
  <2>3. SavedInput
    BY <1>1, <2>2 DEF ReplayInv, KernelReplayed
  <2>4. "restore" \notin failed' => OnInput'
    BY <1>1, <1>2, <2>2, <2>3, RestoredInput DEF Restores, OnInput, RecordInv
  <2> QED BY <1>1, <1>3, <2>3, <2>4 DEF KernelReplayed
<1>9. AppReplayed'
  <2>1. SUFFICES ASSUME Sound', AppReplay' PROVE AppReplayed'
    BY DEF AppReplayed
  <2>2. Sound /\ AppReplay /\ mem' = mem /\ failed \subseteq failed'
    BY <1>1, <1>3, <1>7, <2>1 DEF Restores
  <2>3. cfg.flags = {} /\ count # 0
    BY <1>1, <2>2 DEF ReplayInv, AppReplayed, Rounds, RecordInv, FormOK
  <2>4. ~RunAhead /\ ~RunAhead'
    BY <1>1, <2>3 DEF RunAhead, Early
  <2>5. (OnInput' <=> OnInput) /\ (OnResult' <=> OnResult)
    BY <1>1, <2>2 DEF OnInput, OnResult
  <2> QED BY <1>1, <2>2, <2>4, <2>5 DEF ReplayInv, AppReplayed
<1> QED BY <1>3, <1>5, <1>6, <1>8, <1>9 DEF ReplayInv

\* Call runs the kernel on the input, and leaves the result of that one run.
LEMMA ReplayCallOrigin ==
    ASSUME RecordInv, ReplayInv, CallOrigin PROVE ReplayInv'
<1>1. /\ pc = "call" /\ pc' = "post" /\ count' = 0 /\ IsNeedRunOriginLaunch
      /\ UNCHANGED <<cfg, launch, lccl, mc2, snap, alloc, tracked, failed>>
      /\ mem' = AfterRuns(mem, 1) /\ run'.what = "call" /\ (run'.clean <=> OnInput)
      /\ run'.restored <=> "restore" \notin failed
  BY RunsForm DEF CallOrigin, RunsOrigin, settings, OnInput
<1>2. /\ SavedInput' <=> SavedInput
      /\ Fused' = Fused
      /\ AppReplay' <=> AppReplay
      /\ InputLost => InputLost'
      /\ AllTracked'
  BY <1>1, RunFrame
<1>3. OnInput => OnResult'
  BY <1>1, RunLeavesResult DEF OnInput, RecordInv
<1>4. ~Fused
  BY <1>1 DEF IsNeedRunOriginLaunch
<1>5. StaleFlags' /\ EarlyRuns'
  BY <1>1 DEF StaleFlags, EarlyRuns, BeforeInit, InstrPhases
<1>6. NotProfiled'
  BY <1>1, <1>3 DEF ReplayInv, NotProfiled, InstrPhases
<1>7. launch.prof /\ ~InputLost => Sound
  BY <1>1, <1>4 DEF Sound
<1>8. Sound' => Sound
  BY <1>1, <1>2, <1>7 DEF Sound
<1>9. KernelReplayed'
  BY <1>1, <1>2, <1>3, <1>8 DEF ReplayInv, KernelReplayed, InputPhase
<1>10. AppReplay /\ Sound => OnInput /\ ~RunAhead'
  <2>1. SUFFICES ASSUME AppReplay, Sound PROVE OnInput /\ ~RunAhead'
    OBVIOUS
  <2>2. \/ cfg.flags = {"BB"}
        \/ cfg.flags = {"WARP"} /\ ~launch.simt
    BY <1>1, <2>1 DEF IsNeedRunOriginLaunch, Sound
  <2>3. RunAhead /\ ~RunAhead'
    BY <1>1, <2>2 DEF RunAhead, Early
  <2> QED BY <2>1, <2>3 DEF ReplayInv, AppReplayed
<1>11. AppReplayed'
  BY <1>1, <1>2, <1>3, <1>8, <1>10 DEF AppReplayed
<1>12. RunsReadInput'
  <2>1. SUFFICES ASSUME ~InputLost', run'.restored PROVE OnInput
    BY <1>1 DEF RunsReadInput
  <2> QED
    BY <1>1, <1>2, <1>7, <1>10, <2>1 DEF ReplayInv, NotProfiled, KernelReplayed, InputPhase
<1> QED BY <1>2, <1>5, <1>6, <1>9, <1>11, <1>12 DEF ReplayInv

\* A launch that fails in Call leaves the operands as they were.
LEMMA ReplayCallFails ==
    ASSUME RecordInv, ReplayInv, CallFails PROVE ReplayInv'
<1>1. /\ pc = "call" /\ pc' \in {"post", "done"} /\ count' = 0 /\ ~Fused
      /\ failed' = failed \cup {"call"}
      /\ UNCHANGED <<cfg, lccl, mc2, mem, snap, alloc, tracked, run>>
      /\ launch' = [launch EXCEPT !.ret = FALSE]
  BY DEF CallFails, Fail, settings, blocks, history, IsNeedRunOriginLaunch
<1>2. /\ launch'.prof = launch.prof /\ launch'.simt = launch.simt
      /\ launch'.operands = launch.operands /\ launch'.input = launch.input
      /\ launch'.stale = launch.stale /\ ~launch'.ret
  BY <1>1 DEF RecordInv, LaunchOK
<1>3. /\ OnInput' <=> OnInput
      /\ OnResult' <=> OnResult
      /\ SavedInput' <=> SavedInput
      /\ Fused' = Fused
      /\ AppReplay' <=> AppReplay
      /\ InputLost => InputLost'
      /\ AllTracked'
  BY <1>1, <1>2
  DEF OnInput, OnResult, SavedInput, Fused, AppReplay, InputLost, AllTracked, ReplayInv
<1>4. StaleFlags' /\ EarlyRuns'
  BY <1>1 DEF StaleFlags, EarlyRuns, BeforeInit, InstrPhases
<1>5. NotProfiled'
  BY <1>1, <1>2 DEF NotProfiled, InstrPhases
<1>6. Sound' => Sound
  BY <1>1, <1>2, <1>3 DEF Sound
<1>7. KernelReplayed'
  BY <1>1, <1>2, <1>3, <1>6 DEF ReplayInv, KernelReplayed, InputPhase
<1>8. AppReplayed'
  <2>1. RunAhead' => RunAhead
    BY <1>1, <1>2 DEF RunAhead, RecordAhead, Early
  <2> QED BY <1>1, <1>2, <1>3, <1>6, <2>1 DEF ReplayInv, AppReplayed
<1>9. RunsReadInput'
  BY <1>1, <1>3 DEF ReplayInv, RunsReadInput
<1> QED BY <1>3, <1>4, <1>5, <1>7, <1>8, <1>9 DEF ReplayInv

\* RunDbiRecordTask restores the operands before its run, in kernel replay.
LEMMA ReplayRecordPrepare ==
    ASSUME RecordInv, ReplayInv, RecordPrepare PROVE ReplayInv'
<1>1. /\ pc = "post" /\ count \in 1..3 /\ IsRecordNeedGen(RecordTasks[count])
      /\ UNCHANGED <<cfg, launch, lccl, mc2, snap, alloc, tracked, run>>
      /\ AppReplay => mem' = mem
      /\ failed \ {"restore"} \subseteq failed'
      /\ \/ pc' = "record" /\ count' = count
         \/ pc' = "post" /\ count' = count + 1 /\ "record" \in failed'
  BY RecordTasksAre DEF RecordPrepare, Outcome, PutBack, settings, history
<1>2. ~AppReplay /\ "restore" \notin failed' =>
        \E left : left \cap launch.operands = {} /\ mem' = Restored(mem, left)
  BY DEF RecordPrepare, Outcome, PutBack
<1>3. /\ SavedInput' <=> SavedInput
      /\ Fused' = Fused
      /\ AppReplay' <=> AppReplay
      /\ InputLost => InputLost'
      /\ AllTracked'
  BY <1>1, RunFrame
<1>4. launch.prof /\ RecordTasks[count] \in cfg.flags
  BY <1>1 DEF IsRecordNeedGen
<1>5. StaleFlags' /\ EarlyRuns' /\ NotProfiled'
  BY <1>1, <1>4 DEF StaleFlags, EarlyRuns, NotProfiled, BeforeInit, InstrPhases
<1>6. Sound' => Sound
  BY <1>1, <1>3 DEF Sound, BeforeInit, InstrPhases
<1>7. KernelReplayed'
  <2>1. SUFFICES ASSUME Sound', ~AppReplay' PROVE KernelReplayed'
    BY DEF KernelReplayed
  <2>2. SavedInput /\ ~AppReplay
    BY <1>1, <1>3, <1>6, <2>1 DEF ReplayInv, KernelReplayed
  <2>3. "restore" \notin failed' => OnInput'
    BY <1>1, <1>2, <2>2, RestoredInput DEF OnInput, RecordInv
  <2> QED BY <1>1, <1>3, <2>2, <2>3 DEF KernelReplayed
<1>8. AppReplayed'
  <2>1. SUFFICES ASSUME Sound', AppReplay' PROVE AppReplayed'
    BY DEF AppReplayed
  <2>2. Sound /\ AppReplay /\ mem' = mem /\ LaunchOK
    BY <1>1, <1>3, <1>6, <2>1 DEF RecordInv
  <2>3. \A a, b \in cfg.flags : a = b
    BY <2>2, AppFlags
  <2>4. RunAhead
    <3>1. count = 1 \/ count = 2 \/ count = 3
      BY <1>1
    <3> QED
      BY <1>1, <1>4, <2>3, <3>1, RecordTasksAre DEF RunAhead, RecordAhead, IsRecordNeedGen
  <2>5. (OnInput' <=> OnInput) /\ (OnResult' <=> OnResult)
    BY <1>1, <2>2 DEF OnInput, OnResult
  <2>6. OnInput
    BY <2>2, <2>4 DEF ReplayInv, AppReplayed
  <2>7. RunAhead' \/ failed' # {}
    <3>1. CASE pc' = "record"
      <4>1. RecordTasks[count] \notin {"START", "TIMELINE", "BB"}
        BY <1>1, RecordTasksAre
      <4>2. RecordTasks[count] = "WARP" => launch.simt
        BY <1>1 DEF IsRecordNeedGen
      <4> QED BY <1>1, <1>4, <2>3, <3>1, <4>1, <4>2 DEF RunAhead, RecordAhead
    <3> QED BY <1>1, <3>1
  <2> QED BY <1>1, <2>5, <2>6, <2>7 DEF AppReplayed
<1>9. RunsReadInput'
  BY <1>1, <1>3 DEF ReplayInv, RunsReadInput
<1> QED BY <1>3, <1>5, <1>7, <1>8, <1>9 DEF ReplayInv

\* The run of a record task reads the input and leaves the result.
LEMMA ReplayRecordRun ==
    ASSUME RecordInv, ReplayInv, RecordRun PROVE ReplayInv'
<1>1. /\ pc = "record" /\ pc' = "post" /\ count' = count + 1
      /\ UNCHANGED <<cfg, launch, lccl, mc2, snap, alloc, tracked>>
      /\ \/ /\ mem' = AfterRuns(mem, 1) /\ run'.what = "record" /\ (run'.clean <=> OnInput)
            /\ run'.restored <=> "restore" \notin failed
            /\ failed' \in {failed, failed \cup {"record"}}
         \/ mem' = mem /\ run' = run /\ failed' = failed \cup {"record"}
  BY RunsForm DEF RecordRun, Fail, NoFail, settings, OnInput
<1>2. /\ SavedInput' <=> SavedInput
      /\ Fused' = Fused
      /\ AppReplay' <=> AppReplay
      /\ InputLost => InputLost'
      /\ AllTracked'
  BY <1>1, RunFrame
<1>3. /\ launch.prof /\ count \in 1..3
      /\ task = RecordTasks[count] /\ IsRecordNeedGen(task) /\ task \in cfg.flags
  BY <1>1 DEF RecordInv, TaskOwnsBuffer
<1>4. OnInput /\ "record" \notin failed' => OnResult'
  <2>1. SUFFICES ASSUME OnInput, "record" \notin failed' PROVE OnResult'
    OBVIOUS
  <2>2. mem' = AfterRuns(mem, 1)
    BY <1>1, <2>1
  <2> QED BY <1>1, <2>1, <2>2, RunLeavesResult DEF OnInput, RecordInv
<1>5. StaleFlags' /\ EarlyRuns' /\ NotProfiled'
  BY <1>1, <1>3 DEF StaleFlags, EarlyRuns, NotProfiled, BeforeInit, InstrPhases
<1>6. Sound' => Sound
  BY <1>1, <1>2 DEF Sound, BeforeInit, InstrPhases
<1>7. KernelReplayed'
  <2>1. SUFFICES ASSUME Sound', ~AppReplay' PROVE KernelReplayed'
    BY DEF KernelReplayed
  <2>2. SavedInput' /\ ("restore" \notin failed => OnInput)
    BY <1>1, <1>2, <1>6, <2>1 DEF ReplayInv, KernelReplayed, InputPhase
  <2>3. {"record", "restore"} \cap failed' = {} => OnResult'
    BY <1>1, <1>4, <2>2
  <2> QED BY <1>1, <2>2, <2>3 DEF KernelReplayed, InputPhase
<1>8. AppReplay /\ Sound => OnInput /\ ~RunAhead'
  <2>1. SUFFICES ASSUME AppReplay, Sound PROVE OnInput /\ ~RunAhead'
    OBVIOUS
  <2>2. \A a, b \in cfg.flags : a = b
    BY <2>1, AppFlags DEF RecordInv
  <2>3. count = 1 \/ count = 2 \/ count = 3
    BY <1>3
  <2>4. RunAhead
    BY <1>1, <1>3, <2>2, <2>3, RecordTasksAre DEF RunAhead, RecordAhead, IsRecordNeedGen
  <2>5. ~RunAhead'
    BY <1>1, <1>3, <2>2, <2>3, RecordTasksAre
    DEF RunAhead, RecordAhead, IsRecordNeedGen, Early
  <2> QED BY <2>1, <2>4, <2>5 DEF ReplayInv, AppReplayed
<1>9. AppReplayed'
  <2>1. SUFFICES ASSUME Sound', AppReplay' PROVE AppReplayed'
    BY DEF AppReplayed
  <2>2. OnInput /\ ~RunAhead'
    BY <1>2, <1>6, <1>8, <2>1
  <2> QED BY <1>1, <1>4, <2>2 DEF AppReplayed
<1>10. RunsReadInput'
  <2>1. SUFFICES ASSUME ~InputLost', ~Fused', run' # run, run'.restored PROVE run'.clean
    BY <1>1, <1>2 DEF ReplayInv, RunsReadInput
  <2>2. Sound
    BY <1>1, <1>2, <1>3, <2>1 DEF Sound
  <2>3. OnInput
    BY <1>1, <1>8, <2>1, <2>2 DEF ReplayInv, KernelReplayed, InputPhase
  <2> QED BY <1>1, <2>1, <2>3
<1> QED BY <1>2, <1>5, <1>7, <1>9, <1>10 DEF ReplayInv

\* The launch returns.
LEMMA ReplayReturn ==
    ASSUME RecordInv, ReplayInv, Return PROVE ReplayInv'
<1>1. /\ pc' = "idle" /\ ~launch'.prof /\ run'.what = "none"
      /\ UNCHANGED <<cfg, lccl, alloc, tracked>>
  BY DEF Return, NoLaunch, NoRun, settings, blocks
<1>2. AllTracked'
  BY <1>1 DEF ReplayInv, AllTracked, AppReplay
<1> QED
  BY <1>1, <1>2
  DEF ReplayInv, StaleFlags, EarlyRuns, NotProfiled, KernelReplayed, AppReplayed, Sound,
      RunsReadInput, BeforeInit, InstrPhases

\* A launch begins with its operands as the application passed them; when
\* InitParam fails the launch is made at once, as the application asked.
LEMMA ReplayInitParam ==
    ASSUME RecordInv, ReplayInv, NEW k \in Kernels, NEW prof \in BOOLEAN,
           NEW ops \in SUBSET Sections, InitParam(k, prof, ops) \/ InitParamFails(k, ops)
    PROVE  ReplayInv'
<1>1. /\ UNCHANGED <<cfg, lccl, mc2, alloc, tracked>>
      /\ launch'.operands = ops /\ launch'.input = mem /\ launch'.stale = Fused
  BY DEF InitParam, InitParamFails, settings
<1>2. /\ Fused' = Fused
      /\ AppReplay' <=> AppReplay
      /\ AllTracked'
  BY <1>1 DEF Fused, AppReplay, AllTracked, ReplayInv
<1>3. CASE InitParam(k, prof, ops)
  <2>1. pc' = "pcsampling" /\ run'.what = "none" /\ mem' = mem /\ count' = 0
    BY <1>3 DEF InitParam, NoRun
  <2>2. OnInput'
    BY <1>1, <2>1 DEF OnInput
  <2>3. StaleFlags' /\ EarlyRuns' /\ RunsReadInput'
    BY <1>1, <1>2, <2>1 DEF StaleFlags, EarlyRuns, RunsReadInput
  <2>4. NotProfiled' /\ KernelReplayed'
    BY <2>1, <2>2 DEF NotProfiled, KernelReplayed, InstrPhases
  <2>5. RunAhead'
    BY <2>1 DEF RunAhead, RecordAhead, Early
  <2>6. AppReplayed'
    BY <2>1, <2>2, <2>5 DEF AppReplayed
  <2> QED BY <1>2, <2>3, <2>4, <2>6 DEF ReplayInv
<1>4. CASE InitParamFails(k, ops)
  <2>1. /\ pc' = "done" /\ run'.clean /\ ~launch'.prof
        /\ mem' = [s \in Sections |-> IF s \in ops THEN mem[s] + 1 ELSE mem[s]]
    BY <1>4 DEF InitParamFails, NoRun
  <2>2. OnResult'
    BY <1>1, <2>1 DEF OnResult
  <2>3. StaleFlags' /\ EarlyRuns' /\ RunsReadInput'
    BY <2>1 DEF StaleFlags, EarlyRuns, RunsReadInput, BeforeInit, InstrPhases
  <2>4. NotProfiled' /\ KernelReplayed' /\ AppReplayed'
    BY <2>1, <2>2 DEF NotProfiled, KernelReplayed, AppReplayed, Sound, InstrPhases
  <2> QED BY <1>2, <2>3, <2>4 DEF ReplayInv
<1> QED BY <1>3, <1>4

\* The other thread leaves the operands and their snapshots alone: a new block
\* is none of them, and those of a running launch are neither freed nor written.
LEMMA ReplayOther ==
    ASSUME KeptInv, RecordInv, ReplayInv, NEW s \in Sections,
           Malloc(s) \/ Free(s) \/ HostWrite(s)
    PROVE  ReplayInv'
<1>1. UNCHANGED <<cfg, pc, count, launch, lccl, mc2, failed, run>>
  BY DEF Malloc, Free, HostWrite, OtherStep, settings, history
<1>2. /\ Fused' = Fused
      /\ AppReplay' <=> AppReplay
      /\ InputLost' <=> InputLost
  BY <1>1 DEF Fused, AppReplay, InputLost
<1>3. AllTracked'
  <2>1. CASE Malloc(s)
    BY <1>2, <2>1 DEF ReplayInv, AllTracked, Malloc, AppendSection, OtherStep
  <2>2. CASE Free(s)
    BY <1>2, <2>2 DEF ReplayInv, AllTracked, Free, DiscardSection, OtherStep
  <2>3. CASE HostWrite(s)
    BY <1>2, <2>3 DEF ReplayInv, AllTracked, HostWrite, OtherStep
  <2> QED BY <2>1, <2>2, <2>3
<1>4. pc # "idle" => s \notin launch.operands
  BY DEF Malloc, Free, HostWrite, Busy, KeptInv, BlocksOK
<1>5. pc # "idle" => /\ OnInput' <=> OnInput
                     /\ OnResult' <=> OnResult
                     /\ SavedInput' <=> SavedInput
  <2>1. SUFFICES ASSUME pc # "idle"
                 PROVE  /\ OnInput' <=> OnInput
                        /\ OnResult' <=> OnResult
                        /\ SavedInput' <=> SavedInput
    OBVIOUS
  <2>2. launch.operands \subseteq Sections
    BY DEF RecordInv, LaunchOK
  <2>3. \A x \in launch.operands : mem'[x] = mem[x]
    BY <1>4, <2>1, <2>2 DEF Malloc, Free, HostWrite, RecordInv, ContentsOK
  <2>4. \A x \in launch.operands : /\ x \in DOMAIN snap' <=> x \in DOMAIN snap
                                   /\ x \in DOMAIN snap => snap'[x] = snap[x]
    BY <1>4, <2>1 DEF Malloc, Free, HostWrite, AppendSection, DiscardSection
  <2>5. SavedInput' <=> SavedInput
    <3>1. launch'.operands = launch.operands /\ launch'.input = launch.input
      BY <1>1
    <3>2. \A x \in launch.operands :
              (x \in DOMAIN snap' /\ snap'[x] = launch.input[x])
                <=> (x \in DOMAIN snap /\ snap[x] = launch.input[x])
      BY <2>4
    <3> QED BY <3>1, <3>2, Zenon DEF SavedInput
  <2>6. (OnInput' <=> OnInput) /\ (OnResult' <=> OnResult)
    BY <1>1, <2>3 DEF OnInput, OnResult
  <2> QED BY <2>5, <2>6
<1>6. StaleFlags' /\ EarlyRuns' /\ RunsReadInput'
  BY <1>1, <1>2 DEF ReplayInv, StaleFlags, EarlyRuns, RunsReadInput
<1>7. NotProfiled'
  BY <1>1, <1>2, <1>5 DEF ReplayInv, NotProfiled
<1>8. Sound' <=> Sound
  BY <1>1, <1>2 DEF Sound
<1>9. KernelReplayed'
  BY <1>1, <1>2, <1>5, <1>8 DEF ReplayInv, KernelReplayed, InputPhase, Sound
<1>10. AppReplayed'
  <2>1. RunAhead' <=> RunAhead
    BY <1>1 DEF RunAhead, RecordAhead
  <2> QED BY <1>1, <1>2, <1>5, <1>8, <2>1 DEF ReplayInv, AppReplayed, Sound
<1> QED BY <1>3, <1>6, <1>7, <1>9, <1>10 DEF ReplayInv

\* At the start no launch is running and kernel replay has recorded every block.
LEMMA ReplayInit == Init => ReplayInv
<1> SUFFICES ASSUME Init PROVE ReplayInv
  OBVIOUS
<1>1. /\ pc = "idle" /\ ~launch.prof /\ run.what = "none" /\ alloc = Sections
      /\ tracked = IF cfg.mode = "kernel" THEN Sections ELSE {}
      /\ cfg \in Configs
  BY DEF Init, NoLaunch, NoRun
<1>2. AllTracked
  BY <1>1, LaunchAssumption DEF AllTracked, AppReplay
<1> QED
  BY <1>1, <1>2
  DEF ReplayInv, StaleFlags, EarlyRuns, NotProfiled, KernelReplayed, AppReplayed, Sound,
      RunsReadInput, BeforeInit, InstrPhases

\* ReplayInv is inductive, given the invariants of the blocks and the records.
LEMMA ReplayNext == KeptInv /\ RecordInv /\ ReplayInv /\ [Next]_vars => ReplayInv'
<1> SUFFICES ASSUME KeptInv, RecordInv, ReplayInv, [Next]_vars PROVE ReplayInv'
  OBVIOUS
<1>1. CASE QuietPhase \/ Return
  BY <1>1, ReplayInstrSkip, ReplayInstrPrepare, ReplayInstrStartFails, ReplayInstrEnd,
     ReplayProfInit, ReplayWarmUpEnd, ReplayBBCountSkip, ReplayBBCountReplaceFails,
     ReplayBBCountTask, ReplayCallSkipsOrigin, ReplayCallFails, ReplayGenBBcountFile,
     ReplayRecordSkip, ReplayPost, ReplayReturn
  DEF QuietPhase
<1>2. CASE RunPhase \/ InstrBackup \/ ProfData
  BY <1>2, ReplayInstrWarmUp, ReplayInstrRun, ReplayMC2WarmUp, ReplayWarmUp,
     ReplayReplayOnce, ReplayKernelReplayEnd, ReplayCallOrigin, ReplayRecordPrepare,
     ReplayRecordRun, ReplayInstrBackup, ReplayProfData
  DEF RunPhase
<1>3. CASE \E k \in Kernels, prof \in BOOLEAN, ops \in SUBSET Sections :
               InitParam(k, prof, ops)
  BY <1>3, ReplayInitParam
<1>4. CASE \E k \in Kernels, ops \in SUBSET Sections : InitParamFails(k, ops)
  BY <1>4, ReplayInitParam
<1>5. CASE \E s \in Sections : Malloc(s) \/ Free(s) \/ HostWrite(s)
  BY <1>5, ReplayOther
<1>6. CASE UNCHANGED vars
  <2>1. /\ OnInput' <=> OnInput
        /\ OnResult' <=> OnResult
        /\ SavedInput' <=> SavedInput
        /\ Fused' = Fused
        /\ AppReplay' <=> AppReplay
        /\ InputLost' <=> InputLost
        /\ RunAhead' <=> RunAhead
    BY <1>6
    DEF vars, OnInput, OnResult, SavedInput, Fused, AppReplay, InputLost, RunAhead, RecordAhead
  <2> QED
    BY <1>6, <2>1
    DEF vars, ReplayInv, StaleFlags, EarlyRuns, AllTracked, NotProfiled, KernelReplayed,
        InputPhase, AppReplayed, Sound, RunsReadInput
<1> QED
  BY <1>1, <1>2, <1>3, <1>4, <1>5, <1>6 DEF Next, LaunchStep, QuietPhase, RunPhase

\* The three invariants hold together in every reachable state.
LEMMA ProfInvariants == Spec => [](KeptInv /\ RecordInv /\ ReplayInv)
BY KeptInit, KeptNext, RecordInit, RecordNext, ReplayInit, ReplayNext, PTL DEF Spec

\* Every run that is measured, recorded or kept reads the input the application
\* launched the kernel with, however often WarmUp, ReplayOnce and
\* RunDbiRecordTask ran it before and whichever blocks an earlier Restore could
\* not copy, as long as the last one before the run copied the operands: what
\* MemoryContext puts back is the input, and no step of another thread changes it
\* in between.
THEOREM RunsReadTheInput == Spec => []RunsReadInput
<1>1. ReplayInv => RunsReadInput
  BY DEF ReplayInv
<1> QED BY <1>1, ProfInvariants, PTL

\* A launch that succeeded leaves the effect of exactly one run of the kernel,
\* for any number of replayed rounds, warm-ups and record tasks, in kernel replay
\* and in application replay, unless the last Restore of it left an operand out.
THEOREM LaunchLeavesOneRun == Spec => []OneRunLeft
<1>1. KeptInv /\ RecordInv /\ ReplayInv => OneRunLeft
  <2>1. SUFFICES ASSUME RecordInv, ReplayInv, pc = "done", launch.ret, ~Fused,
                        AppReplay => /\ failed = {}
                                     /\ ~("START" \in cfg.flags /\ launch.prof /\ ~launch.simt),
                        InputLost \/ {"record", "restore"} \cap failed # {} => ~launch.prof
                 PROVE  OnResult
    BY DEF OneRunLeft, OnResult
  <2>2. CASE ~launch.prof
    BY <2>1, <2>2 DEF ReplayInv, NotProfiled
  <2>3. CASE launch.prof
    <3>1. Sound /\ {"record", "restore"} \cap failed = {}
      BY <2>1, <2>3 DEF Sound
    <3>2. CASE ~AppReplay
      BY <2>1, <3>1, <3>2 DEF ReplayInv, KernelReplayed, InputPhase
    <3>3. CASE AppReplay
      <4>1. cfg.flags \subseteq Tasks
        BY <2>1, SettingsForm DEF RecordInv
      <4>2. ~RunAhead
        BY <2>1, <4>1 DEF RunAhead, RecordAhead, Early, Tasks
      <4> QED BY <2>1, <2>3, <3>1, <3>3, <4>2 DEF ReplayInv, AppReplayed
    <3> QED BY <3>2, <3>3
  <2> QED BY <2>2, <2>3 DEF RecordInv, LaunchOK
<1> QED BY <1>1, ProfInvariants, PTL
===============================================================================
