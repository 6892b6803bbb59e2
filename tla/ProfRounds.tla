----------------------------- MODULE ProfRounds -----------------------------
(***************************************************************************)
(* Collecting the data of profiled launches on several devices.  On each   *)
(* device a thread of the application launches kernels; for every launch   *)
(* DataCollectInDevice runs the kernel instrumented for PC sampling and    *)
(* for the timeline, then once per set of counters.  Every such run opens  *)
(* channels (ProfTask), starts a thread that reads them into files, runs   *)
(* the kernel, closes the channels, and joins the reader.                  *)
(*                                                                         *)
(* The driver has one poll for all channels of the process: a reader also  *)
(* gets the data of the other devices.  It looks up the directory and the  *)
(* round of the data's device, and asks its own task for the phase of the  *)
(* instruction profiler, when it writes, not when the data were measured.  *)
(*                                                                         *)
(* In range replay the launches between the start and the end of an MSTX   *)
(* range are captured instead, and the end of the range runs what was      *)
(* captured, once per set of counters.                                     *)
(*                                                                         *)
(* ProfLaunch has what these runs do to the memory of the device; here     *)
(* they only produce data.  Data of a stopped channel can be read until    *)
(* the round's reader has been joined, and are gone then.                  *)
(***************************************************************************)
EXTENDS ProfTask

CONSTANTS
    Devices,      \* the devices
    Setups,       \* what is considered: settings, launches per device, kernel, signal
    MaxFaults     \* bound on the failures of a behaviour

ASSUME RoundsAssumption ==
    /\ Setups \subseteq [settings : Settings, launches : [Devices -> Nat],
                         simt : BOOLEAN, mc2 : BOOLEAN, signal : BOOLEAN, range : BOOLEAN]
    /\ \A s \in Setups : ~(s.range /\ s.settings.app)   \* one replayMode
    /\ MaxFaults \in Nat

VARIABLES
    setup,     \* ProfConfig, the same for all devices, and the application
    th,        \* the launching threads
    rng,       \* their MSTX range and what it has captured
    task,      \* their ProfTask
    reader,    \* the thread in ChannelRead of each
    path,      \* deviceOutputPathMap_: the launch whose directory is used
    count,     \* deviceReplayCountMap_
    open,      \* the channels the driver has open
    data,      \* what the driver holds for the readers
    buffers,   \* the blocks that clear the L2 cache, as L2cacheParam and really
    sig,       \* g_receiveSignal
    faults,    \* failures left
    files,     \* history: what each reader wrote in this turn of its loop
    measured   \* history: the runs of the current launch and their channels

vars == <<setup, th, rng, task, reader, path, count, open, data, buffers, sig, faults,
          files, measured>>

cfg == setup.settings

L2Blocks == <<"buffer", "flushBuffer", "cmoBuffer", "l2Buffer", "blockLen">>

\* What a run is for; n is the round.
Run(what, n) == [what |-> what, n |-> n]
NoRun == Run("none", 0)

\* launch numbers the directories; what says what has filled the last one.
IdleThread == [pc |-> "idle", launch |-> 0, what |-> "none", todo |-> << >>, run |-> NoRun,
               failed |-> FALSE]

\* RangeReplayConfig with the MSTX range of its thread: flag says that a capture
\* has begun, selected that some captured kernel has a directory; pending is
\* history, the captured kernels that have not run yet.
NoRange == [in |-> FALSE, nested |-> FALSE, flag |-> FALSE, selected |-> FALSE, pending |-> 0]
NoReader == [pc |-> "none", todo |-> {}, got |-> {}]
NoBuffers == [held |-> {}, live |-> {}, twice |-> {}]

Init ==
    /\ setup \in Setups
    /\ th = [d \in Devices |-> IdleThread]
    /\ rng = [d \in Devices |-> NoRange]
    /\ task = [d \in Devices |-> Create(cfg)]
    /\ reader = [d \in Devices |-> NoReader]
    /\ path = [d \in Devices |-> 0]
    /\ count = [d \in Devices |-> 0]
    /\ open = [d \in Devices |-> {}]
    /\ data = {}
    /\ buffers = [d \in Devices |-> NoBuffers]
    /\ sig = FALSE
    /\ faults = MaxFaults
    /\ files = [d \in Devices |-> {}]
    /\ measured = [d \in Devices |-> {}]

(***************************************************************************)
(* The launch.  ProfPreForInstrProf runs InstrProfData for PC sampling and *)
(* the timeline, then ProfData, of which KernelReplay is the part that     *)
(* measures.  In application replay with an instrumentation there is no    *)
(* KernelReplay.                                                           *)
(***************************************************************************)
InstrRuns ==
    (IF cfg.pcSampling /\ setup.simt THEN <<Run("pcSampling", 0)>> ELSE << >>)
    \o (IF cfg.timeline THEN <<Run("timeline", 0)>> ELSE << >>)

IsDbi == cfg.app /\ (cfg.pcSampling \/ cfg.timeline)

\* DataCollectInDevice is made: the directory of the launch, a task of its own.
Launch(d) ==
    /\ ~setup.range
    /\ th[d].pc = "idle" /\ th[d].launch < setup.launches[d]
    /\ th' = [th EXCEPT ![d] = [IdleThread EXCEPT !.pc = "next", !.launch = th[d].launch + 1,
                                    !.what = "launch",
                                    !.todo = InstrRuns \o (IF IsDbi THEN << >>
                                                              ELSE <<Run("prepare", 0)>>)]]
    /\ task' = [task EXCEPT ![d] = Create(cfg)]
    /\ path' = [path EXCEPT ![d] = th[d].launch + 1]
    /\ measured' = [measured EXCEPT ![d] = {}]
    /\ buffers' = [buffers EXCEPT ![d] = NoBuffers]
    /\ UNCHANGED <<setup, rng, reader, count, open, data, sig, faults, files>>

\* An instrumented kernel that cannot be made, a backup or a restore that fails:
\* the run does not take place, the next one does.
RunSkipped(d) ==
    /\ th[d].pc = "next" /\ th[d].todo # << >>
    /\ Head(th[d].todo).what # "prepare"
    /\ faults > 0 /\ faults' = faults - 1
    /\ th' = [th EXCEPT ![d].todo = Tail(@), ![d].failed = TRUE]
    /\ UNCHANGED <<setup, rng, task, reader, path, count, open, data, buffers, sig, files, measured>>

\* SupportProfL2CacheEvict: the L2 events are counted in a round of their own.
SupportProfL2CacheEvict == cfg.chip = "910B" /\ cfg.aic /\ cfg.aiv /\ cfg.l2

\* ReplayOnce skips a round without events, except the first.
IsPmuEventEmpty(n) == n >= cfg.sets

\* The rounds of a replay: the sets with events, and the first in any case.
ReplayRounds ==
    LET replay == {n \in 0 .. SetLimit - 1 : n = 0 \/ ~IsPmuEventEmpty(n)}
    IN  [i \in 1 .. Cardinality(replay) |-> Run("round", i - 1)]

Rounds ==
    LET one == IF cfg.first < SetLimit /\ (cfg.first = 0 \/ ~IsPmuEventEmpty(cfg.first))
               THEN <<Run("round", cfg.first)>> ELSE << >>
    IN  IF cfg.app
        THEN IF SupportProfL2CacheEvict THEN <<Run("evict", cfg.first)>> ELSE one
        ELSE (IF SupportProfL2CacheEvict THEN <<Run("evict", 0)>> ELSE << >>) \o ReplayRounds

\* PrepareClearL2CacheParam got so many of its blocks.  When a later step fails
\* it frees l2Buffer and blockLen, but L2cacheParam still points to them.
Prepared(n) ==
    [held |-> {L2Blocks[i] : i \in 1 .. n}, twice |-> {},
     live |-> {L2Blocks[i] : i \in 1 .. n}]
PreparedFails(n) == [Prepared(n) EXCEPT !.live = @ \ {"l2Buffer", "blockLen"}]

\* KernelReplay begins: blocks to clear the L2 cache with, in kernel replay, and
\* the rounds.
KernelReplay(d) ==
    /\ th[d].pc = "next" /\ th[d].todo = <<Run("prepare", 0)>>
    /\ \/ /\ buffers' = [buffers EXCEPT ![d] = IF cfg.app THEN NoBuffers
                                               ELSE Prepared(Len(L2Blocks))]
          /\ UNCHANGED faults
       \/ /\ ~cfg.app /\ faults > 0 /\ faults' = faults - 1
          /\ \E n \in 0 .. Len(L2Blocks) :
               buffers' = [buffers EXCEPT ![d] = PreparedFails(n)]
    /\ th' = [th EXCEPT ![d].todo = IF th[d].what = "range" THEN ReplayRounds ELSE Rounds]
    /\ UNCHANGED <<setup, rng, task, reader, path, count, open, data, sig, files, measured>>

(***************************************************************************)
(* Range replay.                                                           *)
(***************************************************************************)
IsInMstxRange(d) == rng[d].in

\* MstxRangeAdd: a range inside another is noted as invalid and has no effect.
MstxRangeAdd(d) ==
    /\ setup.range /\ th[d].pc = "idle"
    /\ \/ /\ ~IsInMstxRange(d) /\ th[d].launch < setup.launches[d]
          /\ rng' = [rng EXCEPT ![d] = [NoRange EXCEPT !.in = TRUE, !.nested = rng[d].nested]]
          /\ th' = [th EXCEPT ![d].what = "none", ![d].failed = FALSE]
       \/ /\ IsInMstxRange(d) /\ ~rng[d].nested
          /\ rng' = [rng EXCEPT ![d].nested = TRUE]
          /\ UNCHANGED th
    /\ UNCHANGED <<setup, task, reader, path, count, open, data, buffers, sig, faults, files,
                   measured>>

\* A launch in a range: the first begins the capture, and all are captured, not
\* run; the tool gives a directory to the kernels it selects.  When the capture
\* cannot begin the kernel runs.
RangeReplayProfData(d) ==
    /\ setup.range /\ IsInMstxRange(d) /\ th[d].pc = "idle" /\ th[d].launch < setup.launches[d]
    /\ \E selected \in BOOLEAN :
         /\ th' = [th EXCEPT ![d].launch = @ + 1]
         /\ path' = [path EXCEPT ![d] = IF selected THEN th[d].launch + 1 ELSE 0]
         /\ \/ /\ rng' = [rng EXCEPT ![d].flag = TRUE, ![d].selected = @ \/ selected,
                                     ![d].pending = @ + 1]
               /\ UNCHANGED faults
            \/ /\ ~rng[d].flag /\ faults > 0 /\ faults' = faults - 1
               /\ UNCHANGED rng
    /\ UNCHANGED <<setup, task, reader, count, open, data, buffers, sig, files, measured>>

\* MstxRangeEnd of an invalid range.
NestedEnd(d) ==
    /\ rng[d].nested /\ th[d].pc = "idle"
    /\ rng' = [rng EXCEPT ![d].nested = FALSE]
    /\ UNCHANGED <<setup, th, task, reader, path, count, open, data, buffers, sig, faults,
                   files, measured>>

\* RangeReplayInit: a range with a selected kernel is replayed in a directory of
\* its own, if that can be made; any other is not replayed.
RangeReplayInit(d) ==
    \/ /\ rng[d].selected
       /\ th' = [th EXCEPT ![d].pc = "next", ![d].launch = @ + 1, ![d].what = "range",
                           ![d].todo = <<Run("prepare", 0)>>]
       /\ path' = [path EXCEPT ![d] = th[d].launch + 1]
       /\ UNCHANGED faults
    \/ /\ ~rng[d].selected
       /\ UNCHANGED <<th, path, faults>>

\* MstxRangeEnd: the capture ends and is replayed, unless there is none, or it
\* or the directory fails.  The model is destroyed in any case.
MstxRangeEnd(d) ==
    /\ IsInMstxRange(d) /\ th[d].pc = "idle"
    /\ rng' = [rng EXCEPT ![d].in = FALSE, ![d].flag = FALSE]
    /\ task' = [task EXCEPT ![d] = Create(cfg)]
    /\ measured' = [measured EXCEPT ![d] = {}]
    /\ buffers' = [buffers EXCEPT ![d] = NoBuffers]
    /\ \/ rng[d].flag /\ RangeReplayInit(d)
       \/ ~rng[d].flag /\ UNCHANGED <<th, path, faults>>
       \/ /\ rng[d].flag /\ faults > 0 /\ faults' = faults - 1
          /\ th' = [th EXCEPT ![d].failed = TRUE]
          /\ UNCHANGED path
    /\ UNCHANGED <<setup, reader, count, open, data, sig, files>>

\* RangeReplayOnce executes the captured model: all that was captured runs.
RangeReplayOnce(d) == rng' = [rng EXCEPT ![d].pending = 0]

(***************************************************************************)
(* One run: StartProf, the kernel, StopProf, join.                         *)
(***************************************************************************)
ToSet(s) == {s[i] : i \in 1 .. Len(s)}

\* The signal ends the rounds, not the runs that come before them.
Stopped(d) == sig /\ \A r \in ToSet(th[d].todo) : r.what = "round"

Opens(d, r) == Start(task[d], cfg, r.n, setup.simt, setup.mc2)

Names(opened) == {o.channel : o \in opened}

\* What stays open when these channels are closed.
Closed(opened, channels) == {o \in opened : o.channel \notin channels}

\* StartProf opens the channels, notes the round, and starts the reader.
StartProf(d) ==
    /\ th[d].pc = "next" /\ th[d].todo # << >> /\ ~Stopped(d)
    /\ LET r == Head(th[d].todo)
           opened == ToSet(Opens(d, r))
       IN  /\ r.what # "prepare"
           /\ ~RefusesRound(task[d], cfg, r.n, setup.simt)
           /\ task' = [task EXCEPT ![d] = AfterStart(@, cfg, r.n, setup.simt, Names(opened))]
           /\ open' = [open EXCEPT ![d] = Closed(@, Names(opened)) \cup opened]
           /\ count' = [count EXCEPT ![d] = r.n]
           /\ th' = [th EXCEPT ![d].pc = "started", ![d].run = r, ![d].todo = Tail(@)]
    /\ reader' = [reader EXCEPT ![d] = [NoReader EXCEPT !.pc = "poll"]]
    /\ UNCHANGED <<setup, rng, path, data, buffers, sig, faults, files, measured>>

\* A channel that does not open, those before it being open, or a round with no
\* set left: StopProf is called, there is no reader and no run.
StartProfFails(d) ==
    /\ th[d].pc = "next" /\ th[d].todo # << >> /\ ~Stopped(d)
    /\ LET r == Head(th[d].todo)
       IN  /\ r.what # "prepare"
           /\ \E n \in 0 .. Len(Opens(d, r)) :
                LET opened == ToSet(SubSeq(Opens(d, r), 1, n))
                    after == AfterStart(task[d], cfg, r.n, setup.simt, Names(opened))
                IN  /\ \/ RefusesRound(task[d], cfg, r.n, setup.simt) /\ UNCHANGED faults
                       \/ n < Len(Opens(d, r)) /\ faults > 0 /\ faults' = faults - 1
                    /\ task' = [task EXCEPT ![d] = AfterStop(after, cfg)]
                    /\ open' = [open EXCEPT ![d] = Closed(Closed(@, Names(opened)) \cup opened,
                                                        Stop(after, cfg, setup.mc2))]
    /\ th' = [th EXCEPT ![d].todo = Tail(@), ![d].failed = TRUE]
    /\ UNCHANGED <<setup, rng, reader, path, count, data, buffers, sig, files, measured>>

\* The kernel has run, if it could be launched, and every open channel of its
\* device has data of the run.
KernelRun(d) ==
    /\ th[d].pc = "started"
    /\ \/ /\ data' = data \cup {[dev |-> d, of |-> o, launch |-> th[d].launch] : o \in open[d]}
          /\ measured' = [measured EXCEPT ![d] = @ \cup {[run |-> th[d].run, open |-> open[d]]}]
          /\ th' = [th EXCEPT ![d].pc = "ran"]
          /\ RangeReplayOnce(d)
          /\ UNCHANGED faults
       \/ /\ faults > 0 /\ faults' = faults - 1
          /\ th' = [th EXCEPT ![d].pc = "ran", ![d].failed = TRUE]
          /\ UNCHANGED <<data, measured, rng>>
    /\ UNCHANGED <<setup, task, reader, path, count, open, buffers, sig, files>>

StopProf(d) ==
    /\ th[d].pc = "ran"
    /\ task' = [task EXCEPT ![d] = AfterStop(@, cfg)]
    /\ open' = [open EXCEPT ![d] = Closed(@, Stop(task[d], cfg, setup.mc2))]
    /\ th' = [th EXCEPT ![d].pc = "join"]
    /\ UNCHANGED <<setup, rng, reader, path, count, data, buffers, sig, faults, files, measured>>

\* Mutant: the thread does not wait for its reader.
JoinReaderNot(d) ==
    /\ th[d].pc = "join"
    /\ th' = [th EXCEPT ![d].pc = "next", ![d].run = NoRun]
    /\ UNCHANGED <<setup, rng, task, reader, path, count, open, data, buffers, sig, faults, files,
                   measured>>

JoinReader(d) ==
    /\ th[d].pc = "join" /\ reader[d].pc = "ended"
    /\ reader' = [reader EXCEPT ![d] = NoReader]
    /\ data' = {b \in data : b.dev = d => b.of.channel \in Names(open[d])}
    /\ th' = [th EXCEPT ![d].pc = "next", ![d].run = NoRun]
    /\ UNCHANGED <<setup, rng, task, path, count, open, buffers, sig, faults, files, measured>>

\* FreeL2Cache frees every block L2cacheParam points to.
LaunchEnds(d) ==
    /\ th[d].pc = "next" /\ (th[d].todo = << >> \/ Stopped(d))
    /\ th' = [th EXCEPT ![d].pc = "idle", ![d].todo = << >>]
    /\ buffers' = [buffers EXCEPT ![d] = [held |-> {}, live |-> @.live \ @.held,
                                          twice |-> @.held \ @.live]]
    /\ UNCHANGED <<setup, rng, task, reader, path, count, open, data, sig, faults, files, measured>>

\* HandleSigInt: the remaining rounds of every launch are left out.
SigInt ==
    /\ setup.signal /\ ~sig /\ sig' = TRUE
    /\ UNCHANGED <<setup, rng, th, task, reader, path, count, open, data, buffers, faults, files,
                   measured>>

(***************************************************************************)
(* ChannelRead.                                                            *)
(***************************************************************************)
\* The poll returns the channels of all devices that have data, or times out.
Poll(d) ==
    /\ reader[d].pc = "poll"
    /\ reader' = [reader EXCEPT ![d].pc = "handle",
                                ![d].todo = {<<b.dev, b.of.channel>> : b \in data}]
    /\ UNCHANGED <<setup, rng, th, task, path, count, open, data, buffers, sig, faults, files, measured>>

\* The channels are read in the order the poll gave them.  Another reader may
\* have been faster: then there is nothing to write.
ReadChannel(d) ==
    /\ reader[d].pc = "handle" /\ reader[d].got = {} /\ reader[d].todo # {}
    /\ LET x == CHOOSE y \in reader[d].todo : TRUE
           blocks == {b \in data : <<b.dev, b.of.channel>> = x}
       IN  /\ reader' = [reader EXCEPT ![d].todo = @ \ {x}, ![d].got = blocks]
           /\ data' = data \ blocks
    /\ UNCHANGED <<setup, rng, th, task, path, count, open, buffers, sig, faults, files, measured>>

\* The directory and the round are looked up by the device of the data.
Target(d, b) ==
    [dir |-> path[b.dev], file |-> FileOf(task[d], b.of.channel), round |-> count[b.dev]]

WriteData(d) ==
    /\ reader[d].pc = "handle" /\ reader[d].got # {}
    /\ files' = [files EXCEPT ![d] = {[block |-> b, to |-> Target(d, b), own |-> b.dev = d,
                                       late |-> ~task[d].running] : b \in reader[d].got}]
    /\ reader' = [reader EXCEPT ![d].got = {}]
    /\ UNCHANGED <<setup, rng, th, task, path, count, open, data, buffers, sig, faults, measured>>

\* The loop goes round while the task runs.
ReaderLoop(d) ==
    /\ reader[d].pc = "handle" /\ reader[d].todo = {} /\ reader[d].got = {}
    /\ reader' = [reader EXCEPT ![d].pc = IF task[d].running THEN "poll" ELSE "ended"]
    /\ files' = [files EXCEPT ![d] = {}]
    /\ UNCHANGED <<setup, rng, th, task, path, count, open, data, buffers, sig, faults, measured>>

ThreadStep(d) ==
    \/ RunSkipped(d) \/ KernelReplay(d)
    \/ StartProf(d) \/ StartProfFails(d) \/ KernelRun(d) \/ StopProf(d)
    \/ JoinReader(d) \/ LaunchEnds(d)

ReaderStep(d) ==
    Poll(d) \/ ReadChannel(d) \/ WriteData(d) \/ ReaderLoop(d)

Next ==
    \/ \E d \in Devices : Launch(d) \/ ThreadStep(d) \/ ReaderStep(d)
    \/ \E d \in Devices : MstxRangeAdd(d) \/ RangeReplayProfData(d) \/ NestedEnd(d)
                           \/ MstxRangeEnd(d)
    \/ SigInt

\* The threads are scheduled, and a poll returns after its second at the latest.
Fairness == \A d \in Devices : WF_vars(ThreadStep(d)) /\ WF_vars(ReaderStep(d))

Spec == Init /\ [][Next]_vars /\ Fairness
-----------------------------------------------------------------------------
\* The counters of a round end in the file of that round, in the directory of
\* their launch, although the reader asks for both only when it writes: the
\* round is advanced after the reader has been joined (ReplayOnce).  The same
\* holds for the durations and the L2 events.  Data that the reader of another
\* device happened to take are excepted, nobody waits for that reader; and those
\* of the AICPU channel, which a launch whose last round did not start leaves
\* open for the next launch.
CountersInOwnFile ==
    \A d \in Devices : \A f \in files[d] :
      f.own /\ f.block.of.channel \notin {"INSTR", "AICPU"} =>
        /\ f.to.dir = f.block.launch
        /\ f.to.file = "DeviceProf" => f.to.round = f.block.of.set

\* Samples and timeline of the instruction profiler are kept apart, as the state
\* machine of the task means them to be: the file is that of the mode the
\* channels were opened in, also when the run for PC sampling was left out and
\* the task makes up for it in the run for the timeline.  Excepted is what the
\* device's own reader still writes after Stop has moved the state, and what
\* another reader takes.
SamplesInOwnFile ==
    \A d \in Devices : \A f \in files[d] : f.own /\ f.block.of.channel = "INSTR" =>
        \/ /\ f.to.dir = f.block.launch
           /\ f.to.file = IF f.block.of.mode = "PC_SAMPLING" THEN "pcSampling" ELSE "timeline"
        \/ f.late

\* 910B: with L2 events, but not events for both cores, or in range replay, the
\* first round counts L2 events only.
L2TakesRound == cfg.chip = "910B" /\ cfg.l2 /\ (setup.range \/ ~SupportProfL2CacheEvict)

\* 310P: in the last set the aiv events are taken for a set that follows, and
\* the channel of the counters opens only for a set with aic events, or the first.
ReadsPastSets == cfg.chip = "310P" /\ cfg.sets = SetLimit /\ cfg.aiv
SkipsVectorSets == cfg.chip = "310P" /\ ~cfg.aic /\ cfg.sets > 1

\* A5: InstrProfData leaves range replay alone, but the task still takes the
\* first round of a range for its samples or its timeline.
InstrTakesRound ==
    cfg.chip = "A5" /\ setup.range /\ (cfg.timeline \/ (cfg.pcSampling /\ setup.simt))

\* The counters asked for can be measured, a set per round.
RoundPerSet ==
    /\ ~cfg.app /\ cfg.sets > 0
    /\ ~L2TakesRound /\ ~ReadsPastSets /\ ~SkipsVectorSets /\ ~InstrTakesRound

\* The set n was measured, and the durations with it if it is the last.
SetMeasured(d, n) ==
    \E m \in measured[d] :
        /\ m.run = Run("round", n)
        /\ \E o \in m.open : o.channel \in {"FFTS", "AICORE"} /\ o.set = n
        /\ (Names(m.open) \cap {"STARS", "HWTS"} # {}) = (n = cfg.sets - 1)

\* When a launch of kernel replay, or the replay of a range, is over and nothing
\* failed, every set of counters was measured, and the durations in the last round
\* and in no other.
LaunchMeasured ==
    \A d \in Devices :
        th[d].pc = "idle" /\ th[d].what \in {"launch", "range"} /\ ~th[d].failed /\ ~sig
          /\ RoundPerSet =>
            \A n \in 0 .. cfg.sets - 1 : SetMeasured(d, n)

\* Between two launches of a device nothing of the first is left: no channel is
\* open, no reader runs, no block of L2cacheParam is lost or freed twice.
\* Excepted are the AICPU channel, which only the last round closes, and the two
\* blocks that PrepareClearL2CacheParam frees itself when it fails.
NothingLeft ==
    \A d \in Devices : th[d].pc = "idle" =>
        /\ Names(open[d]) \subseteq (IF task[d].last THEN {} ELSE {"AICPU"})
        /\ reader[d].pc = "none"
        /\ buffers[d].live = {}
        /\ buffers[d].twice \subseteq {"l2Buffer", "blockLen"}

\* What was captured in a range has run once the range is over, although
\* capturing a launch does not run it, if nothing failed.  Excepted is a range
\* without a selected kernel: RangeReplayInit returns before the model is run.
CapturedKernelsRun ==
    \A d \in Devices :
        th[d].pc = "idle" /\ ~rng[d].in /\ ~th[d].failed /\ ~sig /\ rng[d].selected =>
            rng[d].pending = 0

\* Every launch returns: the reader that is joined notices that the task has
\* stopped.
LaunchReturns ==
    \A d \in Devices : th[d].pc # "idle" ~> th[d].pc = "idle"

\* What the readers write, counters and samples, goes where it belongs.
DataInOwnFile == CountersInOwnFile /\ SamplesInOwnFile

\* Neither a measurement nor a kernel run is missing once a launch or range is over.
RunsComplete == LaunchMeasured /\ CapturedKernelsRun
=============================================================================
