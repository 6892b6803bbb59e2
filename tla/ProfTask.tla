------------------------------ MODULE ProfTask ------------------------------
(***************************************************************************)
(* The tasks that drive the profiling channels of a device, one kind per   *)
(* chip.  A task lives as long as one profiled launch.  Start opens the    *)
(* channels of one kernel run, Stop closes them; what is opened depends on *)
(* the round, on the settings and on what earlier rounds left in the       *)
(* task's flags.  The contents of the parameter blocks handed to the       *)
(* driver are abstracted to the channel they open.                         *)
(*                                                                         *)
(* The hardware counters come in sets, one set per round.  The eighteen    *)
(* channels of the instruction profiler are one channel here, INSTR.  The  *)
(* HCCS channel has a task and a flag, but nothing starts it.              *)
(***************************************************************************)
EXTENDS Naturals, Sequences, FiniteSets

CONSTANTS
    SetLimit,     \* sets the configuration holds: EVENT_MAX_NUM / PMU_EVENT_MAX_NUM
    SetLimitA5    \* EVENT_MAX_NUM_A5 / PMU_EVENT_MAX_NUM_A5

ASSUME SetLimitAssumption == SetLimit \in Nat \ {0} /\ SetLimitA5 \in 1 .. SetLimit

Chips == {"310P", "910B", "A5"}
InstrProfState == {"IDLE", "PC_SAMPLING", "TIMELINE", "DONE"}

\* MessageOfProfConfig and ProfConfig as the tasks read them: sets counts the
\* sets with an event, aic and aiv say whether they have one for that core, l2
\* whether L2 events are asked for.
Settings ==
    {c \in [chip : Chips, sets : 0 .. SetLimit, aic : BOOLEAN, aiv : BOOLEAN, l2 : BOOLEAN,
            pcSampling : BOOLEAN, timeline : BOOLEAN, app : BOOLEAN, first : Nat] :
        /\ c.chip = "A5" => c.sets <= SetLimitA5
        /\ c.chip # "A5" => ~c.pcSampling /\ ~c.timeline
        /\ (c.sets = 0) = (~c.aic /\ ~c.aiv)}

Limit(c) == IF c.chip = "A5" THEN SetLimitA5 ELSE SetLimit

\* The fields of a task; log is isStarsStart_, isHwtsStart_ on 310P, l2Pmu what
\* is left of the task's copy of the L2 events.
Tasks == [state : InstrProfState, running : BOOLEAN, last : BOOLEAN, log : BOOLEAN,
          l2 : BOOLEAN, l2Pmu : BOOLEAN, aicore : BOOLEAN]

Create(c) == [state |-> "IDLE", running |-> FALSE, last |-> FALSE, log |-> FALSE,
              l2 |-> FALSE, l2Pmu |-> c.l2, aicore |-> FALSE]

\* Mutant: one set short.
NextEmptyEarly(c, round) == round + 2 >= c.sets

\* The set after this round's has no event, or there is none.
NextEmpty(c, round) == round + 1 >= c.sets

\* 310P looks at the aic events only and has no test for the last set: there it
\* reads on into the aiv events.
NextEmpty310P(c, round) ==
    IF round + 1 = SetLimit THEN ~c.aiv ELSE ~c.aic \/ round + 1 >= c.sets

(***************************************************************************)
(* Start.                                                                  *)
(***************************************************************************)
\* What the state machine of the instruction profiler is in once Start of an A5
\* task has chosen.
Chosen(t, c, simt) ==
    IF t.state = "IDLE" /\ c.pcSampling /\ simt THEN "PC_SAMPLING"
    ELSE IF t.state \in {"IDLE", "TIMELINE"} /\ c.timeline THEN "TIMELINE"
    ELSE t.state

OpensInstr(t, c, simt) == Chosen(t, c, simt) \in {"PC_SAMPLING", "TIMELINE"}

(***************************************************************************)
(* The parameters a channel is opened with, abstracted to what it will     *)
(* measure: the set of counters, or the mode of the instruction profiler.  *)
(***************************************************************************)
Opened(channel, set, mode) == [channel |-> channel, set |-> set, mode |-> mode]

FftsA5Task(round) == Opened("FFTS", round, "none")
FftsTask(round) == Opened("FFTS", round, "none")
AiCoreTask(round) == Opened("AICORE", round, "none")
StarsTask == Opened("STARS", 0, "none")
StarsTaskA5 == Opened("STARS", 0, "none")
HwtsTask == Opened("HWTS", 0, "none")
L2CacheTask == Opened("L2", 0, "none")
L2cacheEvict == Opened("L2", 0, "none")
AicpuTask == Opened("AICPU", 0, "none")
InstrProfTask(mode) == Opened("INSTR", 0, mode)

Option(cond, opened) == IF cond THEN <<opened>> ELSE << >>

\* PC sampling in the state of that name, the performance trace of the bus else.
Mode(state) == IF state = "PC_SAMPLING" THEN "PC_SAMPLING" ELSE "BIU_PERF"

StartA5(t, c, round, simt, mc2) ==
    IF OpensInstr(t, c, simt) THEN <<InstrProfTask(Mode(Chosen(t, c, simt)))>>
    ELSE IF round >= SetLimitA5 THEN << >>
    ELSE <<FftsA5Task(round)>>
         \o Option(~t.log /\ (t.last \/ NextEmpty(c, round)), StarsTaskA5)

\* The L2 events are taken in a start of their own, the first.
Start910B(t, c, round, simt, mc2) ==
    IF t.l2Pmu THEN Option(~t.l2, L2cacheEvict)
    ELSE IF round >= SetLimit THEN << >>
    ELSE <<FftsTask(round)>>
         \o Option(round = 0 /\ mc2, AicpuTask)
         \o Option(~t.log /\ (t.last \/ NextEmpty(c, round)), StarsTask)

Start310P(t, c, round, simt, mc2) ==
    IF round >= SetLimit THEN << >>
    ELSE Option((c.aic /\ round < c.sets) \/ round = 0, AiCoreTask(round))
         \o Option(~t.log /\ NextEmpty310P(c, round), HwtsTask)
         \o Option(round = 0 /\ t.l2Pmu, L2CacheTask)

\* What a start opens, in its order.
Start(t, c, round, simt, mc2) ==
    CASE c.chip = "A5" -> StartA5(t, c, round, simt, mc2)
      [] c.chip = "910B" -> Start910B(t, c, round, simt, mc2)
      [] c.chip = "310P" -> Start310P(t, c, round, simt, mc2)

\* No set is left for the round, and nothing else to open.
RefusesRound(t, c, round, simt) ==
    /\ ~(c.chip = "A5" /\ OpensInstr(t, c, simt))
    /\ ~(c.chip = "910B" /\ t.l2Pmu)
    /\ round >= Limit(c)

\* The task after a start that opened these channels, given by their names.
AfterStart(t, c, round, simt, opened) ==
    [t EXCEPT !.running = TRUE,
              !.state = IF c.chip = "A5" THEN Chosen(t, c, simt) ELSE t.state,
              !.last = t.last \/ ("FFTS" \in opened /\ NextEmpty(c, round)),
              !.log = t.log \/ opened \cap {"STARS", "HWTS"} # {},
              !.l2 = t.l2 \/ "L2" \in opened,
              !.l2Pmu = t.l2Pmu /\ c.chip # "910B",
              !.aicore = t.aicore \/ "AICORE" \in opened]

(***************************************************************************)
(* Stop.                                                                   *)
(***************************************************************************)
When(cond, channel) == IF cond THEN {channel} ELSE {}

\* Mutant: the instruction channels are stopped once the state has moved on.
StopA5Moved(t, c, mc2) ==
    {"FFTS"} \cup When(t.log, "STARS")
             \cup When(t.state = "PC_SAMPLING" /\ c.timeline, "INSTR")

StopA5(t, c, mc2) ==
    {"FFTS"} \cup When(t.log, "STARS")
             \cup When(t.state \in {"PC_SAMPLING", "TIMELINE"}, "INSTR")

Stop910B(t, c, mc2) ==
    {"FFTS"} \cup When(t.log, "STARS") \cup When(t.last /\ mc2, "AICPU")
             \cup When(t.l2, "L2")

Stop310P(t, c, mc2) ==
    When(t.aicore, "AICORE") \cup When(t.log, "HWTS") \cup When(t.l2, "L2")

\* The channels a stop closes.
Stop(t, c, mc2) ==
    CASE c.chip = "A5" -> StopA5(t, c, mc2)
      [] c.chip = "910B" -> Stop910B(t, c, mc2)
      [] c.chip = "310P" -> Stop310P(t, c, mc2)

\* Mutant: the reader is not told to end.
AfterStopRunning(t, c) == t

\* The state machine: PC sampling, then the timeline if it is wanted, then done.
AfterStop(t, c) ==
    [t EXCEPT !.running = FALSE,
              !.state = CASE t.state = "PC_SAMPLING" /\ c.timeline -> "TIMELINE"
                          [] t.state = "PC_SAMPLING" /\ ~c.timeline -> "DONE"
                          [] t.state = "TIMELINE" -> "DONE"
                          [] OTHER -> t.state]

(***************************************************************************)
(* The file the reader puts the data of a channel into.  The state of the  *)
(* reader's own task names the file of instruction data; outside both of   *)
(* its phases they are dropped.  Counters are named after the round the    *)
(* device is in.                                                           *)
(***************************************************************************)
WriteInstrChannelData(t) ==
    CASE t.state = "PC_SAMPLING" -> "pcSampling"
      [] t.state = "TIMELINE" -> "timeline"
      [] OTHER -> "dropped"

FileOf(t, channel) ==
    CASE channel \in {"FFTS", "AICORE"} -> "DeviceProf"
      [] channel \in {"STARS", "HWTS"} -> "duration"
      [] channel = "L2" -> "L2Cache"
      [] channel = "AICPU" -> "aicpu"
      [] channel = "INSTR" -> WriteInstrChannelData(t)
=============================================================================
