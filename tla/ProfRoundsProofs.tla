-------------------------- MODULE ProfRoundsProofs --------------------------
(***************************************************************************)
(* Proofs about ProfRounds: the data of the runs end in the files of their *)
(* launch and round, a launch or a range that did not fail has measured    *)
(* every set of counters and run every captured kernel, and leaves nothing *)
(* behind.                                                                 *)
(*                                                                         *)
(* Every action works on one device; readers of other devices only take    *)
(* data away.  The inductive invariant is therefore a conjunction over the *)
(* devices (DeviceInv), kept by a frame lemma for the devices an action    *)
(* does not touch (DeviceKept) and by one lemma per action for the one it  *)
(* does.                                                                   *)
(***************************************************************************)
EXTENDS ProfRounds, FiniteSetTheorems, TLAPS

-----------------------------------------------------------------------------
(* Types. *)

Channels == {"FFTS", "AICORE", "STARS", "HWTS", "L2", "AICPU", "INSTR"}
RunKinds == {"none", "pcSampling", "timeline", "prepare", "evict", "round"}
Runs == [what : RunKinds, n : Nat]
Thread == [pc : {"idle", "next", "started", "ran", "join"}, launch : Nat,
           what : {"none", "launch", "range"}, todo : Seq(Runs), run : Runs, failed : BOOLEAN]
RangeRec == [in : BOOLEAN, nested : BOOLEAN, flag : BOOLEAN, selected : BOOLEAN, pending : Nat]
OpenRec == [channel : Channels, set : Nat, mode : {"none", "PC_SAMPLING", "BIU_PERF"}]
Block == [dev : Devices, of : OpenRec, launch : Nat]
ReaderRec == [pc : {"none", "poll", "handle", "ended"}, todo : SUBSET (Devices \X Channels),
              got : SUBSET Block]
FileNames == {"DeviceProf", "duration", "L2Cache", "aicpu", "pcSampling", "timeline", "dropped"}
FileRec == [block : Block, to : [dir : Nat, file : FileNames, round : Nat], own : BOOLEAN,
            late : BOOLEAN]
Measure == [run : Runs, open : SUBSET OpenRec]
AllBlocks == {L2Blocks[i] : i \in 1 .. Len(L2Blocks)}
BufferRec == [held : SUBSET AllBlocks, live : SUBSET AllBlocks, twice : SUBSET AllBlocks]

TypeOK ==
    /\ setup \in Setups
    /\ th \in [Devices -> Thread] /\ rng \in [Devices -> RangeRec] /\ task \in [Devices -> Tasks]
    /\ reader \in [Devices -> ReaderRec]
    /\ path \in [Devices -> Nat] /\ count \in [Devices -> Nat]
    /\ open \in [Devices -> SUBSET OpenRec] /\ data \in SUBSET Block
    /\ buffers \in [Devices -> BufferRec]
    /\ sig \in BOOLEAN /\ faults \in Nat
    /\ files \in [Devices -> SUBSET FileRec] /\ measured \in [Devices -> SUBSET Measure]

-----------------------------------------------------------------------------
(* What holds of a device. *)

\* The instruction profiler measured in the mode its state asks a file for.
Matches(mode, state) ==
    \/ state = "PC_SAMPLING" /\ mode = "PC_SAMPLING"
    \/ state = "TIMELINE" /\ mode = "BIU_PERF"

\* Open channels: Stop knows every one that Start opened, except AICPU before the
\* last round, and each measures what the run is for.
Closable(d, o) == o.channel = "AICPU" /\ ~task[d].last
ChannelsInv(d) ==
    /\ \A o \in open[d] :
          /\ o.channel = "AICPU" => cfg.chip = "910B" /\ setup.mc2
          /\ \/ Closable(d, o)
             \/ /\ th[d].pc \in {"started", "ran"}
                /\ o.channel \in Stop(task[d], cfg, setup.mc2)
          /\ o.channel \in {"FFTS", "AICORE"} => o.set = count[d]
          /\ o.channel = "INSTR" => Matches(o.mode, task[d].state)
    /\ th[d].pc = "join" => ~task[d].running

\* The reader lives during a run, and holds data while it handles a poll.
ReaderInv(d) ==
    /\ th[d].pc \in {"idle", "next"} => reader[d] = NoReader
    /\ reader[d].pc # "handle" => reader[d].got = {}

\* The directory is that of the launch.
PathInv(d) == th[d].pc # "idle" => path[d] = th[d].launch

\* L2cacheParam loses no block.
Retried == {"l2Buffer", "blockLen"}
BuffersInv(d) ==
    /\ th[d].pc = "idle" => buffers[d].live = {} /\ buffers[d].twice \subseteq Retried
    /\ th[d].pc # "idle" => /\ buffers[d].live \subseteq buffers[d].held
                            /\ buffers[d].held \ buffers[d].live \subseteq Retried

\* Data of the device that its reader has or may get are of the current run,
\* until the reader is joined.
OwnBlock(d, b) ==
    \/ b.of.channel = "AICPU"
    \/ /\ th[d].pc \in {"ran", "join"}
       /\ b.launch = path[d]
       /\ b.of.channel \in {"FFTS", "AICORE"} => b.of.set = count[d]
       /\ b.of.channel = "INSTR" /\ th[d].pc = "ran" => Matches(b.of.mode, task[d].state)
BlocksInv(d) == \A b \in data \cup reader[d].got : b.dev = d => OwnBlock(d, b)

\* What the reader wrote.
Placed(f) ==
    f.own =>
      /\ f.block.of.channel \notin {"INSTR", "AICPU"} =>
            /\ f.to.dir = f.block.launch
            /\ f.to.file = "DeviceProf" => f.to.round = f.block.of.set
      /\ f.block.of.channel = "INSTR" =>
            \/ /\ f.to.dir = f.block.launch
               /\ f.to.file = IF f.block.of.mode = "PC_SAMPLING" THEN "pcSampling"
                              ELSE "timeline"
            \/ f.late
FilesInv(d) == \A f \in files[d] : Placed(f)

\* A range with a selected kernel is replayed, and the replay runs it.
RangeInv(d) ==
    /\ th[d].pc # "idle" => th[d].what = IF setup.range THEN "range" ELSE "launch"
    /\ th[d].what = "launch" => ~setup.range
    /\ ~setup.range => ~rng[d].in /\ ~rng[d].nested /\ rng[d].pending = 0
    /\ rng[d].in => th[d].pc = "idle" /\ th[d].what = "none"
    /\ rng[d].in /\ rng[d].selected => rng[d].flag
    /\ setup.range /\ ~rng[d].in /\ ~th[d].failed /\ ~sig /\ rng[d].selected =>
          \/ rng[d].pending = 0
          \/ th[d].pc = "next" /\ th[d].todo # << >>
          \/ th[d].pc = "started"

\* The order of the runs of a launch.
Before(r, s) ==
    \/ r.what = "pcSampling" /\ s.what \in {"timeline", "prepare"}
    \/ r.what = "timeline" /\ s.what = "prepare"
    \/ r.what = "evict" /\ s.what = "round"
    \/ r.what = "round" /\ s.what = "round" /\ r.n < s.n

\* A run that a launch may have to make.
Proper(r) ==
    /\ r.what # "none"
    /\ r.what \in {"pcSampling", "timeline", "prepare"} => r.n = 0
    /\ r.what = "pcSampling" => cfg.pcSampling /\ setup.simt
    /\ r.what = "timeline" => cfg.timeline
    /\ r.what = "evict" => SupportProfL2CacheEvict
    /\ r.what = "round" /\ ~cfg.app /\ cfg.sets > 0 => r.n < cfg.sets
Has(s, what) == \E r \in ToSet(s) : r.what = what
Ordered(s) == \A i, j \in 1 .. Len(s) : i < j => Before(s[i], s[j])
TodoInv(d) ==
    /\ th[d].pc = "idle" => th[d].todo = << >>
    /\ \A r \in ToSet(th[d].todo) : Proper(r)
    /\ Ordered(th[d].todo)
    /\ Has(th[d].todo, "pcSampling") /\ cfg.timeline => Has(th[d].todo, "timeline")

\* The launch may still measure every set.
Good(d) == th[d].what \in {"launch", "range"} /\ ~th[d].failed /\ ~sig /\ RoundPerSet
Todo(d, what) == Has(th[d].todo, what)

\* The channels of round n.
RoundOpen(opened, n) ==
    /\ \E o \in opened : o.channel \in {"FFTS", "AICORE"} /\ o.set = n
    /\ (Names(opened) \cap {"STARS", "HWTS"} # {}) = (n = cfg.sets - 1)

\* Every set was measured, is being measured, or will be.
SetsInv(d) ==
    Good(d) =>
        \A n \in 0 .. cfg.sets - 1 :
            \/ SetMeasured(d, n)
            \/ Run("round", n) \in ToSet(th[d].todo)
            \/ Todo(d, "prepare")
            \/ th[d].pc = "started" /\ th[d].run = Run("round", n) /\ RoundOpen(open[d], n)

\* The state of the instruction profiler after the run.
StateAfter(d) == IF th[d].pc \in {"started", "ran"} THEN AfterStop(task[d], cfg).state
                 ELSE task[d].state

\* The task's flags leave the rounds that remain alone: the durations are not
\* taken yet, the L2 events have had their run, and the state machine of the
\* instruction profiler has come to its end.
FlagsInv(d) ==
    Good(d) =>
        /\ task[d].log \/ task[d].last => ~Todo(d, "prepare") /\ ~Todo(d, "round")
        /\ cfg.chip = "910B" =>
              /\ task[d].l2Pmu => Todo(d, "prepare") \/ Todo(d, "evict")
              /\ Todo(d, "prepare") \/ Todo(d, "evict") => task[d].l2Pmu = cfg.l2
        /\ IF Todo(d, "pcSampling") THEN StateAfter(d) = "IDLE"
           ELSE IF Todo(d, "timeline")
           THEN StateAfter(d) = "TIMELINE"
                \/ (StateAfter(d) = "IDLE" /\ ~(cfg.pcSampling /\ setup.simt))
           ELSE StateAfter(d) = "DONE"
                \/ (StateAfter(d) = "IDLE" /\ ~cfg.timeline /\ ~(cfg.pcSampling /\ setup.simt))

DeviceInv(d) ==
    /\ ChannelsInv(d) /\ ReaderInv(d) /\ PathInv(d) /\ BuffersInv(d)
    /\ BlocksInv(d) /\ FilesInv(d) /\ RangeInv(d)
    /\ TodoInv(d) /\ SetsInv(d) /\ FlagsInv(d)

RoundsInv == TypeOK /\ \A d \in Devices : DeviceInv(d)

-----------------------------------------------------------------------------
(* What Start opens, as a set. *)

LEMMA ConcatSet ==
    ASSUME NEW S, NEW a \in Seq(S), NEW b \in Seq(S)
    PROVE  a \o b \in Seq(S) /\ ToSet(a \o b) = ToSet(a) \cup ToSet(b)
<1>1. /\ a \o b \in Seq(S) /\ Len(a \o b) = Len(a) + Len(b) /\ Len(a) \in Nat /\ Len(b) \in Nat
      /\ \A i \in 1 .. Len(a) + Len(b) : (a \o b)[i] = IF i <= Len(a) THEN a[i] ELSE b[i - Len(a)]
  OBVIOUS
<1>2. ASSUME NEW i \in 1 .. Len(b) PROVE (a \o b)[i + Len(a)] = b[i] /\ i + Len(a) \in 1 .. Len(a \o b)
  BY <1>1
<1>3. ASSUME NEW i \in 1 .. Len(a) PROVE (a \o b)[i] = a[i] /\ i \in 1 .. Len(a \o b)
  BY <1>1
<1>4. ToSet(a) \subseteq ToSet(a \o b)
  BY <1>3 DEF ToSet
<1>7. ToSet(b) \subseteq ToSet(a \o b)
  BY <1>2 DEF ToSet
<1>5. ASSUME NEW i \in 1 .. Len(a \o b) PROVE (a \o b)[i] \in ToSet(a) \cup ToSet(b)
  <2>1. CASE i <= Len(a)
    <3>1. i \in 1 .. Len(a) /\ (a \o b)[i] = a[i]
      BY <1>1, <2>1
    <3> QED BY <3>1 DEF ToSet
  <2>2. CASE ~(i <= Len(a))
    <3>1. i - Len(a) \in 1 .. Len(b) /\ (a \o b)[i] = b[i - Len(a)]
      BY <1>1, <2>2
    <3> QED BY <3>1 DEF ToSet
  <2> QED BY <2>1, <2>2
<1>6. ToSet(a \o b) \subseteq ToSet(a) \cup ToSet(b)
  BY <1>5 DEF ToSet
<1> QED BY <1>1, <1>4, <1>6, <1>7

LEMMA EmptySet == ASSUME NEW S PROVE << >> \in Seq(S) /\ ToSet(<< >>) = {}
BY DEF ToSet

LEMMA OneSet == ASSUME NEW S, NEW x \in S PROVE <<x>> \in Seq(S) /\ ToSet(<<x>>) = {x}
<1>1. Len(<<x>>) = 1 /\ <<x>>[1] = x
  OBVIOUS
<1>2. 1 .. 1 = {1}
  OBVIOUS
<1> QED BY <1>1, <1>2 DEF ToSet

LEMMA OptionSet ==
    ASSUME NEW S, NEW x \in S, NEW cond \in BOOLEAN
    PROVE  Option(cond, x) \in Seq(S) /\ ToSet(Option(cond, x)) = IF cond THEN {x} ELSE {}
<1>1. CASE cond
  BY <1>1 DEF Option, ToSet
<1>2. CASE ~cond
  BY <1>2 DEF Option, ToSet
<1> QED BY <1>1, <1>2

\* The records Start puts together.
LEMMA OpenTypes ==
    ASSUME NEW n \in Nat
    PROVE  /\ {FftsA5Task(n), FftsTask(n), AiCoreTask(n), StarsTask, StarsTaskA5, HwtsTask, L2CacheTask,
               L2cacheEvict, AicpuTask} \subseteq OpenRec
           /\ \A s : InstrProfTask(Mode(s)) \in OpenRec
BY DEF FftsA5Task, FftsTask, AiCoreTask, StarsTask, StarsTaskA5, HwtsTask, L2CacheTask, L2cacheEvict,
       AicpuTask, InstrProfTask, Mode, Opened, OpenRec, Channels

If(cond, x) == IF cond THEN {x} ELSE {}

\* What each chip opens.
LEMMA StartSet ==
    ASSUME NEW t \in Tasks, NEW c \in Settings, NEW n \in Nat, NEW simt \in BOOLEAN, NEW mc2 \in BOOLEAN
    PROVE  /\ Start(t, c, n, simt, mc2) \in Seq(OpenRec)
           /\ c.chip = "A5" =>
                ToSet(Start(t, c, n, simt, mc2)) =
                    IF OpensInstr(t, c, simt) THEN {InstrProfTask(Mode(Chosen(t, c, simt)))}
                    ELSE IF n >= SetLimitA5 THEN {}
                    ELSE {FftsA5Task(n)} \cup If(~t.log /\ (t.last \/ NextEmpty(c, n)), StarsTaskA5)
           /\ c.chip = "910B" =>
                ToSet(Start(t, c, n, simt, mc2)) =
                    IF t.l2Pmu THEN If(~t.l2, L2cacheEvict)
                    ELSE IF n >= SetLimit THEN {}
                    ELSE {FftsTask(n)} \cup If(n = 0 /\ mc2, AicpuTask)
                             \cup If(~t.log /\ (t.last \/ NextEmpty(c, n)), StarsTask)
           /\ c.chip = "310P" =>
                ToSet(Start(t, c, n, simt, mc2)) =
                    IF n >= SetLimit THEN {}
                    ELSE If((c.aic /\ n < c.sets) \/ n = 0, AiCoreTask(n))
                             \cup If(~t.log /\ NextEmpty310P(c, n), HwtsTask)
                             \cup If(n = 0 /\ t.l2Pmu, L2CacheTask)
<1>1. /\ c.chip \in Chips /\ c.sets \in Nat /\ c.aic \in BOOLEAN /\ c.aiv \in BOOLEAN
      /\ t.log \in BOOLEAN /\ t.last \in BOOLEAN /\ t.l2 \in BOOLEAN /\ t.l2Pmu \in BOOLEAN
  BY DEF Settings, Tasks
<1>2. << >> \in Seq(OpenRec) /\ ToSet(<< >>) = {}
  BY EmptySet
<1>3. CASE c.chip = "A5"
  <2>1. Start(t, c, n, simt, mc2) = StartA5(t, c, n, simt, mc2)
    BY <1>3 DEF Start
  <2>2. CASE OpensInstr(t, c, simt)
    <3>1. Start(t, c, n, simt, mc2) = <<InstrProfTask(Mode(Chosen(t, c, simt)))>>
      BY <2>1, <2>2 DEF StartA5
    <3>2. InstrProfTask(Mode(Chosen(t, c, simt))) \in OpenRec
      BY OpenTypes
    <3> QED BY <1>3, <2>2, <3>1, <3>2, OneSet
  <2>3. CASE ~OpensInstr(t, c, simt) /\ n >= SetLimitA5
    BY <1>2, <1>3, <2>1, <2>3 DEF StartA5
  <2>4. CASE ~OpensInstr(t, c, simt) /\ ~(n >= SetLimitA5)
    <3> DEFINE a == <<FftsA5Task(n)>>
               b == Option(~t.log /\ (t.last \/ NextEmpty(c, n)), StarsTaskA5)
    <3>1. Start(t, c, n, simt, mc2) = a \o b
      BY <2>1, <2>4 DEF StartA5
    <3>2. a \in Seq(OpenRec) /\ ToSet(a) = {FftsA5Task(n)}
      BY OpenTypes, OneSet
    <3>3. b \in Seq(OpenRec) /\ ToSet(b) = If(~t.log /\ (t.last \/ NextEmpty(c, n)), StarsTaskA5)
      BY <1>1, OpenTypes, OptionSet DEF If, NextEmpty
    <3> HIDE DEF a, b
    <3>4. a \o b \in Seq(OpenRec) /\ ToSet(a \o b) = ToSet(a) \cup ToSet(b)
      BY <3>2, <3>3, ConcatSet
    <3> QED BY <1>3, <2>4, <3>1, <3>2, <3>3, <3>4
  <2> QED BY <2>2, <2>3, <2>4
<1>4. CASE c.chip = "910B"
  <2>1. Start(t, c, n, simt, mc2) = Start910B(t, c, n, simt, mc2)
    BY <1>4 DEF Start
  <2>2. CASE t.l2Pmu
    <3>1. Start(t, c, n, simt, mc2) = Option(~t.l2, L2cacheEvict)
      BY <2>1, <2>2 DEF Start910B
    <3>2. /\ Option(~t.l2, L2cacheEvict) \in Seq(OpenRec)
          /\ ToSet(Option(~t.l2, L2cacheEvict)) = If(~t.l2, L2cacheEvict)
      BY <1>1, OpenTypes, OptionSet DEF If
    <3> QED BY <1>4, <2>2, <3>1, <3>2
  <2>3. CASE ~t.l2Pmu /\ n >= SetLimit
    BY <1>2, <1>4, <2>1, <2>3 DEF Start910B
  <2>4. CASE ~t.l2Pmu /\ ~(n >= SetLimit)
    <3> DEFINE a == <<FftsTask(n)>>
               b == Option(n = 0 /\ mc2, AicpuTask)
               e == Option(~t.log /\ (t.last \/ NextEmpty(c, n)), StarsTask)
    <3>1. Start(t, c, n, simt, mc2) = (a \o b) \o e
      BY <2>1, <2>4 DEF Start910B
    <3>2. a \in Seq(OpenRec) /\ ToSet(a) = {FftsTask(n)}
      BY OpenTypes, OneSet
    <3>3. b \in Seq(OpenRec) /\ ToSet(b) = If(n = 0 /\ mc2, AicpuTask)
      BY OpenTypes, OptionSet DEF If
    <3>4. e \in Seq(OpenRec) /\ ToSet(e) = If(~t.log /\ (t.last \/ NextEmpty(c, n)), StarsTask)
      BY <1>1, OpenTypes, OptionSet DEF If, NextEmpty
    <3> HIDE DEF a, b, e
    <3>5. a \o b \in Seq(OpenRec) /\ ToSet(a \o b) = ToSet(a) \cup ToSet(b)
      BY <3>2, <3>3, ConcatSet
    <3>6. \A x \in Seq(OpenRec) : x \o e \in Seq(OpenRec) /\ ToSet(x \o e) = ToSet(x) \cup ToSet(e)
      BY <3>4, ConcatSet
    <3>7. (a \o b) \o e \in Seq(OpenRec) /\ ToSet((a \o b) \o e) = ToSet(a \o b) \cup ToSet(e)
      BY <3>5, <3>6
    <3> QED BY <1>4, <2>4, <3>1, <3>2, <3>3, <3>4, <3>5, <3>7
  <2> QED BY <2>2, <2>3, <2>4
<1>5. CASE c.chip = "310P"
  <2>1. Start(t, c, n, simt, mc2) = Start310P(t, c, n, simt, mc2)
    BY <1>5 DEF Start
  <2>2. CASE n >= SetLimit
    BY <1>2, <1>5, <2>1, <2>2 DEF Start310P
  <2>3. CASE ~(n >= SetLimit)
    <3> DEFINE a == Option((c.aic /\ n < c.sets) \/ n = 0, AiCoreTask(n))
               b == Option(~t.log /\ NextEmpty310P(c, n), HwtsTask)
               e == Option(n = 0 /\ t.l2Pmu, L2CacheTask)
    <3>1. Start(t, c, n, simt, mc2) = (a \o b) \o e
      BY <2>1, <2>3 DEF Start310P
    <3>2. a \in Seq(OpenRec) /\ ToSet(a) = If((c.aic /\ n < c.sets) \/ n = 0, AiCoreTask(n))
      BY <1>1, OpenTypes, OptionSet DEF If
    <3>3. b \in Seq(OpenRec) /\ ToSet(b) = If(~t.log /\ NextEmpty310P(c, n), HwtsTask)
      BY <1>1, OpenTypes, OptionSet DEF If, NextEmpty310P
    <3>4. e \in Seq(OpenRec) /\ ToSet(e) = If(n = 0 /\ t.l2Pmu, L2CacheTask)
      BY <1>1, OpenTypes, OptionSet DEF If
    <3> HIDE DEF a, b, e
    <3>5. a \o b \in Seq(OpenRec) /\ ToSet(a \o b) = ToSet(a) \cup ToSet(b)
      BY <3>2, <3>3, ConcatSet
    <3>6. \A x \in Seq(OpenRec) : x \o e \in Seq(OpenRec) /\ ToSet(x \o e) = ToSet(x) \cup ToSet(e)
      BY <3>4, ConcatSet
    <3>7. (a \o b) \o e \in Seq(OpenRec) /\ ToSet((a \o b) \o e) = ToSet(a \o b) \cup ToSet(e)
      BY <3>5, <3>6
    <3> QED BY <1>5, <2>3, <3>1, <3>2, <3>3, <3>4, <3>5, <3>7
  <2> QED BY <2>2, <2>3
<1> QED BY <1>1, <1>3, <1>4, <1>5 DEF Chips

\* The same, case by case.
LEMMA StartInstr ==
    ASSUME NEW t \in Tasks, NEW c \in Settings, NEW n \in Nat, NEW simt \in BOOLEAN, NEW mc2 \in BOOLEAN,
           c.chip = "A5", OpensInstr(t, c, simt)
    PROVE  \A o \in ToSet(Start(t, c, n, simt, mc2)) : o.channel = "INSTR"
<1>1. ToSet(Start(t, c, n, simt, mc2)) = {InstrProfTask(Mode(Chosen(t, c, simt)))}
  BY StartSet
<1> QED BY <1>1 DEF InstrProfTask, Opened

LEMMA StartEvict ==
    ASSUME NEW t \in Tasks, NEW c \in Settings, NEW n \in Nat, NEW simt \in BOOLEAN, NEW mc2 \in BOOLEAN,
           c.chip = "910B", t.l2Pmu
    PROVE  ToSet(Start(t, c, n, simt, mc2)) = If(~t.l2, L2cacheEvict)
BY StartSet

LEMMA StartRoundA5 ==
    ASSUME NEW t \in Tasks, NEW c \in Settings, NEW n \in Nat, NEW simt \in BOOLEAN, NEW mc2 \in BOOLEAN,
           c.chip = "A5", ~OpensInstr(t, c, simt), ~(n >= SetLimitA5)
    PROVE  ToSet(Start(t, c, n, simt, mc2)) =
              {FftsA5Task(n)} \cup If(~t.log /\ (t.last \/ NextEmpty(c, n)), StarsTaskA5)
BY StartSet

LEMMA StartRound910B ==
    ASSUME NEW t \in Tasks, NEW c \in Settings, NEW n \in Nat, NEW simt \in BOOLEAN, NEW mc2 \in BOOLEAN,
           c.chip = "910B", ~t.l2Pmu, ~(n >= SetLimit)
    PROVE  ToSet(Start(t, c, n, simt, mc2)) =
              {FftsTask(n)} \cup If(n = 0 /\ mc2, AicpuTask)
                  \cup If(~t.log /\ (t.last \/ NextEmpty(c, n)), StarsTask)
BY StartSet

LEMMA StartRound310P ==
    ASSUME NEW t \in Tasks, NEW c \in Settings, NEW n \in Nat, NEW simt \in BOOLEAN, NEW mc2 \in BOOLEAN,
           c.chip = "310P", ~(n >= SetLimit)
    PROVE  ToSet(Start(t, c, n, simt, mc2)) =
              If((c.aic /\ n < c.sets) \/ n = 0, AiCoreTask(n))
                  \cup If(~t.log /\ NextEmpty310P(c, n), HwtsTask)
                  \cup If(n = 0 /\ t.l2Pmu, L2CacheTask)
BY StartSet

-----------------------------------------------------------------------------
(* What StartProf and StopProf do to a task. *)

LEMMA TaskTypes ==
    ASSUME NEW t \in Tasks, NEW c \in Settings, NEW n \in Nat, NEW simt \in BOOLEAN, NEW mc2 \in BOOLEAN,
           NEW names
    PROVE  /\ Create(c) \in Tasks
           /\ AfterStop(t, c) \in Tasks
           /\ AfterStart(t, c, n, simt, names) \in Tasks
<1>1. c.l2 \in BOOLEAN /\ c.sets \in Nat
  BY DEF Settings
<1>2. Create(c) \in Tasks
  BY <1>1 DEF Create, Tasks, InstrProfState
<1>3. AfterStop(t, c) \in Tasks
  BY DEF AfterStop, Tasks, InstrProfState
<1>4. Chosen(t, c, simt) \in InstrProfState
  BY DEF Chosen, Tasks, InstrProfState
<1> DEFINE last == t.last \/ ("FFTS" \in names /\ NextEmpty(c, n))
           log == t.log \/ names \cap {"STARS", "HWTS"} # {}
           l2 == t.l2 \/ "L2" \in names
           l2Pmu == t.l2Pmu /\ c.chip # "910B"
           aicore == t.aicore \/ "AICORE" \in names
           state == IF c.chip = "A5" THEN Chosen(t, c, simt) ELSE t.state
<1>5. /\ last \in BOOLEAN /\ log \in BOOLEAN /\ l2 \in BOOLEAN /\ l2Pmu \in BOOLEAN /\ aicore \in BOOLEAN
      /\ state \in InstrProfState
  BY <1>4 DEF Tasks
<1>6. AfterStart(t, c, n, simt, names) =
        [t EXCEPT !.running = TRUE, !.state = state, !.last = last, !.log = log, !.l2 = l2,
                  !.l2Pmu = l2Pmu, !.aicore = aicore]
  BY DEF AfterStart
<1> HIDE DEF last, log, l2, l2Pmu, aicore, state
<1>7. AfterStart(t, c, n, simt, names) \in Tasks
  BY <1>5, <1>6 DEF Tasks
<1> QED BY <1>2, <1>3, <1>7

\* The fields after a start.
LEMMA StartFields ==
    ASSUME NEW t \in Tasks, NEW c \in Settings, NEW n \in Nat, NEW simt \in BOOLEAN, NEW names
    PROVE  /\ AfterStart(t, c, n, simt, names).running
           /\ c.chip = "A5" => AfterStart(t, c, n, simt, names).state = Chosen(t, c, simt)
           /\ c.chip # "A5" => AfterStart(t, c, n, simt, names).state = t.state
           /\ AfterStart(t, c, n, simt, names).last <=>
                t.last \/ ("FFTS" \in names /\ NextEmpty(c, n))
           /\ AfterStart(t, c, n, simt, names).log <=>
                t.log \/ "STARS" \in names \/ "HWTS" \in names
           /\ AfterStart(t, c, n, simt, names).l2 <=> t.l2 \/ "L2" \in names
           /\ AfterStart(t, c, n, simt, names).l2Pmu <=> t.l2Pmu /\ c.chip # "910B"
           /\ AfterStart(t, c, n, simt, names).aicore <=> t.aicore \/ "AICORE" \in names
<1> DEFINE last == t.last \/ ("FFTS" \in names /\ NextEmpty(c, n))
           log == t.log \/ names \cap {"STARS", "HWTS"} # {}
           l2 == t.l2 \/ "L2" \in names
           l2Pmu == t.l2Pmu /\ c.chip # "910B"
           aicore == t.aicore \/ "AICORE" \in names
           state == IF c.chip = "A5" THEN Chosen(t, c, simt) ELSE t.state
           u == AfterStart(t, c, n, simt, names)
<1>1. u = [t EXCEPT !.running = TRUE, !.state = state, !.last = last, !.log = log, !.l2 = l2,
                    !.l2Pmu = l2Pmu, !.aicore = aicore]
  BY DEF AfterStart
<1> HIDE DEF last, log, l2, l2Pmu, aicore, state, u
<1>2. /\ u.running = TRUE /\ u.state = state /\ u.last = last /\ u.log = log /\ u.l2 = l2
      /\ u.l2Pmu = l2Pmu /\ u.aicore = aicore
  BY <1>1 DEF Tasks
<1>3. log <=> t.log \/ "STARS" \in names \/ "HWTS" \in names
  BY DEF log
<1> QED BY <1>2, <1>3 DEF last, l2, l2Pmu, aicore, state, u

LEMMA StopFields ==
    ASSUME NEW t \in Tasks, NEW c
    PROVE  /\ ~AfterStop(t, c).running
           /\ AfterStop(t, c).last = t.last /\ AfterStop(t, c).log = t.log
           /\ AfterStop(t, c).l2Pmu = t.l2Pmu
           /\ t.state = "PC_SAMPLING" /\ c.timeline => AfterStop(t, c).state = "TIMELINE"
           /\ t.state = "PC_SAMPLING" /\ ~c.timeline => AfterStop(t, c).state = "DONE"
           /\ t.state = "TIMELINE" => AfterStop(t, c).state = "DONE"
           /\ t.state \notin {"PC_SAMPLING", "TIMELINE"} => AfterStop(t, c).state = t.state
BY DEF AfterStop, Tasks

\* Stop takes AICPU along with the last round only.
LEMMA StopKnowsAicpu ==
    ASSUME NEW t \in Tasks, NEW c \in Settings, NEW mc2 \in BOOLEAN, c.chip = "910B", mc2
    PROVE  ~t.last \/ "AICPU" \in Stop(t, c, mc2)
BY DEF Stop, Stop910B, When

\* The task u can stop the channel o, and o measures what round n is for.
Known(o, u, c, n, mc2) ==
    /\ o.channel = "AICPU" => c.chip = "910B" /\ mc2
    /\ (o.channel = "AICPU" /\ ~u.last) \/ o.channel \in Stop(u, c, mc2)
    /\ o.channel \in {"FFTS", "AICORE"} => o.set = n
    /\ o.channel = "INSTR" => Matches(o.mode, u.state)

\* Whatever part of its channels a start has opened, the task knows what to stop
\* again, and each channel measures what the run is for.
LEMMA StartOpens ==
    ASSUME NEW t \in Tasks, NEW c \in Settings, NEW n \in Nat, NEW simt \in BOOLEAN, NEW mc2 \in BOOLEAN,
           NEW S \in SUBSET ToSet(Start(t, c, n, simt, mc2)), NEW o \in S
    PROVE  o \in OpenRec /\ Known(o, AfterStart(t, c, n, simt, Names(S)), c, n, mc2)
<1> SUFFICES /\ o \in OpenRec
             /\ o.channel = "AICPU" => c.chip = "910B" /\ mc2
             /\ \/ o.channel = "AICPU" /\ ~AfterStart(t, c, n, simt, Names(S)).last
                \/ o.channel \in Stop(AfterStart(t, c, n, simt, Names(S)), c, mc2)
             /\ o.channel \in {"FFTS", "AICORE"} => o.set = n
             /\ o.channel = "INSTR" => Matches(o.mode, AfterStart(t, c, n, simt, Names(S)).state)
  BY DEF Known
<1> DEFINE u == AfterStart(t, c, n, simt, Names(S))
<1>1. o \in ToSet(Start(t, c, n, simt, mc2)) /\ o.channel \in Names(S)
  BY DEF Names
<1>2. u \in Tasks
  BY TaskTypes
<1>3. /\ c.chip = "A5" => u.state = Chosen(t, c, simt)
      /\ "STARS" \in Names(S) \/ "HWTS" \in Names(S) => u.log
      /\ "L2" \in Names(S) => u.l2
      /\ "AICORE" \in Names(S) => u.aicore
  BY StartFields
<1> HIDE DEF u
<1>4. c.chip \in Chips
  BY DEF Settings
<1>5. CASE c.chip = "A5"
  <2>1. Stop(u, c, mc2) = StopA5(u, c, mc2)
    BY <1>5 DEF Stop
  <2>2. CASE OpensInstr(t, c, simt)
    <3>1. o = InstrProfTask(Mode(u.state)) /\ u.state \in {"PC_SAMPLING", "TIMELINE"}
      BY <1>1, <1>3, <1>5, <2>2, StartSet DEF OpensInstr
    <3>2. o = [channel |-> "INSTR", set |-> 0, mode |-> Mode(u.state)]
      BY <3>1 DEF InstrProfTask, Opened
    <3>3. o \in OpenRec
      BY <3>1, OpenTypes
    <3>4. "INSTR" \in Stop(u, c, mc2) /\ Matches(Mode(u.state), u.state)
      BY <2>1, <3>1 DEF StopA5, When, Mode, Matches
    <3> QED BY <3>2, <3>3, <3>4 DEF u
  <2>3. CASE ~OpensInstr(t, c, simt)
    <3>1. o = FftsA5Task(n) \/ o = StarsTaskA5
      BY <1>1, <1>5, <2>3, StartSet DEF If
    <3>2. CASE o = FftsA5Task(n)
      <4>1. o.channel = "FFTS" /\ o.set = n
        BY <3>2 DEF FftsA5Task, Opened
      <4>2. "FFTS" \in Stop(u, c, mc2)
        BY <2>1 DEF StopA5
      <4>3. o \in OpenRec
        BY <3>2, OpenTypes
      <4> QED BY <4>1, <4>2, <4>3 DEF u
    <3>3. CASE o = StarsTaskA5
      <4>1. o.channel = "STARS"
        BY <3>3 DEF StarsTaskA5, Opened
      <4>2. "STARS" \in Stop(u, c, mc2)
        BY <1>1, <1>3, <2>1, <4>1 DEF StopA5, When
      <4>3. o \in OpenRec
        BY <3>3, OpenTypes
      <4> QED BY <4>1, <4>2, <4>3 DEF u
    <3> QED BY <3>1, <3>2, <3>3
  <2> QED BY <2>2, <2>3
<1>6. CASE c.chip = "910B"
  <2>1. Stop(u, c, mc2) = Stop910B(u, c, mc2)
    BY <1>6 DEF Stop
  <2>2. o = L2cacheEvict \/ o = FftsTask(n) \/ (o = AicpuTask /\ mc2) \/ o = StarsTask
    <3>1. CASE t.l2Pmu
      BY <1>1, <1>6, <3>1, StartSet DEF If
    <3>2. CASE ~t.l2Pmu
      BY <1>1, <1>6, <3>2, StartSet DEF If
    <3> QED BY <3>1, <3>2
  <2>3. CASE o = L2cacheEvict
    <3>1. o.channel = "L2" /\ o \in OpenRec
      BY <2>3, OpenTypes DEF L2cacheEvict, Opened
    <3>2. "L2" \in Stop(u, c, mc2)
      BY <1>1, <1>3, <2>1, <3>1 DEF Stop910B, When
    <3> QED BY <3>1, <3>2 DEF u
  <2>4. CASE o = FftsTask(n)
    <3>1. o.channel = "FFTS" /\ o.set = n /\ o \in OpenRec
      BY <2>4, OpenTypes DEF FftsTask, Opened
    <3>2. "FFTS" \in Stop(u, c, mc2)
      BY <2>1 DEF Stop910B
    <3> QED BY <3>1, <3>2 DEF u
  <2>5. CASE o = AicpuTask /\ mc2
    <3>1. o.channel = "AICPU" /\ o \in OpenRec
      BY <2>5, OpenTypes DEF AicpuTask, Opened
    <3>2. ~u.last \/ "AICPU" \in Stop(u, c, mc2)
      BY <1>2, <1>6, <2>5, StopKnowsAicpu
    <3> QED BY <1>6, <2>5, <3>1, <3>2 DEF u
  <2>6. CASE o = StarsTask
    <3>1. o.channel = "STARS" /\ o \in OpenRec
      BY <2>6, OpenTypes DEF StarsTask, Opened
    <3>2. "STARS" \in Stop(u, c, mc2)
      BY <1>1, <1>3, <2>1, <3>1 DEF Stop910B, When
    <3> QED BY <3>1, <3>2 DEF u
  <2> QED BY <2>2, <2>3, <2>4, <2>5, <2>6
<1>7. CASE c.chip = "310P"
  <2>1. Stop(u, c, mc2) = Stop310P(u, c, mc2)
    BY <1>7 DEF Stop
  <2>2. o = AiCoreTask(n) \/ o = HwtsTask \/ o = L2CacheTask
    BY <1>1, <1>7, StartSet DEF If
  <2>3. CASE o = AiCoreTask(n)
    <3>1. o.channel = "AICORE" /\ o.set = n /\ o \in OpenRec
      BY <2>3, OpenTypes DEF AiCoreTask, Opened
    <3>2. "AICORE" \in Stop(u, c, mc2)
      BY <1>1, <1>3, <2>1, <3>1 DEF Stop310P, When
    <3> QED BY <3>1, <3>2 DEF u
  <2>4. CASE o = HwtsTask
    <3>1. o.channel = "HWTS" /\ o \in OpenRec
      BY <2>4, OpenTypes DEF HwtsTask, Opened
    <3>2. "HWTS" \in Stop(u, c, mc2)
      BY <1>1, <1>3, <2>1, <3>1 DEF Stop310P, When
    <3> QED BY <3>1, <3>2 DEF u
  <2>5. CASE o = L2CacheTask
    <3>1. o.channel = "L2" /\ o \in OpenRec
      BY <2>5, OpenTypes DEF L2CacheTask, Opened
    <3>2. "L2" \in Stop(u, c, mc2)
      BY <1>1, <1>3, <2>1, <3>1 DEF Stop310P, When
    <3> QED BY <3>1, <3>2 DEF u
  <2> QED BY <2>2, <2>3, <2>4, <2>5
<1> QED BY <1>4, <1>5, <1>6, <1>7 DEF Chips

-----------------------------------------------------------------------------
(* The runs that remain. *)

LEMMA SetupFacts ==
    ASSUME setup \in Setups
    PROVE  /\ cfg \in Settings /\ setup.simt \in BOOLEAN /\ setup.mc2 \in BOOLEAN /\ setup.range \in BOOLEAN
           /\ cfg.chip \in Chips /\ cfg.sets \in Nat /\ cfg.sets <= SetLimit /\ cfg.first \in Nat
           /\ cfg.aic \in BOOLEAN /\ cfg.aiv \in BOOLEAN /\ cfg.l2 \in BOOLEAN /\ cfg.app \in BOOLEAN
           /\ cfg.pcSampling \in BOOLEAN /\ cfg.timeline \in BOOLEAN
           /\ cfg.chip = "A5" => cfg.sets <= SetLimitA5
           /\ cfg.chip # "A5" => ~cfg.pcSampling /\ ~cfg.timeline
<1>1. /\ cfg \in Settings /\ setup.simt \in BOOLEAN /\ setup.mc2 \in BOOLEAN /\ setup.range \in BOOLEAN
      /\ setup.launches \in [Devices -> Nat]
  BY RoundsAssumption DEF cfg
<1>2. cfg.sets \in 0 .. SetLimit /\ SetLimit \in Nat
  BY <1>1, SetLimitAssumption DEF Settings
<1> QED BY <1>1, <1>2 DEF Settings

LEMMA RunTypes ==
    ASSUME NEW what \in RunKinds, NEW n \in Nat
    PROVE  Run(what, n) \in Runs /\ Run(what, n).what = what /\ Run(what, n).n = n
BY DEF Run, Runs

\* Taking the first run away.
LEMMA TailRuns ==
    ASSUME NEW s \in Seq(Runs), s # << >>
    PROVE  /\ Head(s) \in Runs /\ Tail(s) \in Seq(Runs)
           /\ Head(s) \in ToSet(s) /\ ToSet(Tail(s)) \subseteq ToSet(s)
           /\ \A r \in ToSet(s) : r = Head(s) \/ r \in ToSet(Tail(s))
           /\ Ordered(s) => Ordered(Tail(s)) /\ \A r \in ToSet(Tail(s)) : Before(Head(s), r)
<1>1. /\ Head(s) \in Runs /\ Tail(s) \in Seq(Runs) /\ Head(s) = s[1] /\ Len(s) \in Nat /\ Len(s) > 0
      /\ Len(Tail(s)) = Len(s) - 1 /\ \A i \in 1 .. Len(s) - 1 : Tail(s)[i] = s[i + 1]
  OBVIOUS
<1>2. Head(s) \in ToSet(s)
  BY <1>1 DEF ToSet
<1>3. ASSUME NEW r \in ToSet(Tail(s))
      PROVE  r \in ToSet(s) /\ (Ordered(s) => Before(Head(s), r))
  <2>1. PICK i \in 1 .. Len(s) - 1 : r = Tail(s)[i]
    BY <1>1, <1>3 DEF ToSet
  <2>2. i + 1 \in 1 .. Len(s) /\ r = s[i + 1] /\ 1 \in 1 .. Len(s) /\ 1 < i + 1
    BY <1>1, <2>1
  <2>3. r \in ToSet(s)
    BY <2>2 DEF ToSet
  <2>4. Ordered(s) => Before(s[1], s[i + 1])
    BY <2>2 DEF Ordered
  <2> QED BY <1>1, <2>2, <2>3, <2>4
<1>4. ASSUME NEW r \in ToSet(s) PROVE r = Head(s) \/ r \in ToSet(Tail(s))
  <2>1. PICK i \in 1 .. Len(s) : r = s[i]
    BY <1>4 DEF ToSet
  <2>2. CASE i = 1
    BY <1>1, <2>1, <2>2
  <2>3. CASE i # 1
    <3>1. i - 1 \in 1 .. Len(s) - 1 /\ r = Tail(s)[i - 1]
      BY <1>1, <2>1, <2>3
    <3> QED BY <1>1, <3>1 DEF ToSet
  <2> QED BY <2>2, <2>3
<1>5. ASSUME Ordered(s), NEW i \in 1 .. Len(s) - 1, NEW j \in 1 .. Len(s) - 1, i < j
      PROVE  Before(Tail(s)[i], Tail(s)[j])
  <2>1. i + 1 \in 1 .. Len(s) /\ j + 1 \in 1 .. Len(s) /\ i + 1 < j + 1
    BY <1>1, <1>5
  <2>2. Before(s[i + 1], s[j + 1])
    BY <1>5, <2>1 DEF Ordered
  <2> QED BY <1>1, <2>2
<1>6. Ordered(s) => Ordered(Tail(s))
  BY <1>1, <1>5 DEF Ordered
<1> QED BY <1>1, <1>2, <1>3, <1>4, <1>6

\* Putting runs together.
LEMMA ConcatRuns ==
    ASSUME NEW a \in Seq(Runs), NEW b \in Seq(Runs), Ordered(a), Ordered(b),
           \A x \in ToSet(a), y \in ToSet(b) : Before(x, y)
    PROVE  a \o b \in Seq(Runs) /\ ToSet(a \o b) = ToSet(a) \cup ToSet(b) /\ Ordered(a \o b)
<1>1. /\ Len(a \o b) = Len(a) + Len(b) /\ Len(a) \in Nat /\ Len(b) \in Nat
      /\ \A i \in 1 .. Len(a) + Len(b) : (a \o b)[i] = IF i <= Len(a) THEN a[i] ELSE b[i - Len(a)]
  OBVIOUS
<1>2. ASSUME NEW i \in 1 .. Len(a) + Len(b), NEW j \in 1 .. Len(a) + Len(b), i < j
      PROVE  Before((a \o b)[i], (a \o b)[j])
  <2>1. CASE j <= Len(a)
    <3>1. i \in 1 .. Len(a) /\ j \in 1 .. Len(a) /\ (a \o b)[i] = a[i] /\ (a \o b)[j] = a[j]
      BY <1>1, <1>2, <2>1
    <3> QED BY <1>2, <3>1 DEF Ordered
  <2>2. CASE i <= Len(a) /\ ~(j <= Len(a))
    <3>1. /\ i \in 1 .. Len(a) /\ j - Len(a) \in 1 .. Len(b)
          /\ (a \o b)[i] = a[i] /\ (a \o b)[j] = b[j - Len(a)]
      BY <1>1, <1>2, <2>2
    <3>2. a[i] \in ToSet(a) /\ b[j - Len(a)] \in ToSet(b)
      BY <3>1 DEF ToSet
    <3> QED BY <3>1, <3>2
  <2>3. CASE ~(i <= Len(a))
    <3>1. /\ i - Len(a) \in 1 .. Len(b) /\ j - Len(a) \in 1 .. Len(b) /\ i - Len(a) < j - Len(a)
          /\ (a \o b)[i] = b[i - Len(a)] /\ (a \o b)[j] = b[j - Len(a)]
      BY <1>1, <1>2, <2>3
    <3> QED BY <3>1 DEF Ordered
  <2> QED BY <1>1, <2>1, <2>2, <2>3
<1>3. Ordered(a \o b)
  BY <1>1, <1>2 DEF Ordered
<1> QED BY <1>3, ConcatSet

LEMMA NoRuns == << >> \in Seq(Runs) /\ ToSet(<< >>) = {} /\ Ordered(<< >>)
BY DEF ToSet, Ordered

LEMMA OneRun ==
    ASSUME NEW r \in Runs
    PROVE  <<r>> \in Seq(Runs) /\ ToSet(<<r>>) = {r} /\ Ordered(<<r>>)
<1>1. Ordered(<<r>>)
  BY DEF Ordered
<1> QED BY <1>1, OneSet

\* The rounds of a replay: one per set of counters, and one without sets.
LEMMA ReplayRuns ==
    ASSUME setup \in Setups
    PROVE  /\ ReplayRounds \in Seq(Runs) /\ ReplayRounds # << >> /\ Ordered(ReplayRounds)
           /\ \A r \in ToSet(ReplayRounds) :
                /\ r.what = "round" /\ r.n \in Nat
                /\ cfg.sets > 0 => r.n < cfg.sets
           /\ \A n \in 0 .. cfg.sets - 1 : Run("round", n) \in ToSet(ReplayRounds)
<1> DEFINE m == IF cfg.sets = 0 THEN 1 ELSE cfg.sets
           replay == {n \in 0 .. SetLimit - 1 : n = 0 \/ ~IsPmuEventEmpty(n)}
           q == [i \in 1 .. m |-> Run("round", i - 1)]
<1>1. m \in Nat /\ m >= 1 /\ m <= SetLimit /\ SetLimit \in Nat /\ cfg.sets \in Nat /\ cfg.sets <= m
  BY SetupFacts, SetLimitAssumption
<1>2. replay = 0 .. m - 1
  BY <1>1, SetLimitAssumption DEF IsPmuEventEmpty
<1>3. Cardinality(replay) = m
  <2> HIDE DEF m, replay
  <2>1. 0 \in Int /\ m - 1 \in Int /\ ~(0 > m - 1) /\ (m - 1) - 0 + 1 = m
    BY <1>1
  <2>2. Cardinality(0 .. m - 1) = m
    BY <2>1, FS_Interval
  <2> QED BY <1>2, <2>2
<1>4. ReplayRounds = q
  BY <1>3 DEF ReplayRounds
<1>5. cfg.sets > 0 => m = cfg.sets
  BY <1>1
<1> HIDE DEF m, replay
<1>6. ASSUME NEW i \in 1 .. m
      PROVE  q[i] = Run("round", i - 1) /\ q[i] \in Runs /\ q[i].what = "round" /\ q[i].n = i - 1
  BY <1>1, RunTypes DEF RunKinds
<1>7. q \in Seq(Runs) /\ Len(q) = m /\ q # << >>
  BY <1>1, <1>6
<1>8. Ordered(q)
  BY <1>1, <1>6, <1>7 DEF Ordered, Before
<1>9. ASSUME NEW r \in ToSet(q)
      PROVE  r.what = "round" /\ r.n \in Nat /\ (cfg.sets > 0 => r.n < cfg.sets)
  <2>1. PICK i \in 1 .. m : r = q[i]
    BY <1>7, <1>9 DEF ToSet
  <2> QED BY <1>1, <1>5, <1>6, <2>1
<1>10. ASSUME NEW n \in 0 .. cfg.sets - 1 PROVE Run("round", n) \in ToSet(q)
  <2>1. n + 1 \in 1 .. m /\ (n + 1) - 1 = n
    BY <1>1
  <2>2. q[n + 1] = Run("round", n)
    BY <1>6, <2>1
  <2> QED BY <1>7, <2>1, <2>2 DEF ToSet
<1> QED BY <1>4, <1>7, <1>8, <1>9, <1>10

\* The runs of a launch until KernelReplay makes the rounds.
LaunchTodo == InstrRuns \o (IF IsDbi THEN << >> ELSE <<Run("prepare", 0)>>)

LEMMA LaunchRuns ==
    ASSUME setup \in Setups
    PROVE  /\ LaunchTodo \in Seq(Runs) /\ Ordered(LaunchTodo)
           /\ \A r \in ToSet(LaunchTodo) : Proper(r)
           /\ Has(LaunchTodo, "pcSampling") <=> cfg.pcSampling /\ setup.simt
           /\ Has(LaunchTodo, "timeline") <=> cfg.timeline
           /\ ~cfg.app => Has(LaunchTodo, "prepare")
<1> DEFINE p == Run("pcSampling", 0)
           l == Run("timeline", 0)
           k == Run("prepare", 0)
           a == IF cfg.pcSampling /\ setup.simt THEN <<p>> ELSE << >>
           b == IF cfg.timeline THEN <<l>> ELSE << >>
           e == IF IsDbi THEN << >> ELSE <<k>>
<1>1. /\ p \in Runs /\ p.what = "pcSampling" /\ p.n = 0
      /\ l \in Runs /\ l.what = "timeline" /\ l.n = 0
      /\ k \in Runs /\ k.what = "prepare" /\ k.n = 0
  BY RunTypes DEF RunKinds
<1>2. /\ cfg.pcSampling \in BOOLEAN /\ setup.simt \in BOOLEAN /\ cfg.timeline \in BOOLEAN
      /\ cfg.app \in BOOLEAN
  BY SetupFacts
<1>3. LaunchTodo = (a \o b) \o e
  BY DEF LaunchTodo, InstrRuns
<1> HIDE DEF p, l, k
<1>4. a \in Seq(Runs) /\ Ordered(a) /\ ToSet(a) = If(cfg.pcSampling /\ setup.simt, p)
  BY <1>1, <1>2, NoRuns, OneRun DEF If
<1>5. b \in Seq(Runs) /\ Ordered(b) /\ ToSet(b) = If(cfg.timeline, l)
  BY <1>1, <1>2, NoRuns, OneRun DEF If
<1>6. e \in Seq(Runs) /\ Ordered(e) /\ ToSet(e) = If(~IsDbi, k)
  BY <1>1, <1>2, NoRuns, OneRun DEF If, IsDbi
<1> HIDE DEF a, b, e
<1>7. a \o b \in Seq(Runs) /\ Ordered(a \o b) /\ ToSet(a \o b) = ToSet(a) \cup ToSet(b)
  <2>1. \A x \in ToSet(a), y \in ToSet(b) : Before(x, y)
    BY <1>1, <1>4, <1>5 DEF If, Before
  <2> QED BY <1>4, <1>5, <2>1, ConcatRuns
<1> DEFINE f == a \o b
<1>8. \A x \in ToSet(f), y \in ToSet(e) : Before(x, y)
  BY <1>1, <1>4, <1>5, <1>6, <1>7 DEF If, Before
<1>9. f \in Seq(Runs) /\ Ordered(f) /\ ToSet(f) = ToSet(a) \cup ToSet(b)
  BY <1>7
<1> HIDE DEF f
<1>10. f \o e \in Seq(Runs) /\ Ordered(f \o e) /\ ToSet(f \o e) = ToSet(f) \cup ToSet(e)
  BY <1>6, <1>8, <1>9, ConcatRuns
<1>11. LaunchTodo = f \o e
  BY <1>3 DEF f
<1>12. ToSet(LaunchTodo) = If(cfg.pcSampling /\ setup.simt, p) \cup If(cfg.timeline, l) \cup If(~IsDbi, k)
  BY <1>4, <1>5, <1>6, <1>9, <1>10, <1>11
<1>13. \A r \in ToSet(LaunchTodo) : Proper(r)
  BY <1>1, <1>2, <1>12 DEF If, Proper
<1>14. Has(LaunchTodo, "pcSampling") <=> cfg.pcSampling /\ setup.simt
  BY <1>1, <1>2, <1>12 DEF If, Has
<1>15. Has(LaunchTodo, "timeline") <=> cfg.timeline
  BY <1>1, <1>2, <1>12 DEF If, Has
<1>16. ~cfg.app => Has(LaunchTodo, "prepare")
  BY <1>1, <1>2, <1>12 DEF If, Has, IsDbi
<1> QED BY <1>10, <1>11, <1>13, <1>14, <1>15, <1>16

\* The rounds of a launch.
LEMMA RoundRuns ==
    ASSUME setup \in Setups
    PROVE  /\ Rounds \in Seq(Runs) /\ Ordered(Rounds)
           /\ \A r \in ToSet(Rounds) : r.what \in {"evict", "round"} /\ Proper(r)
           /\ ~cfg.app => /\ \A n \in 0 .. cfg.sets - 1 : Run("round", n) \in ToSet(Rounds)
                          /\ Has(Rounds, "evict") <=> SupportProfL2CacheEvict
<1>1. cfg.app \in BOOLEAN /\ cfg.first \in Nat /\ cfg.sets \in Nat /\ SupportProfL2CacheEvict \in BOOLEAN
  BY SetupFacts DEF SupportProfL2CacheEvict
<1>2. ASSUME NEW n \in Nat
      PROVE  /\ Run("evict", n) \in Runs /\ Run("evict", n).what = "evict"
             /\ Run("round", n) \in Runs /\ Run("round", n).what = "round"
  BY RunTypes DEF RunKinds
<1>3. CASE cfg.app
  <2>1. \/ Rounds = << >>
        \/ Rounds = <<Run("round", cfg.first)>>
        \/ Rounds = <<Run("evict", cfg.first)>> /\ SupportProfL2CacheEvict
    BY <1>3 DEF Rounds
  <2>2. CASE Rounds = << >>
    BY <1>3, <2>2, NoRuns
  <2>3. CASE Rounds = <<Run("round", cfg.first)>>
    <3>1. Rounds \in Seq(Runs) /\ Ordered(Rounds) /\ ToSet(Rounds) = {Run("round", cfg.first)}
      BY <1>1, <1>2, <2>3, OneRun
    <3> QED BY <1>1, <1>2, <1>3, <3>1 DEF Proper
  <2>4. CASE Rounds = <<Run("evict", cfg.first)>> /\ SupportProfL2CacheEvict
    <3>1. Rounds \in Seq(Runs) /\ Ordered(Rounds) /\ ToSet(Rounds) = {Run("evict", cfg.first)}
      BY <1>1, <1>2, <2>4, OneRun
    <3> QED BY <1>1, <1>2, <1>3, <2>4, <3>1 DEF Proper
  <2> QED BY <2>1, <2>2, <2>3, <2>4
<1>4. CASE ~cfg.app
  <2> DEFINE a == IF SupportProfL2CacheEvict THEN <<Run("evict", 0)>> ELSE << >>
  <2>1. Rounds = a \o ReplayRounds
    BY <1>4 DEF Rounds
  <2>2. a \in Seq(Runs) /\ Ordered(a) /\ ToSet(a) = If(SupportProfL2CacheEvict, Run("evict", 0))
    BY <1>1, <1>2, NoRuns, OneRun DEF If
  <2> HIDE DEF a
  <2>3. /\ ReplayRounds \in Seq(Runs) /\ Ordered(ReplayRounds)
        /\ \A r \in ToSet(ReplayRounds) : /\ r.what = "round" /\ r.n \in Nat
                                          /\ cfg.sets > 0 => r.n < cfg.sets
        /\ \A n \in 0 .. cfg.sets - 1 : Run("round", n) \in ToSet(ReplayRounds)
    BY ReplayRuns
  <2>4. \A x \in ToSet(a), y \in ToSet(ReplayRounds) : Before(x, y)
    BY <1>2, <2>2, <2>3 DEF If, Before
  <2>5. /\ Rounds \in Seq(Runs) /\ Ordered(Rounds)
        /\ ToSet(Rounds) = ToSet(a) \cup ToSet(ReplayRounds)
    BY <2>1, <2>2, <2>3, <2>4, ConcatRuns
  <2>6. \A r \in ToSet(Rounds) : r.what \in {"evict", "round"} /\ Proper(r)
    BY <1>2, <2>2, <2>3, <2>5 DEF If, Proper
  <2>7. Has(Rounds, "evict") <=> SupportProfL2CacheEvict
    BY <1>2, <2>2, <2>3, <2>5 DEF If, Has
  <2> QED BY <2>3, <2>5, <2>6, <2>7
<1> QED BY <1>1, <1>3, <1>4

-----------------------------------------------------------------------------
(* Devices that a step does not touch. *)

Untouched(e) ==
    /\ setup' = setup /\ sig' = sig
    /\ th'[e] = th[e] /\ rng'[e] = rng[e] /\ task'[e] = task[e] /\ reader'[e] = reader[e]
    /\ path'[e] = path[e] /\ count'[e] = count[e] /\ open'[e] = open[e]
    /\ buffers'[e] = buffers[e] /\ files'[e] = files[e] /\ measured'[e] = measured[e]
    /\ \A b \in data' : b.dev = e => b \in data

LEMMA SetupKept ==
    ASSUME setup' = setup
    PROVE  /\ cfg' = cfg
           /\ RoundPerSet' <=> RoundPerSet
           /\ SupportProfL2CacheEvict' <=> SupportProfL2CacheEvict
           /\ \A r : Proper(r)' <=> Proper(r)
<1>1. cfg' = cfg
  BY DEF cfg
<1>2. SupportProfL2CacheEvict' <=> SupportProfL2CacheEvict
  BY <1>1 DEF SupportProfL2CacheEvict
<1>3. RoundPerSet' <=> RoundPerSet
  BY <1>1, <1>2 DEF RoundPerSet, L2TakesRound, ReadsPastSets, SkipsVectorSets, InstrTakesRound
<1>4. \A r : Proper(r)' <=> Proper(r)
  BY <1>1, <1>2 DEF Proper
<1> QED BY <1>1, <1>2, <1>3, <1>4

LEMMA ChannelsKept ==
    ASSUME NEW e, ChannelsInv(e), setup' = setup, th'[e].pc = th[e].pc, task'[e] = task[e],
           open'[e] = open[e], count'[e] = count[e]
    PROVE  ChannelsInv(e)'
<1>1. cfg' = cfg
  BY DEF cfg
<1> QED BY <1>1 DEF ChannelsInv, Closable

LEMMA BlocksKept ==
    ASSUME NEW e, BlocksInv(e), th'[e].pc = th[e].pc, task'[e] = task[e],
           path'[e] = path[e], count'[e] = count[e],
           \A b \in data' \cup reader'[e].got : b.dev = e => b \in data \cup reader[e].got
    PROVE  BlocksInv(e)'
BY DEF BlocksInv, OwnBlock

LEMMA TodoKept ==
    ASSUME NEW e, TodoInv(e), setup' = setup, th'[e].pc = th[e].pc, th'[e].todo = th[e].todo
    PROVE  TodoInv(e)'
BY SetupKept DEF TodoInv, Has

\* The sets and the flags while the runs that remain are the same.
LEMMA SetsKept ==
    ASSUME NEW e, SetsInv(e), setup' = setup, sig' = sig, th'[e].what = th[e].what,
           th'[e].failed = th[e].failed, th'[e].todo = th[e].todo, measured'[e] = measured[e],
           th[e].pc = "started" => th'[e].pc = "started" /\ th'[e].run = th[e].run /\ open'[e] = open[e]
    PROVE  SetsInv(e)'
<1>1. cfg' = cfg /\ (Good(e)' => Good(e))
  BY SetupKept DEF Good
<1>2. ASSUME NEW n, SetMeasured(e, n) PROVE SetMeasured(e, n)'
  BY <1>1, <1>2 DEF SetMeasured
<1>3. ASSUME NEW n, th[e].pc = "started", RoundOpen(open[e], n) PROVE RoundOpen(open[e], n)'
  BY <1>1, <1>3 DEF RoundOpen
<1> QED BY <1>1, <1>2, <1>3 DEF SetsInv, Todo

LEMMA FlagsKept ==
    ASSUME NEW e, FlagsInv(e), setup' = setup, sig' = sig, th'[e].what = th[e].what,
           th'[e].failed = th[e].failed, th'[e].todo = th[e].todo,
           task'[e].log = task[e].log, task'[e].last = task[e].last, task'[e].l2Pmu = task[e].l2Pmu,
           StateAfter(e)' = StateAfter(e)
    PROVE  FlagsInv(e)'
<1>1. cfg' = cfg /\ (Good(e)' => Good(e))
  BY SetupKept DEF Good
<1> QED BY <1>1 DEF FlagsInv, Todo

LEMMA DeviceKept ==
    ASSUME NEW e \in Devices, DeviceInv(e), Untouched(e)
    PROVE  DeviceInv(e)'
<1> USE DEF Untouched, DeviceInv
<1>1. ChannelsInv(e)'
  BY ChannelsKept
<1>2. ReaderInv(e)' /\ PathInv(e)' /\ BuffersInv(e)' /\ RangeInv(e)'
  BY DEF ReaderInv, PathInv, BuffersInv, RangeInv
<1>3. BlocksInv(e)'
  BY BlocksKept
<1>4. FilesInv(e)'
  BY DEF FilesInv
<1>5. TodoInv(e)' /\ SetsInv(e)'
  BY TodoKept, SetsKept
<1>6. StateAfter(e)' = StateAfter(e)
  BY DEF StateAfter, cfg
<1>7. FlagsInv(e)'
  BY <1>6, FlagsKept
<1> QED BY <1>1, <1>2, <1>3, <1>4, <1>5, <1>7

LEMMA OneDevice ==
    ASSUME RoundsInv, NEW d \in Devices, TypeOK', DeviceInv(d)', \A e \in Devices \ {d} : Untouched(e)
    PROVE  RoundsInv'
BY DeviceKept DEF RoundsInv

-----------------------------------------------------------------------------
(* The reader. *)

LEMMA PollStep == ASSUME RoundsInv, NEW d \in Devices, Poll(d) PROVE RoundsInv'
<1> USE DEF RoundsInv
<1>1. reader'[d].pc = "handle" /\ reader'[d].got = reader[d].got
  BY DEF Poll, TypeOK, ReaderRec
<1>2. TypeOK'
  <2>1. {<<b.dev, b.of.channel>> : b \in data} \in SUBSET (Devices \X Channels)
    BY DEF TypeOK, Block, OpenRec
  <2> QED BY ZenonT(30), <2>1 DEF Poll, TypeOK, ReaderRec
<1>3. \A e \in Devices \ {d} : Untouched(e)
  BY DEF Poll, TypeOK, Untouched
<1>4. /\ setup' = setup /\ sig' = sig /\ th' = th /\ rng' = rng /\ task' = task /\ path' = path
      /\ count' = count /\ open' = open /\ data' = data /\ buffers' = buffers /\ files' = files
      /\ measured' = measured
  BY DEF Poll
<1>5. DeviceInv(d)'
  <2> USE <1>4 DEF DeviceInv
  <2>1. ChannelsInv(d)' /\ PathInv(d)' /\ BuffersInv(d)' /\ RangeInv(d)' /\ FilesInv(d)'
    BY ChannelsKept DEF PathInv, BuffersInv, RangeInv, FilesInv
  <2>2. ReaderInv(d)'
    BY <1>1 DEF ReaderInv, Poll, NoReader
  <2>3. BlocksInv(d)'
    BY <1>1, BlocksKept
  <2>4. TodoInv(d)' /\ SetsInv(d)'
    BY TodoKept, SetsKept
  <2>5. StateAfter(d)' = StateAfter(d)
    BY DEF StateAfter, cfg
  <2>6. FlagsInv(d)'
    BY <2>5, FlagsKept
  <2> QED BY <2>1, <2>2, <2>3, <2>4, <2>6
<1> QED BY <1>2, <1>3, <1>5, OneDevice

LEMMA ReadChannelStep == ASSUME RoundsInv, NEW d \in Devices, ReadChannel(d) PROVE RoundsInv'
<1> USE DEF RoundsInv
<1> DEFINE x == CHOOSE y \in reader[d].todo : TRUE
           blocks == {b \in data : <<b.dev, b.of.channel>> = x}
<1>1. /\ reader' = [reader EXCEPT ![d].todo = @ \ {x}, ![d].got = blocks]
      /\ data' = data \ blocks /\ blocks \subseteq data /\ reader[d].pc = "handle"
  BY DEF ReadChannel
<1> HIDE DEF x, blocks
<1>2. reader'[d].pc = "handle" /\ reader'[d].got = blocks
  BY <1>1 DEF TypeOK, ReaderRec
<1>4. /\ setup' = setup /\ sig' = sig /\ th' = th /\ rng' = rng /\ task' = task /\ path' = path
      /\ count' = count /\ open' = open /\ buffers' = buffers /\ files' = files
      /\ measured' = measured /\ faults' = faults
  BY DEF ReadChannel
<1>3. TypeOK'
  BY ZenonT(30), <1>1, <1>4 DEF TypeOK, ReaderRec
<1>5. \A e \in Devices \ {d} : Untouched(e)
  BY <1>1, <1>4 DEF TypeOK, Untouched
<1>6. DeviceInv(d)'
  <2> USE <1>4 DEF DeviceInv
  <2>1. ChannelsInv(d)' /\ PathInv(d)' /\ BuffersInv(d)' /\ RangeInv(d)' /\ FilesInv(d)'
    BY ChannelsKept DEF PathInv, BuffersInv, RangeInv, FilesInv
  <2>2. ReaderInv(d)'
    <3>1. th' = th
      BY <1>2
    <3>2. reader[d] # NoReader
      BY <1>1 DEF NoReader
    <3>3. ReaderInv(d)
      OBVIOUS
    <3> QED BY <1>2, <3>1, <3>2, <3>3 DEF ReaderInv
  <2>3. BlocksInv(d)'
    BY <1>1, <1>2, BlocksKept
  <2>4. TodoInv(d)' /\ SetsInv(d)'
    BY TodoKept, SetsKept
  <2>5. StateAfter(d)' = StateAfter(d)
    BY DEF StateAfter, cfg
  <2>6. FlagsInv(d)'
    BY <2>5, FlagsKept
  <2> QED BY <2>1, <2>2, <2>3, <2>4, <2>6
<1> QED BY <1>3, <1>5, <1>6, OneDevice

\* What the reader writes of its own device is of the run that is going on.
LEMMA WriteDataStep == ASSUME RoundsInv, NEW d \in Devices, WriteData(d) PROVE RoundsInv'
<1> USE DEF RoundsInv
<1> DEFINE file(b) == [block |-> b, to |-> Target(d, b), own |-> b.dev = d, late |-> ~task[d].running]
<1>1. reader'[d].pc = "handle" /\ reader'[d].got = {} /\ reader[d].pc = "handle"
  BY DEF WriteData, TypeOK, ReaderRec
<1>2. /\ setup' = setup /\ sig' = sig /\ th' = th /\ rng' = rng /\ task' = task /\ path' = path
      /\ count' = count /\ open' = open /\ data' = data /\ buffers' = buffers
      /\ measured' = measured /\ faults' = faults
      /\ files' = [files EXCEPT ![d] = {file(b) : b \in reader[d].got}]
      /\ reader' = [reader EXCEPT ![d].got = {}]
  BY DEF WriteData
<1>3. ASSUME NEW b \in reader[d].got PROVE file(b) \in FileRec
  <2>1. b \in Block
    BY DEF TypeOK, ReaderRec
  <2>2. FileOf(task[d], b.of.channel) \in FileNames
    BY <2>1 DEF FileOf, WriteInstrChannelData, FileNames, Block, OpenRec, Channels
  <2>3. path[b.dev] \in Nat /\ count[b.dev] \in Nat
    BY <2>1 DEF TypeOK, Block
  <2>4. (b.dev = d) \in BOOLEAN /\ (~task[d].running) \in BOOLEAN
    OBVIOUS
  <2> QED BY <2>1, <2>2, <2>3, <2>4 DEF FileRec, Target
<1>4. TypeOK'
  <2>1. {file(b) : b \in reader[d].got} \in SUBSET FileRec
    BY <1>3
  <2> HIDE DEF file
  <2> QED BY ZenonT(30), <1>2, <2>1 DEF TypeOK, ReaderRec
<1>5. \A e \in Devices \ {d} : Untouched(e)
  BY <1>2 DEF TypeOK, Untouched
<1>6. DeviceInv(d)'
  <2> USE DEF DeviceInv
  <2>1. ChannelsInv(d)' /\ PathInv(d)' /\ BuffersInv(d)' /\ RangeInv(d)'
    BY <1>2, ChannelsKept DEF PathInv, BuffersInv, RangeInv
  <2>2. ReaderInv(d)'
    BY <1>1, <1>2 DEF ReaderInv, NoReader
  <2>3. BlocksInv(d)'
    BY <1>1, <1>2, BlocksKept
  <2>4. TodoInv(d)' /\ SetsInv(d)'
    BY <1>2, TodoKept, SetsKept
  <2>5. StateAfter(d)' = StateAfter(d)
    BY <1>2 DEF StateAfter, cfg
  <2>6. FlagsInv(d)'
    BY <1>2, <2>5, FlagsKept
  <2>7. ASSUME NEW b \in reader[d].got PROVE Placed(file(b))
    <3>1. b \in Block /\ b.of.channel \in Channels
      BY DEF TypeOK, ReaderRec, Block, OpenRec
    <3>2. CASE b.dev # d
      BY <3>2 DEF Placed
    <3>3. CASE b.dev = d
      <4>1. /\ file(b).block = b /\ file(b).to = Target(d, b) /\ file(b).late = ~task[d].running
        OBVIOUS
      <4>2. /\ Target(d, b).dir = path[d] /\ Target(d, b).round = count[d]
            /\ Target(d, b).file = FileOf(task[d], b.of.channel)
        BY <3>3 DEF Target
      <4>3. OwnBlock(d, b)
        BY <3>3 DEF BlocksInv
      <4>4. CASE b.of.channel \notin {"INSTR", "AICPU"}
        <5>1. b.launch = path[d] /\ (b.of.channel \in {"FFTS", "AICORE"} => b.of.set = count[d])
          BY <4>3, <4>4 DEF OwnBlock
        <5>2. FileOf(task[d], b.of.channel) = "DeviceProf" => b.of.channel \in {"FFTS", "AICORE"}
          BY <3>1, <4>4 DEF FileOf, Channels
        <5> HIDE DEF file
        <5> QED BY <4>1, <4>2, <4>4, <5>1, <5>2 DEF Placed
      <4>5. CASE b.of.channel = "INSTR"
        <5>1. th[d].pc \in {"ran", "join"} /\ b.launch = path[d]
          BY <4>3, <4>5 DEF OwnBlock
        <5>2. CASE th[d].pc = "join"
          <6>1. ~task[d].running
            BY <5>2 DEF ChannelsInv
          <6> QED BY <4>1, <4>5, <6>1 DEF Placed
        <5>3. CASE th[d].pc = "ran"
          <6>1. Matches(b.of.mode, task[d].state)
            BY <4>3, <4>5, <5>3 DEF OwnBlock
          <6>2. FileOf(task[d], b.of.channel) =
                   IF b.of.mode = "PC_SAMPLING" THEN "pcSampling" ELSE "timeline"
            BY <4>5, <6>1 DEF FileOf, WriteInstrChannelData, Matches
          <6> HIDE DEF file
          <6> QED BY <4>1, <4>2, <4>5, <5>1, <6>2 DEF Placed
        <5> QED BY <5>1, <5>2, <5>3
      <4>6. CASE b.of.channel = "AICPU"
        BY <4>1, <4>6 DEF Placed
      <4> QED BY <4>4, <4>5, <4>6
    <3> QED BY <3>2, <3>3
  <2>8. FilesInv(d)'
    <3>1. files'[d] = {file(b) : b \in reader[d].got}
      BY <1>2 DEF TypeOK
    <3> HIDE DEF file
    <3> QED BY <2>7, <3>1 DEF FilesInv
  <2> QED BY <2>1, <2>2, <2>3, <2>4, <2>6, <2>8
<1> QED BY <1>4, <1>5, <1>6, OneDevice

LEMMA ReaderLoopStep == ASSUME RoundsInv, NEW d \in Devices, ReaderLoop(d) PROVE RoundsInv'
<1> USE DEF RoundsInv
<1>1. /\ setup' = setup /\ sig' = sig /\ th' = th /\ rng' = rng /\ task' = task /\ path' = path
      /\ count' = count /\ open' = open /\ data' = data /\ buffers' = buffers
      /\ measured' = measured /\ faults' = faults /\ files' = [files EXCEPT ![d] = {}]
  BY DEF ReaderLoop
<1>2. /\ reader[d].pc = "handle" /\ reader'[d].pc \in {"poll", "ended"} /\ reader'[d].got = {}
  BY DEF ReaderLoop, TypeOK, ReaderRec
<1>3. TypeOK'
  <2>1. reader' \in [Devices -> ReaderRec]
    BY DEF ReaderLoop, TypeOK, ReaderRec
  <2> QED BY <1>1, <2>1 DEF TypeOK
<1>4. \A e \in Devices \ {d} : Untouched(e)
  BY DEF ReaderLoop, TypeOK, Untouched
<1>5. DeviceInv(d)'
  <2> USE DEF DeviceInv
  <2>1. ChannelsInv(d)' /\ PathInv(d)' /\ BuffersInv(d)' /\ RangeInv(d)'
    BY <1>1, ChannelsKept DEF PathInv, BuffersInv, RangeInv
  <2>2. ReaderInv(d)'
    BY <1>1, <1>2 DEF ReaderInv, NoReader
  <2>3. BlocksInv(d)'
    BY <1>1, <1>2, BlocksKept
  <2>4. TodoInv(d)' /\ SetsInv(d)'
    BY <1>1, TodoKept, SetsKept
  <2>5. StateAfter(d)' = StateAfter(d)
    BY <1>1 DEF StateAfter, cfg
  <2>6. FlagsInv(d)'
    BY <1>1, <2>5, FlagsKept
  <2>7. FilesInv(d)'
    BY <1>1 DEF FilesInv, TypeOK
  <2> QED BY <2>1, <2>2, <2>3, <2>4, <2>6, <2>7
<1> QED BY <1>3, <1>4, <1>5, OneDevice

LEMMA SigIntStep == ASSUME RoundsInv, SigInt PROVE RoundsInv'
<1> USE DEF RoundsInv
<1>1. /\ setup' = setup /\ sig' = TRUE /\ th' = th /\ rng' = rng /\ task' = task /\ path' = path
      /\ count' = count /\ open' = open /\ data' = data /\ buffers' = buffers /\ files' = files
      /\ measured' = measured /\ faults' = faults /\ reader' = reader
  BY DEF SigInt
<1>2. TypeOK'
  BY <1>1 DEF TypeOK
<1>3. ASSUME NEW d \in Devices PROVE DeviceInv(d)'
  <2> USE <1>1 DEF DeviceInv
  <2>1. /\ ChannelsInv(d)' /\ PathInv(d)' /\ BuffersInv(d)' /\ FilesInv(d)' /\ ReaderInv(d)'
        /\ BlocksInv(d)' /\ TodoInv(d)'
    BY ChannelsKept, BlocksKept, TodoKept DEF PathInv, BuffersInv, FilesInv, ReaderInv
  <2>2. RangeInv(d)'
    BY DEF RangeInv
  <2>3. SetsInv(d)' /\ FlagsInv(d)'
    BY DEF SetsInv, FlagsInv, Good
  <2> QED BY <2>1, <2>2, <2>3
<1> QED BY <1>2, <1>3

-----------------------------------------------------------------------------
(* The runs. *)

\* Without a measurement the launch has failed, or is not one.
LEMMA NotGood ==
    ASSUME NEW d \in Devices, ~Good(d)'
    PROVE  SetsInv(d)' /\ FlagsInv(d)'
BY DEF SetsInv, FlagsInv

LEMMA RunSkippedStep == ASSUME RoundsInv, NEW d \in Devices, RunSkipped(d) PROVE RoundsInv'
<1> USE DEF RoundsInv
<1>1. /\ setup' = setup /\ sig' = sig /\ rng' = rng /\ task' = task /\ path' = path
      /\ count' = count /\ open' = open /\ data' = data /\ buffers' = buffers /\ reader' = reader
      /\ measured' = measured /\ files' = files
      /\ th' = [th EXCEPT ![d].todo = Tail(@), ![d].failed = TRUE]
      /\ th[d].pc = "next" /\ th[d].todo # << >> /\ faults' = faults - 1 /\ faults > 0
  BY DEF RunSkipped
<1>2. th[d] \in Thread /\ th[d].todo \in Seq(Runs)
  BY DEF TypeOK, Thread
<1>3. /\ th'[d].pc = th[d].pc /\ th'[d].launch = th[d].launch /\ th'[d].what = th[d].what
      /\ th'[d].todo = Tail(th[d].todo) /\ th'[d].run = th[d].run /\ th'[d].failed = TRUE
  BY <1>1 DEF TypeOK, Thread
<1>4. Tail(th[d].todo) \in Seq(Runs)
  BY <1>1, <1>2, TailRuns
<1>5. TypeOK'
  <2>1. th' \in [Devices -> Thread]
    BY ZenonT(30), <1>1, <1>4 DEF TypeOK, Thread
  <2> QED BY <1>1, <2>1 DEF TypeOK
<1>6. \A e \in Devices \ {d} : Untouched(e)
  BY <1>1 DEF TypeOK, Untouched
<1>7. DeviceInv(d)'
  <2> USE DEF DeviceInv
  <2>1. ChannelsInv(d)' /\ BlocksInv(d)'
    BY <1>1, <1>3, ChannelsKept, BlocksKept
  <2>2. PathInv(d)' /\ BuffersInv(d)' /\ FilesInv(d)' /\ ReaderInv(d)'
    BY <1>1, <1>3 DEF PathInv, BuffersInv, FilesInv, ReaderInv
  <2>3. RangeInv(d)'
    BY <1>1, <1>3 DEF RangeInv
  <2>4. TodoInv(d)'
    <3>1. Ordered(Tail(th[d].todo)) /\ ToSet(Tail(th[d].todo)) \subseteq ToSet(th[d].todo)
      BY <1>1, <1>2, TailRuns DEF TodoInv
    <3>2. \A r \in ToSet(Tail(th[d].todo)) : Proper(r)'
      BY <1>1, <3>1, SetupKept DEF TodoInv
    <3>3. Has(Tail(th[d].todo), "pcSampling") /\ cfg.timeline => Has(Tail(th[d].todo), "timeline")
      BY <1>1, <1>2, TailRuns DEF TodoInv, Has, Before
    <3> QED BY <1>1, <1>3, <3>1, <3>2, <3>3, SetupKept DEF TodoInv, Has
  <2>5. SetsInv(d)' /\ FlagsInv(d)'
    BY <1>3, NotGood DEF Good
  <2> QED BY <2>1, <2>2, <2>3, <2>4, <2>5
<1> QED BY <1>5, <1>6, <1>7, OneDevice

LEMMA KernelRunStep == ASSUME RoundsInv, NEW d \in Devices, KernelRun(d) PROVE RoundsInv'
<1> USE DEF RoundsInv
<1>1. /\ setup' = setup /\ sig' = sig /\ task' = task /\ path' = path
      /\ count' = count /\ open' = open /\ buffers' = buffers /\ reader' = reader
      /\ files' = files /\ th[d].pc = "started"
  BY DEF KernelRun
<1>2. th[d] \in Thread
  BY DEF TypeOK
<1>3. /\ th'[d].pc = "ran" /\ th'[d].launch = th[d].launch /\ th'[d].what = th[d].what
      /\ th'[d].todo = th[d].todo /\ th'[d].run = th[d].run
  BY DEF KernelRun, TypeOK, Thread
<1>4. \A e \in Devices \ {d} : Untouched(e)
  <2>1. \A b \in data' : b.dev # d => b \in data
    BY DEF KernelRun
  <2>2. \A e \in Devices \ {d} : th'[e] = th[e] /\ rng'[e] = rng[e] /\ measured'[e] = measured[e]
    BY DEF KernelRun, TypeOK, RangeReplayOnce
  <2> QED BY <1>1, <2>1, <2>2 DEF Untouched
<1>5. /\ ChannelsInv(d)' /\ PathInv(d)' /\ BuffersInv(d)' /\ FilesInv(d)' /\ ReaderInv(d)' /\ TodoInv(d)'
  <2> USE DEF DeviceInv
  <2>1. ChannelsInv(d)'
    BY <1>1, <1>3 DEF ChannelsInv, Closable, cfg
  <2>2. PathInv(d)' /\ BuffersInv(d)' /\ FilesInv(d)' /\ ReaderInv(d)'
    BY <1>1, <1>3 DEF PathInv, BuffersInv, FilesInv, ReaderInv
  <2>3. TodoInv(d)'
    BY <1>1, <1>3, SetupKept DEF TodoInv, Has
  <2> QED BY <2>1, <2>2, <2>3
<1>6. StateAfter(d)' = StateAfter(d)
  BY <1>1, <1>3 DEF StateAfter, cfg
<1>7. CASE faults > 0 /\ faults' = faults - 1 /\ th' = [th EXCEPT ![d].pc = "ran", ![d].failed = TRUE]
           /\ UNCHANGED <<data, measured, rng>>
  <2>1. TypeOK'
    <3>1. th' \in [Devices -> Thread]
      BY ZenonT(30), <1>7 DEF TypeOK, Thread
    <3> QED BY <1>1, <1>7, <3>1 DEF TypeOK
  <2>2. th'[d].failed = TRUE
    BY <1>7 DEF TypeOK, Thread
  <2>3. BlocksInv(d)'
    BY <1>1, <1>3, <1>7 DEF BlocksInv, OwnBlock, DeviceInv
  <2>4. RangeInv(d)'
    BY <1>1, <1>3, <1>7, <2>2 DEF RangeInv, DeviceInv
  <2>5. SetsInv(d)' /\ FlagsInv(d)'
    BY <2>2, NotGood DEF Good
  <2> QED BY <1>4, <1>5, <2>1, <2>3, <2>4, <2>5, OneDevice DEF DeviceInv
<1>8. CASE /\ data' = data \cup {[dev |-> d, of |-> o, launch |-> th[d].launch] : o \in open[d]}
           /\ measured' = [measured EXCEPT ![d] = @ \cup {[run |-> th[d].run, open |-> open[d]]}]
           /\ th' = [th EXCEPT ![d].pc = "ran"]
           /\ RangeReplayOnce(d)
           /\ UNCHANGED faults
  <2>1. TypeOK'
    <3>1. th' \in [Devices -> Thread]
      BY ZenonT(30), <1>8 DEF TypeOK, Thread
    <3>4. rng' \in [Devices -> RangeRec]
      BY <1>8 DEF TypeOK, RangeRec, RangeReplayOnce
    <3>2. data' \in SUBSET Block
      BY <1>2, <1>8 DEF TypeOK, Block, Thread
    <3>3. measured' \in [Devices -> SUBSET Measure]
      BY <1>2, <1>8 DEF TypeOK, Measure, Thread
    <3> QED BY <1>1, <1>8, <3>1, <3>2, <3>3, <3>4 DEF TypeOK
  <2>2. th'[d].failed = th[d].failed
    BY <1>8 DEF TypeOK, Thread
  <2>3. BlocksInv(d)'
    <3> SUFFICES ASSUME NEW b \in data' \cup reader'[d].got, b.dev = d PROVE OwnBlock(d, b)'
      BY DEF BlocksInv
    <3>1. CASE b \in data \cup reader[d].got
      BY <1>1, <3>1 DEF BlocksInv, OwnBlock, DeviceInv
    <3>2. CASE b \notin data \cup reader[d].got
      <4>1. PICK o \in open[d] : b = [dev |-> d, of |-> o, launch |-> th[d].launch]
        BY <1>1, <1>8, <3>2
      <4>2. b.of = o /\ b.launch = th[d].launch
        BY <4>1
      <4>3. path[d] = th[d].launch
        BY <1>1 DEF DeviceInv, PathInv
      <4>4. /\ o.channel \in {"FFTS", "AICORE"} => o.set = count[d]
            /\ o.channel = "INSTR" => Matches(o.mode, task[d].state)
        BY <4>1 DEF DeviceInv, ChannelsInv
      <4> QED BY <1>1, <1>3, <4>2, <4>3, <4>4 DEF OwnBlock
    <3> QED BY <3>1, <3>2
  <2>4. RangeInv(d)'
    <3>1. /\ rng'[d].in = rng[d].in /\ rng'[d].nested = rng[d].nested /\ rng'[d].flag = rng[d].flag
          /\ rng'[d].selected = rng[d].selected /\ rng'[d].pending = 0
      BY <1>8 DEF RangeReplayOnce, TypeOK, RangeRec
    <3> QED BY <1>1, <1>3, <2>2, <3>1 DEF RangeInv, DeviceInv
  <2>5. FlagsInv(d)'
    BY <1>1, <1>3, <1>6, <2>2, FlagsKept DEF DeviceInv
  <2>6. SetsInv(d)'
    <3> SUFFICES ASSUME Good(d)', NEW n \in 0 .. cfg'.sets - 1
                 PROVE  SetMeasured(d, n)' \/ Run("round", n) \in ToSet(th'[d].todo) \/ Todo(d, "prepare")'
      BY DEF SetsInv
    <3>1. cfg' = cfg /\ Good(d) /\ n \in 0 .. cfg.sets - 1
      BY <1>1, <1>3, <2>2, SetupKept DEF Good
    <3>2. measured'[d] = measured[d] \cup {[run |-> th[d].run, open |-> open[d]]}
      BY <1>8 DEF TypeOK
    <3>3. SetMeasured(d, n) => SetMeasured(d, n)'
      BY <3>1, <3>2 DEF SetMeasured
    <3>4. CASE th[d].run = Run("round", n) /\ RoundOpen(open[d], n)
      <4>1. [run |-> th[d].run, open |-> open[d]] \in measured'[d]
        BY <3>2
      <4> QED BY <3>1, <3>4, <4>1 DEF SetMeasured, RoundOpen
    <3>5. \/ SetMeasured(d, n) \/ Run("round", n) \in ToSet(th[d].todo) \/ Todo(d, "prepare")
          \/ th[d].run = Run("round", n) /\ RoundOpen(open[d], n)
      BY <3>1 DEF DeviceInv, SetsInv
    <3> QED BY <1>3, <3>3, <3>4, <3>5 DEF Todo
  <2> QED BY <1>4, <1>5, <2>1, <2>3, <2>4, <2>5, <2>6, OneDevice DEF DeviceInv
<1> QED BY <1>7, <1>8 DEF KernelRun

LEMMA StopProfStep == ASSUME RoundsInv, NEW d \in Devices, StopProf(d) PROVE RoundsInv'
<1> USE DEF RoundsInv
<1>1. /\ setup' = setup /\ sig' = sig /\ rng' = rng /\ path' = path
      /\ count' = count /\ data' = data /\ buffers' = buffers /\ reader' = reader
      /\ measured' = measured /\ files' = files /\ faults' = faults
      /\ task' = [task EXCEPT ![d] = AfterStop(@, cfg)]
      /\ open' = [open EXCEPT ![d] = Closed(@, Stop(task[d], cfg, setup.mc2))]
      /\ th' = [th EXCEPT ![d].pc = "join"] /\ th[d].pc = "ran"
  BY DEF StopProf
<1>2. /\ th'[d].pc = "join" /\ th'[d].launch = th[d].launch /\ th'[d].what = th[d].what
      /\ th'[d].todo = th[d].todo /\ th'[d].run = th[d].run /\ th'[d].failed = th[d].failed
  BY <1>1 DEF TypeOK, Thread
<1>3. /\ task[d] \in Tasks /\ task'[d] = AfterStop(task[d], cfg) /\ cfg \in Settings
      /\ open'[d] = Closed(open[d], Stop(task[d], cfg, setup.mc2))
  BY <1>1, SetupFacts DEF TypeOK
<1>4. TypeOK'
  <2>1. AfterStop(task[d], cfg) \in Tasks
    BY <1>3, TaskTypes
  <2>2. Closed(open[d], Stop(task[d], cfg, setup.mc2)) \in SUBSET OpenRec
    BY DEF TypeOK, Closed
  <2>3. th' \in [Devices -> Thread]
    BY ZenonT(30), <1>1 DEF TypeOK, Thread
  <2>4. task' \in [Devices -> Tasks] /\ open' \in [Devices -> SUBSET OpenRec]
    BY <1>1, <2>1, <2>2 DEF TypeOK
  <2> QED BY <1>1, <2>3, <2>4 DEF TypeOK
<1>5. \A e \in Devices \ {d} : Untouched(e)
  BY <1>1 DEF TypeOK, Untouched
<1>6. DeviceInv(d)'
  <2> USE DEF DeviceInv
  <2>1. /\ ~task'[d].running /\ task'[d].last = task[d].last /\ task'[d].log = task[d].log
        /\ task'[d].l2Pmu = task[d].l2Pmu
    BY <1>3, StopFields
  <2>2. ASSUME NEW o \in open'[d]
        PROVE  o.channel = "AICPU" /\ Closable(d, o)' /\ cfg'.chip = "910B" /\ setup'.mc2
    <3>1. o \in open[d] /\ o.channel \notin Stop(task[d], cfg, setup.mc2)
      BY <1>3 DEF Closed
    <3> QED BY <1>1, <2>1, <3>1 DEF ChannelsInv, Closable, cfg
  <2>3. ChannelsInv(d)'
    BY <2>1, <2>2 DEF ChannelsInv
  <2>4. PathInv(d)' /\ BuffersInv(d)' /\ FilesInv(d)' /\ ReaderInv(d)' /\ RangeInv(d)'
    BY <1>1, <1>2 DEF PathInv, BuffersInv, FilesInv, ReaderInv, RangeInv
  <2>5. BlocksInv(d)'
    BY <1>1, <1>2 DEF BlocksInv, OwnBlock
  <2>6. TodoInv(d)'
    BY <1>1, <1>2, SetupKept DEF TodoInv, Has
  <2>7. SetsInv(d)'
    BY <1>1, <1>2, SetsKept
  <2>8. StateAfter(d)' = StateAfter(d)
    BY <1>1, <1>2, <1>3 DEF StateAfter
  <2>9. FlagsInv(d)'
    BY <1>1, <1>2, <2>1, <2>8, FlagsKept
  <2> QED BY <2>3, <2>4, <2>5, <2>6, <2>7, <2>9
<1> QED BY <1>4, <1>5, <1>6, OneDevice

LEMMA JoinReaderStep == ASSUME RoundsInv, NEW d \in Devices, JoinReader(d) PROVE RoundsInv'
<1> USE DEF RoundsInv
<1>1. /\ setup' = setup /\ sig' = sig /\ rng' = rng /\ path' = path /\ task' = task /\ open' = open
      /\ count' = count /\ buffers' = buffers /\ reader' = [reader EXCEPT ![d] = NoReader]
      /\ measured' = measured /\ files' = files /\ faults' = faults
      /\ data' = {b \in data : b.dev = d => b.of.channel \in Names(open[d])}
      /\ th' = [th EXCEPT ![d].pc = "next", ![d].run = NoRun] /\ th[d].pc = "join"
  BY DEF JoinReader
<1>2. /\ th'[d].pc = "next" /\ th'[d].launch = th[d].launch /\ th'[d].what = th[d].what
      /\ th'[d].todo = th[d].todo /\ th'[d].failed = th[d].failed /\ reader'[d] = NoReader
  BY <1>1 DEF TypeOK, Thread
<1>3. TypeOK'
  <2>1. NoRun \in Runs
    BY RunTypes DEF NoRun, RunKinds
  <2>2. NoReader \in ReaderRec
    BY DEF NoReader, ReaderRec
  <2>3. th' \in [Devices -> Thread] /\ reader' \in [Devices -> ReaderRec] /\ data' \in SUBSET Block
    BY ZenonT(30), <1>1, <2>1, <2>2 DEF TypeOK, Thread
  <2> QED BY <1>1, <2>3 DEF TypeOK
<1>4. \A e \in Devices \ {d} : Untouched(e)
  BY <1>1 DEF TypeOK, Untouched
<1>5. DeviceInv(d)'
  <2> USE DEF DeviceInv
  <2>1. \A o \in open[d] : o.channel = "AICPU"
    BY <1>1 DEF ChannelsInv, Closable
  <2>2. ChannelsInv(d)'
    BY <1>1, <1>2 DEF ChannelsInv, Closable, cfg
  <2>3. PathInv(d)' /\ BuffersInv(d)' /\ FilesInv(d)' /\ RangeInv(d)'
    BY <1>1, <1>2 DEF PathInv, BuffersInv, FilesInv, RangeInv
  <2>4. ReaderInv(d)'
    BY <1>2 DEF ReaderInv, NoReader
  <2>5. BlocksInv(d)'
    <3>1. \A b \in data' : b.dev = d => b.of.channel = "AICPU"
      BY <1>1, <2>1 DEF Names
    <3>2. reader'[d].got = {}
      BY <1>2 DEF NoReader
    <3> QED BY <3>1, <3>2 DEF BlocksInv, OwnBlock
  <2>6. TodoInv(d)'
    BY <1>1, <1>2, SetupKept DEF TodoInv, Has
  <2>7. SetsInv(d)'
    BY <1>1, <1>2, SetsKept
  <2>8. StateAfter(d)' = StateAfter(d)
    BY <1>1, <1>2 DEF StateAfter
  <2>9. FlagsInv(d)'
    BY <1>1, <1>2, <2>8, FlagsKept
  <2> QED BY <2>2, <2>3, <2>4, <2>5, <2>6, <2>7, <2>9
<1> QED BY <1>3, <1>4, <1>5, OneDevice

\* What is left of the runs once the first one has been taken.
LEMMA TailTodo ==
    ASSUME NEW d \in Devices, TypeOK, TodoInv(d), setup' = setup, th[d].todo # << >>,
           th[d].pc # "idle", th'[d].pc # "idle", th'[d].todo = Tail(th[d].todo)
    PROVE  TodoInv(d)'
<1>1. th[d].todo \in Seq(Runs)
  BY DEF TypeOK, Thread
<1>2. Ordered(Tail(th[d].todo)) /\ ToSet(Tail(th[d].todo)) \subseteq ToSet(th[d].todo)
  BY <1>1, TailRuns DEF TodoInv
<1>3. \A r \in ToSet(Tail(th[d].todo)) : Proper(r)'
  BY <1>2, SetupKept DEF TodoInv
<1>4. Has(Tail(th[d].todo), "pcSampling") /\ cfg.timeline => Has(Tail(th[d].todo), "timeline")
  BY <1>1, TailRuns DEF TodoInv, Has, Before
<1> QED BY <1>2, <1>3, <1>4, SetupKept DEF TodoInv, Has

LEMMA LaunchEndsStep == ASSUME RoundsInv, NEW d \in Devices, LaunchEnds(d) PROVE RoundsInv'
<1> USE DEF RoundsInv
<1>1. /\ setup' = setup /\ sig' = sig /\ rng' = rng /\ path' = path /\ task' = task /\ open' = open
      /\ count' = count /\ reader' = reader /\ data' = data
      /\ measured' = measured /\ files' = files /\ faults' = faults
      /\ th' = [th EXCEPT ![d].pc = "idle", ![d].todo = << >>] /\ th[d].pc = "next"
      /\ buffers' = [buffers EXCEPT ![d] = [held |-> {}, live |-> @.live \ @.held,
                                            twice |-> @.held \ @.live]]
      /\ sig \/ th[d].todo = << >>
  BY DEF LaunchEnds, Stopped
<1>2. /\ th'[d].pc = "idle" /\ th'[d].launch = th[d].launch /\ th'[d].what = th[d].what
      /\ th'[d].todo = << >> /\ th'[d].run = th[d].run /\ th'[d].failed = th[d].failed
  BY <1>1 DEF TypeOK, Thread
<1>3. buffers'[d].live = buffers[d].live \ buffers[d].held
      /\ buffers'[d].twice = buffers[d].held \ buffers[d].live
  BY <1>1 DEF TypeOK
<1>4. TypeOK'
  <2>1. th' \in [Devices -> Thread]
    <3>1. [th[d] EXCEPT !.pc = "idle", !.todo = << >>] \in Thread
      <4>1. th[d] \in Thread
        BY DEF TypeOK
      <4> QED BY <4>1, NoRuns DEF Thread
    <3>2. th' = [th EXCEPT ![d] = [th[d] EXCEPT !.pc = "idle", !.todo = << >>]]
      BY <1>1 DEF TypeOK
    <3> QED BY <3>1, <3>2 DEF TypeOK
  <2>2. buffers' \in [Devices -> BufferRec]
    BY <1>1 DEF TypeOK, BufferRec
  <2> QED BY <1>1, <2>1, <2>2 DEF TypeOK
<1>5. \A e \in Devices \ {d} : Untouched(e)
  BY <1>1 DEF TypeOK, Untouched
<1>6. DeviceInv(d)'
  <2> USE DEF DeviceInv
  <2>1. ChannelsInv(d)'
    BY <1>1, <1>2 DEF ChannelsInv, Closable, cfg
  <2>2. PathInv(d)' /\ FilesInv(d)' /\ ReaderInv(d)'
    BY <1>1, <1>2 DEF PathInv, FilesInv, ReaderInv
  <2>3. BuffersInv(d)'
    BY <1>1, <1>2, <1>3 DEF BuffersInv
  <2>4. RangeInv(d)'
    BY <1>1, <1>2 DEF RangeInv
  <2>5. BlocksInv(d)'
    BY <1>1, <1>2 DEF BlocksInv, OwnBlock
  <2>6. TodoInv(d)'
    BY <1>2, NoRuns DEF TodoInv, Has
  <2>7. SetsInv(d)' /\ FlagsInv(d)'
    <3>1. CASE sig
      BY <1>1, <3>1, NotGood DEF Good
    <3>2. CASE th[d].todo = << >>
      <4>1. StateAfter(d)' = StateAfter(d)
        BY <1>1, <1>2 DEF StateAfter
      <4> QED BY <1>1, <1>2, <3>2, <4>1, SetsKept, FlagsKept
    <3> QED BY <1>1, <3>1, <3>2
  <2> QED BY <2>1, <2>2, <2>3, <2>4, <2>5, <2>6, <2>7
<1> QED BY <1>4, <1>5, <1>6, OneDevice

\* A new task, and what it means for the channels and the flags.
LEMMA FreshTask ==
    ASSUME NEW c
    PROVE  /\ Create(c).state = "IDLE" /\ ~Create(c).last /\ ~Create(c).log
           /\ Create(c).l2Pmu = c.l2
BY DEF Create

Launching(n, q) == [IdleThread EXCEPT !.pc = "next", !.launch = n, !.what = "launch", !.todo = q]

LEMMA LaunchingThread ==
    ASSUME NEW n \in Nat, NEW q \in Seq(Runs)
    PROVE  /\ Launching(n, q) \in Thread /\ Launching(n, q).pc = "next"
           /\ Launching(n, q).launch = n /\ Launching(n, q).what = "launch"
           /\ Launching(n, q).todo = q /\ ~Launching(n, q).failed
<1> DEFINE y == Launching(n, q)
<1>0. y = [IdleThread EXCEPT !.pc = "next", !.launch = n, !.what = "launch", !.todo = q]
  BY DEF Launching
<1> HIDE DEF y
<1>1. IdleThread \in Thread
  BY NoRuns, RunTypes DEF IdleThread, Thread, NoRun, RunKinds
<1>2. ~IdleThread.failed
  BY DEF IdleThread
<1>3. y \in Thread
  BY <1>0, <1>1 DEF Thread
<1>4. y.pc = "next" /\ y.launch = n /\ y.what = "launch" /\ y.todo = q /\ y.failed = IdleThread.failed
  BY <1>0, <1>1 DEF Thread
<1> QED BY <1>2, <1>3, <1>4 DEF y

LEMMA LaunchStep == ASSUME RoundsInv, NEW d \in Devices, Launch(d) PROVE RoundsInv'
<1> USE DEF RoundsInv
<1> DEFINE t == Launching(th[d].launch + 1, LaunchTodo)
<1>1. /\ setup' = setup /\ sig' = sig /\ rng' = rng /\ open' = open
      /\ count' = count /\ reader' = reader /\ data' = data /\ files' = files /\ faults' = faults
      /\ th' = [th EXCEPT ![d] = t] /\ th[d].pc = "idle" /\ ~setup.range
      /\ task' = [task EXCEPT ![d] = Create(cfg)]
      /\ path' = [path EXCEPT ![d] = th[d].launch + 1]
      /\ measured' = [measured EXCEPT ![d] = {}]
      /\ buffers' = [buffers EXCEPT ![d] = NoBuffers]
  BY DEF Launch, LaunchTodo, Launching
<1>2. setup \in Setups /\ cfg \in Settings /\ th[d].launch \in Nat
  BY SetupFacts DEF TypeOK, Thread
<1>3. LaunchTodo \in Seq(Runs) /\ NoRun \in Runs
  BY <1>2, LaunchRuns, RunTypes DEF NoRun, RunKinds
<1>4. th[d].launch + 1 \in Nat
  BY <1>2
<1>5. /\ t \in Thread /\ t.pc = "next" /\ t.launch = th[d].launch + 1 /\ t.what = "launch"
      /\ t.todo = LaunchTodo /\ ~t.failed
  BY <1>3, <1>4, LaunchingThread
<1> HIDE DEF t
<1>6. TypeOK'
  <2>1. Create(cfg) \in Tasks
    <3>1. cfg.l2 \in BOOLEAN
      BY <1>2, SetupFacts
    <3> QED BY <3>1 DEF Create, Tasks, InstrProfState
  <2>2. NoBuffers \in BufferRec
    BY DEF NoBuffers, BufferRec
  <2>3. /\ th' \in [Devices -> Thread] /\ task' \in [Devices -> Tasks] /\ path' \in [Devices -> Nat]
        /\ measured' \in [Devices -> SUBSET Measure] /\ buffers' \in [Devices -> BufferRec]
    BY <1>1, <1>2, <1>5, <2>1, <2>2 DEF TypeOK
  <2> QED BY <1>1, <2>3 DEF TypeOK
<1>7. \A e \in Devices \ {d} : Untouched(e)
  BY <1>1 DEF TypeOK, Untouched
<1>8. /\ th'[d].pc = "next" /\ th'[d].launch = th[d].launch + 1 /\ th'[d].what = "launch"
      /\ th'[d].todo = LaunchTodo /\ ~th'[d].failed
      /\ task'[d] = Create(cfg) /\ path'[d] = th[d].launch + 1 /\ measured'[d] = {}
      /\ buffers'[d] = NoBuffers
  BY <1>1, <1>5 DEF TypeOK
<1>9. DeviceInv(d)'
  <2> USE DEF DeviceInv
  <2>1. ChannelsInv(d)'
    <3>1. \A o \in open[d] : o.channel = "AICPU" /\ cfg.chip = "910B" /\ setup.mc2
      BY <1>1 DEF ChannelsInv, Closable
    <3>2. ~task'[d].last
      BY <1>8, FreshTask
    <3> QED BY <1>1, <1>8, <3>1, <3>2 DEF ChannelsInv, Closable, cfg
  <2>2. PathInv(d)' /\ FilesInv(d)' /\ ReaderInv(d)'
    BY <1>1, <1>8 DEF PathInv, FilesInv, ReaderInv
  <2>3. BuffersInv(d)'
    BY <1>8 DEF BuffersInv, NoBuffers
  <2>4. RangeInv(d)'
    BY <1>1, <1>8 DEF RangeInv
  <2>5. BlocksInv(d)'
    BY <1>1, <1>8 DEF BlocksInv, OwnBlock
  <2>6. TodoInv(d)'
    BY <1>1, <1>2, <1>8, LaunchRuns, SetupKept DEF TodoInv
  <2>7. SetsInv(d)'
    <3>1. Good(d)' => ~cfg.app
      BY <1>1, SetupKept DEF Good, RoundPerSet
    <3> QED BY <1>2, <1>8, <3>1, LaunchRuns DEF SetsInv, Todo
  <2>8. FlagsInv(d)'
    <3>1. /\ task'[d].state = "IDLE" /\ ~task'[d].last /\ ~task'[d].log
          /\ task'[d].l2Pmu = cfg.l2 /\ cfg' = cfg
      BY <1>1, <1>8, FreshTask, SetupKept
    <3>2. StateAfter(d)' = "IDLE"
      BY <1>8, <3>1 DEF StateAfter
    <3>3. Good(d)' => Todo(d, "prepare")'
      BY <1>1, <1>2, <1>8, LaunchRuns, SetupKept DEF Good, RoundPerSet, Todo, Has
    <3>4. /\ Todo(d, "pcSampling")' <=> cfg.pcSampling /\ setup.simt
          /\ Todo(d, "timeline")' <=> cfg.timeline
      BY <1>2, <1>8, LaunchRuns DEF Todo, Has
    <3> QED BY <1>1, <3>1, <3>2, <3>3, <3>4 DEF FlagsInv
  <2> QED BY <2>1, <2>2, <2>3, <2>4, <2>5, <2>6, <2>7, <2>8
<1> QED BY <1>6, <1>7, <1>9, OneDevice

\* However far PrepareClearL2CacheParam comes.
LEMMA PreparedBlocks ==
    ASSUME NEW n \in 0 .. Len(L2Blocks)
    PROVE  /\ Prepared(n) \in BufferRec /\ PreparedFails(n) \in BufferRec
           /\ Prepared(n).live = Prepared(n).held
           /\ PreparedFails(n).live \subseteq PreparedFails(n).held
           /\ PreparedFails(n).held \ PreparedFails(n).live \subseteq Retried
<1> DEFINE s == {L2Blocks[i] : i \in 1 .. n}
<1>1. Len(L2Blocks) = 5
  BY DEF L2Blocks
<1>2. s \in SUBSET AllBlocks
  BY <1>1 DEF AllBlocks
<1> HIDE DEF s
<1>3. Prepared(n) = [held |-> s, twice |-> {}, live |-> s]
  BY DEF Prepared, s
<1>4. Prepared(n) \in BufferRec /\ Prepared(n).live = s /\ Prepared(n).held = s
  BY <1>2, <1>3 DEF BufferRec
<1>5. /\ PreparedFails(n) \in BufferRec /\ PreparedFails(n).held = s
      /\ PreparedFails(n).live = s \ {"l2Buffer", "blockLen"}
  BY <1>2, <1>4 DEF BufferRec, PreparedFails
<1> QED BY <1>4, <1>5 DEF Retried

LEMMA KernelReplayStep == ASSUME RoundsInv, NEW d \in Devices, KernelReplay(d) PROVE RoundsInv'
<1> USE DEF RoundsInv
<1> DEFINE q == IF th[d].what = "range" THEN ReplayRounds ELSE Rounds
           k == Run("prepare", 0)
<1>1. /\ setup' = setup /\ sig' = sig /\ rng' = rng /\ open' = open /\ path' = path /\ task' = task
      /\ count' = count /\ reader' = reader /\ data' = data /\ files' = files /\ measured' = measured
      /\ th' = [th EXCEPT ![d].todo = q] /\ th[d].pc = "next" /\ th[d].todo = <<k>>
  BY DEF KernelReplay
<1>2. setup \in Setups /\ cfg.sets \in Nat
  BY SetupFacts DEF TypeOK
<1>3. /\ q \in Seq(Runs) /\ Ordered(q)
      /\ \A r \in ToSet(q) : r.what \in {"evict", "round"} /\ Proper(r)
      /\ ~cfg.app => \A n \in 0 .. cfg.sets - 1 : Run("round", n) \in ToSet(q)
  <2>1. CASE th[d].what = "range"
    <3>1. \A r \in ToSet(ReplayRounds) : r.what = "round" /\ Proper(r)
      BY <1>2, ReplayRuns DEF Proper
    <3> QED BY <1>2, <2>1, <3>1, ReplayRuns
  <2>2. CASE th[d].what # "range"
    BY <1>2, <2>2, RoundRuns
  <2> QED BY <2>1, <2>2
<1>4. Has(q, "evict") => SupportProfL2CacheEvict
  BY <1>3 DEF Has, Proper
<1>5. th[d].what # "range" /\ ~cfg.app /\ SupportProfL2CacheEvict => Has(q, "evict")
  BY <1>2, RoundRuns
<1>6. k \in Runs /\ k.what = "prepare" /\ ToSet(<<k>>) = {k}
  BY RunTypes, OneRun DEF RunKinds
<1> HIDE DEF q, k
<1>7. /\ th'[d].pc = "next" /\ th'[d].launch = th[d].launch /\ th'[d].what = th[d].what
      /\ th'[d].todo = q /\ th'[d].run = th[d].run /\ th'[d].failed = th[d].failed
  BY <1>1 DEF TypeOK, Thread
<1>8. /\ faults' \in Nat
      /\ \E x \in BufferRec : /\ buffers' = [buffers EXCEPT ![d] = x]
                              /\ x.live \subseteq x.held /\ x.held \ x.live \subseteq Retried
  <2>1. CASE UNCHANGED faults /\ cfg.app /\ buffers' = [buffers EXCEPT ![d] = NoBuffers]
    <3>1. /\ NoBuffers \in BufferRec /\ NoBuffers.live \subseteq NoBuffers.held
          /\ NoBuffers.held \ NoBuffers.live \subseteq Retried
      BY DEF NoBuffers, BufferRec
    <3> QED BY <2>1, <3>1 DEF TypeOK
  <2>2. CASE UNCHANGED faults /\ buffers' = [buffers EXCEPT ![d] = Prepared(Len(L2Blocks))]
    <3>1. Len(L2Blocks) \in 0 .. Len(L2Blocks)
      BY DEF L2Blocks
    <3>2. /\ Prepared(Len(L2Blocks)) \in BufferRec
          /\ Prepared(Len(L2Blocks)).live = Prepared(Len(L2Blocks)).held
      BY <3>1, PreparedBlocks
    <3> QED BY <2>2, <3>2 DEF TypeOK
  <2>3. CASE /\ faults > 0 /\ faults' = faults - 1
             /\ \E n \in 0 .. Len(L2Blocks) : buffers' = [buffers EXCEPT ![d] = PreparedFails(n)]
    <3>1. PICK n \in 0 .. Len(L2Blocks) : buffers' = [buffers EXCEPT ![d] = PreparedFails(n)]
      BY <2>3
    <3>2. faults' \in Nat
      BY <2>3 DEF TypeOK
    <3> QED BY <3>1, <3>2, PreparedBlocks
  <2> QED BY <2>1, <2>2, <2>3 DEF KernelReplay
<1>9. PICK x \in BufferRec : /\ buffers' = [buffers EXCEPT ![d] = x]
                             /\ x.live \subseteq x.held /\ x.held \ x.live \subseteq Retried
  BY <1>8
<1>10. TypeOK'
  <2>1. th' \in [Devices -> Thread]
    <3>0. th[d] \in Thread
      BY DEF TypeOK
    <3>1. [th[d] EXCEPT !.todo = q] \in Thread
      BY <1>3, <3>0 DEF Thread
    <3>2. th' = [th EXCEPT ![d] = [th[d] EXCEPT !.todo = q]]
      BY <1>1 DEF TypeOK
    <3> QED BY <3>1, <3>2 DEF TypeOK
  <2>2. buffers' \in [Devices -> BufferRec]
    BY <1>9 DEF TypeOK
  <2> QED BY <1>1, <1>8, <2>1, <2>2 DEF TypeOK
<1>11. \A e \in Devices \ {d} : Untouched(e)
  BY <1>1, <1>9 DEF TypeOK, Untouched
<1>12. DeviceInv(d)'
  <2> USE DEF DeviceInv
  <2>1. ChannelsInv(d)' /\ BlocksInv(d)'
    BY <1>1, <1>7, ChannelsKept, BlocksKept
  <2>2. PathInv(d)' /\ FilesInv(d)' /\ ReaderInv(d)'
    BY <1>1, <1>7 DEF PathInv, FilesInv, ReaderInv
  <2>3. BuffersInv(d)'
    <3>1. buffers'[d] = x
      BY <1>9 DEF TypeOK
    <3> QED BY <1>7, <1>9, <3>1 DEF BuffersInv
  <2>4. setup.range => th[d].what = "range"
    BY <1>1 DEF RangeInv
  <2>5. RangeInv(d)'
    <3>1. setup.range => q # << >>
      <4>1. setup.range => q = ReplayRounds
        BY <2>4 DEF q
      <4>2. ReplayRounds # << >>
        BY <1>2, ReplayRuns
      <4> QED BY <4>1, <4>2
    <3> QED BY <1>1, <1>7, <3>1 DEF RangeInv
  <2>6. TodoInv(d)'
    BY <1>1, <1>3, <1>7, SetupKept DEF TodoInv, Has
  <2>7. SetsInv(d)'
    BY <1>1, <1>3, <1>7, SetupKept DEF SetsInv, Good, RoundPerSet
  <2>8. FlagsInv(d)'
    <3> SUFFICES ASSUME Good(d)' PROVE FlagsInv(d)'
      BY DEF FlagsInv
    <3>1. Good(d) /\ RoundPerSet /\ cfg' = cfg /\ th[d].what \in {"launch", "range"}
      BY <1>1, <1>7, SetupKept DEF Good
    <3>2. Todo(d, "prepare") /\ ~Todo(d, "pcSampling") /\ ~Todo(d, "timeline")
      BY <1>1, <1>6 DEF Todo, Has
    <3>3. ~Has(q, "prepare") /\ ~Has(q, "pcSampling") /\ ~Has(q, "timeline")
      BY <1>3 DEF Has
    <3>4. StateAfter(d)' = StateAfter(d)
      BY <1>1, <1>7 DEF StateAfter
    <3>5. ~task[d].log /\ ~task[d].last /\ (cfg.chip = "910B" => task[d].l2Pmu = cfg.l2)
      BY <3>1, <3>2 DEF FlagsInv
    <3>6. cfg.chip = "910B" /\ cfg.l2 => Has(q, "evict")
      <4>1. th[d].what = "range" => setup.range
        BY <1>1 DEF RangeInv
      <4>2. cfg.chip = "910B" /\ cfg.l2 => ~setup.range /\ SupportProfL2CacheEvict
        BY <3>1 DEF RoundPerSet, L2TakesRound
      <4> QED BY <1>5, <3>1, <4>1, <4>2 DEF RoundPerSet
    <3>7. \/ StateAfter(d) = "DONE"
          \/ StateAfter(d) = "IDLE" /\ ~cfg.timeline /\ ~(cfg.pcSampling /\ setup.simt)
      BY <3>1, <3>2 DEF FlagsInv
    <3> QED BY <1>1, <1>7, <3>1, <3>3, <3>4, <3>5, <3>6, <3>7 DEF FlagsInv, Todo
  <2> QED BY <2>1, <2>2, <2>3, <2>5, <2>6, <2>7, <2>8
<1> QED BY <1>10, <1>11, <1>12, OneDevice

-----------------------------------------------------------------------------
(* Ranges. *)

\* What an idle device keeps while its range, its task and its directory change.
LEMMA IdleKept ==
    ASSUME NEW d \in Devices, DeviceInv(d), setup' = setup, th[d].pc = "idle", reader' = reader,
           count' = count, open' = open, data' = data, files' = files,
           th'[d].pc \in {"idle", "next"}, task'[d] = task[d] \/ task'[d] = Create(cfg)
    PROVE  ChannelsInv(d)' /\ ReaderInv(d)' /\ BlocksInv(d)' /\ FilesInv(d)'
<1> USE DEF DeviceInv
<1>1. \A o \in open[d] : o.channel = "AICPU" /\ cfg.chip = "910B" /\ setup.mc2 /\ ~task[d].last
  BY DEF ChannelsInv, Closable
<1>2. open[d] # {} => ~task'[d].last
  BY <1>1, FreshTask
<1>3. ChannelsInv(d)'
  BY <1>1, <1>2 DEF ChannelsInv, Closable, cfg
<1>4. ReaderInv(d)' /\ FilesInv(d)'
  BY DEF ReaderInv, FilesInv
<1>5. BlocksInv(d)'
  BY DEF BlocksInv, OwnBlock
<1> QED BY <1>3, <1>4, <1>5

LEMMA MstxRangeAddStep == ASSUME RoundsInv, NEW d \in Devices, MstxRangeAdd(d) PROVE RoundsInv'
<1> USE DEF RoundsInv
<1>1. /\ setup' = setup /\ sig' = sig /\ open' = open /\ path' = path /\ task' = task
      /\ count' = count /\ reader' = reader /\ data' = data /\ files' = files /\ measured' = measured
      /\ buffers' = buffers /\ faults' = faults /\ th[d].pc = "idle" /\ setup.range
  BY DEF MstxRangeAdd
<1>2. CASE /\ ~IsInMstxRange(d)
           /\ rng' = [rng EXCEPT ![d] = [NoRange EXCEPT !.in = TRUE, !.nested = rng[d].nested]]
           /\ th' = [th EXCEPT ![d].what = "none", ![d].failed = FALSE]
  <2>1. rng[d] \in RangeRec /\ rng[d].nested \in BOOLEAN
    BY DEF TypeOK, RangeRec
  <2>2. NoRange \in RangeRec /\ ~NoRange.selected
    BY DEF NoRange, RangeRec
  <2>3. /\ rng'[d] \in RangeRec /\ rng'[d].in /\ ~rng'[d].selected
    BY <1>2, <2>1, <2>2 DEF TypeOK, RangeRec
  <2>4. /\ th'[d].pc = "idle" /\ th'[d].launch = th[d].launch /\ th'[d].what = "none"
        /\ th'[d].todo = th[d].todo
    BY <1>1, <1>2 DEF TypeOK, Thread
  <2>5. TypeOK'
    <3>1. th' \in [Devices -> Thread]
      BY ZenonT(30), <1>2 DEF TypeOK, Thread
    <3>2. rng' \in [Devices -> RangeRec]
      BY <1>2, <2>3 DEF TypeOK
    <3> QED BY <1>1, <3>1, <3>2 DEF TypeOK
  <2>6. \A e \in Devices \ {d} : Untouched(e)
    BY <1>1, <1>2 DEF TypeOK, Untouched
  <2>7. DeviceInv(d)'
    <3>1. ChannelsInv(d)' /\ ReaderInv(d)' /\ BlocksInv(d)' /\ FilesInv(d)'
      BY <1>1, <2>4, IdleKept
    <3>2. PathInv(d)' /\ BuffersInv(d)'
      BY <1>1, <2>4 DEF PathInv, BuffersInv, DeviceInv
    <3>3. RangeInv(d)'
      BY <1>1, <2>3, <2>4 DEF RangeInv
    <3>4. TodoInv(d)'
      BY <1>1, <2>4, TodoKept DEF DeviceInv
    <3>5. SetsInv(d)' /\ FlagsInv(d)'
      BY <2>4, NotGood DEF Good
    <3> QED BY <3>1, <3>2, <3>3, <3>4, <3>5 DEF DeviceInv
  <2> QED BY <2>5, <2>6, <2>7, OneDevice
<1>3. CASE /\ IsInMstxRange(d) /\ rng' = [rng EXCEPT ![d].nested = TRUE]
           /\ UNCHANGED th
  <2>1. /\ rng'[d].in = rng[d].in /\ rng'[d].selected = rng[d].selected
        /\ rng'[d].flag = rng[d].flag /\ rng'[d].pending = rng[d].pending
    BY <1>3 DEF TypeOK, RangeRec
  <2>2. TypeOK'
    <3>1. rng' \in [Devices -> RangeRec]
      BY <1>3 DEF TypeOK, RangeRec
    <3> QED BY <1>1, <1>3, <3>1 DEF TypeOK
  <2>3. \A e \in Devices \ {d} : Untouched(e)
    BY <1>1, <1>3 DEF TypeOK, Untouched
  <2>4. DeviceInv(d)'
    <3>1. ChannelsInv(d)' /\ ReaderInv(d)' /\ BlocksInv(d)' /\ FilesInv(d)'
      BY <1>1, <1>3, IdleKept
    <3>2. PathInv(d)' /\ BuffersInv(d)'
      BY <1>1, <1>3 DEF PathInv, BuffersInv, DeviceInv
    <3>3. RangeInv(d)'
      BY <1>1, <1>3, <2>1 DEF RangeInv, DeviceInv
    <3>4. TodoInv(d)' /\ SetsInv(d)'
      BY <1>1, <1>3, TodoKept, SetsKept DEF DeviceInv
    <3>5. StateAfter(d)' = StateAfter(d)
      BY <1>1, <1>3 DEF StateAfter, cfg
    <3>6. FlagsInv(d)'
      BY <1>1, <1>3, <3>5, FlagsKept DEF DeviceInv
    <3> QED BY <3>1, <3>2, <3>3, <3>4, <3>6 DEF DeviceInv
  <2> QED BY <2>2, <2>3, <2>4, OneDevice
<1> QED BY <1>2, <1>3 DEF MstxRangeAdd

LEMMA RangeReplayProfDataStep ==
    ASSUME RoundsInv, NEW d \in Devices, RangeReplayProfData(d) PROVE RoundsInv'
<1> USE DEF RoundsInv
<1>1. /\ setup' = setup /\ sig' = sig /\ open' = open /\ task' = task
      /\ count' = count /\ reader' = reader /\ data' = data /\ files' = files /\ measured' = measured
      /\ buffers' = buffers /\ th[d].pc = "idle" /\ setup.range /\ rng[d].in
  BY DEF RangeReplayProfData, IsInMstxRange
<1>2. PICK selected \in BOOLEAN :
         /\ th' = [th EXCEPT ![d].launch = @ + 1]
         /\ path' = [path EXCEPT ![d] = IF selected THEN th[d].launch + 1 ELSE 0]
         /\ \/ /\ rng' = [rng EXCEPT ![d].flag = TRUE, ![d].selected = @ \/ selected,
                                     ![d].pending = @ + 1]
               /\ UNCHANGED faults
            \/ /\ ~rng[d].flag /\ faults > 0 /\ faults' = faults - 1
               /\ UNCHANGED rng
  BY DEF RangeReplayProfData
<1>3. /\ th[d] \in Thread /\ th[d].launch \in Nat /\ rng[d] \in RangeRec /\ rng[d].pending \in Nat
      /\ rng[d].selected \in BOOLEAN
  BY DEF TypeOK, Thread, RangeRec
<1>4. /\ th'[d].pc = "idle" /\ th'[d].what = th[d].what
      /\ th'[d].todo = th[d].todo /\ th'[d].failed = th[d].failed
  BY <1>1, <1>2 DEF TypeOK, Thread
<1>5. th[d].what = "none"
  BY <1>1 DEF DeviceInv, RangeInv
<1>6. /\ rng'[d] \in RangeRec /\ rng'[d].in /\ (rng'[d].selected => rng'[d].flag)
      /\ \A e \in Devices \ {d} : rng'[e] = rng[e]
  <2>1. CASE rng' = [rng EXCEPT ![d].flag = TRUE, ![d].selected = @ \/ selected, ![d].pending = @ + 1]
    <3>1. (rng[d].selected \/ selected) \in BOOLEAN /\ rng[d].pending + 1 \in Nat
      BY <1>3
    <3> QED BY <1>1, <1>3, <2>1, <3>1 DEF TypeOK, RangeRec
  <2>2. CASE UNCHANGED rng
    BY <1>1, <1>3, <2>2 DEF DeviceInv, RangeInv
  <2> QED BY <1>2, <2>1, <2>2
<1>7. TypeOK'
  <2>1. th' \in [Devices -> Thread]
    <3>1. PICK n \in Nat : n = th[d].launch + 1
      BY <1>3
    <3>2. [th[d] EXCEPT !.launch = n] \in Thread
      BY <1>3 DEF Thread
    <3>3. th' = [th EXCEPT ![d] = [th[d] EXCEPT !.launch = n]]
      BY <1>2, <3>1 DEF TypeOK
    <3> QED BY <3>2, <3>3 DEF TypeOK
  <2>2. path' \in [Devices -> Nat]
    BY <1>2, <1>3 DEF TypeOK
  <2>3. rng' \in [Devices -> RangeRec]
    <3>1. rng' \in [Devices -> RangeRec] \/ rng' = [rng EXCEPT ![d] = rng'[d]]
      BY <1>2 DEF TypeOK
    <3> QED BY <1>6, <3>1 DEF TypeOK
  <2>4. faults' \in Nat
    BY <1>2 DEF TypeOK
  <2> QED BY <1>1, <2>1, <2>2, <2>3, <2>4 DEF TypeOK
<1>8. \A e \in Devices \ {d} : Untouched(e)
  BY <1>1, <1>2, <1>6 DEF TypeOK, Untouched
<1>9. DeviceInv(d)'
  <2>1. ChannelsInv(d)' /\ ReaderInv(d)' /\ BlocksInv(d)' /\ FilesInv(d)'
    BY <1>1, <1>4, IdleKept
  <2>2. PathInv(d)' /\ BuffersInv(d)'
    BY <1>1, <1>4 DEF PathInv, BuffersInv, DeviceInv
  <2>3. RangeInv(d)'
    BY <1>1, <1>4, <1>5, <1>6 DEF RangeInv
  <2>4. TodoInv(d)'
    BY <1>1, <1>4, TodoKept DEF DeviceInv
  <2>5. SetsInv(d)' /\ FlagsInv(d)'
    BY <1>4, <1>5, NotGood DEF Good
  <2> QED BY <2>1, <2>2, <2>3, <2>4, <2>5 DEF DeviceInv
<1> QED BY <1>7, <1>8, <1>9, OneDevice

LEMMA NestedEndStep == ASSUME RoundsInv, NEW d \in Devices, NestedEnd(d) PROVE RoundsInv'
<1> USE DEF RoundsInv
<1>1. /\ setup' = setup /\ sig' = sig /\ open' = open /\ path' = path /\ task' = task
      /\ count' = count /\ reader' = reader /\ data' = data /\ files' = files /\ measured' = measured
      /\ buffers' = buffers /\ faults' = faults /\ th' = th /\ th[d].pc = "idle"
      /\ rng' = [rng EXCEPT ![d].nested = FALSE]
  BY DEF NestedEnd
<1>2. /\ rng'[d].in = rng[d].in /\ rng'[d].selected = rng[d].selected /\ ~rng'[d].nested
      /\ rng'[d].flag = rng[d].flag /\ rng'[d].pending = rng[d].pending
  BY <1>1 DEF TypeOK, RangeRec
<1>3. TypeOK'
  <2>1. rng' \in [Devices -> RangeRec]
    BY <1>1 DEF TypeOK, RangeRec
  <2> QED BY <1>1, <2>1 DEF TypeOK
<1>4. \A e \in Devices \ {d} : Untouched(e)
  BY <1>1 DEF TypeOK, Untouched
<1>5. DeviceInv(d)'
  <2>1. ChannelsInv(d)' /\ ReaderInv(d)' /\ BlocksInv(d)' /\ FilesInv(d)'
    BY <1>1, IdleKept
  <2>2. PathInv(d)' /\ BuffersInv(d)'
    BY <1>1 DEF PathInv, BuffersInv, DeviceInv
  <2>3. RangeInv(d)'
    BY <1>1, <1>2 DEF RangeInv, DeviceInv
  <2>4. TodoInv(d)' /\ SetsInv(d)'
    BY <1>1, TodoKept, SetsKept DEF DeviceInv
  <2>5. StateAfter(d)' = StateAfter(d)
    BY <1>1 DEF StateAfter, cfg
  <2>6. FlagsInv(d)'
    BY <1>1, <2>5, FlagsKept DEF DeviceInv
  <2> QED BY <2>1, <2>2, <2>3, <2>4, <2>6 DEF DeviceInv
<1> QED BY <1>3, <1>4, <1>5, OneDevice

LEMMA MstxRangeEndStep == ASSUME RoundsInv, NEW d \in Devices, MstxRangeEnd(d) PROVE RoundsInv'
<1> USE DEF RoundsInv
<1> DEFINE k == Run("prepare", 0)
           Replayed == /\ th' = [th EXCEPT ![d].pc = "next", ![d].launch = @ + 1, ![d].what = "range",
                                           ![d].todo = <<k>>]
                       /\ path' = [path EXCEPT ![d] = th[d].launch + 1]
                       /\ UNCHANGED faults
           Left == ~rng[d].selected /\ UNCHANGED <<th, path, faults>>
           Failed == /\ faults > 0 /\ faults' = faults - 1
                     /\ th' = [th EXCEPT ![d].failed = TRUE]
                     /\ UNCHANGED path
<1>1. /\ setup' = setup /\ sig' = sig /\ open' = open
      /\ count' = count /\ reader' = reader /\ data' = data /\ files' = files
      /\ th[d].pc = "idle" /\ rng[d].in
      /\ rng' = [rng EXCEPT ![d].in = FALSE, ![d].flag = FALSE]
      /\ task' = [task EXCEPT ![d] = Create(cfg)]
      /\ measured' = [measured EXCEPT ![d] = {}]
      /\ buffers' = [buffers EXCEPT ![d] = NoBuffers]
  BY DEF MstxRangeEnd, IsInMstxRange
<1>2. setup \in Setups /\ setup.range /\ th[d].what = "none" /\ (rng[d].selected => rng[d].flag)
  BY <1>1, SetupFacts DEF DeviceInv, RangeInv, TypeOK
<1>3. Replayed \/ Left \/ Failed
  BY <1>2 DEF MstxRangeEnd, RangeReplayInit
<1>4. /\ ~rng'[d].in /\ rng'[d].selected = rng[d].selected
      /\ rng'[d].nested = rng[d].nested /\ rng'[d].pending = rng[d].pending
  BY <1>1 DEF TypeOK, RangeRec
<1>5. task'[d] = Create(cfg) /\ measured'[d] = {} /\ buffers'[d] = NoBuffers
  BY <1>1 DEF TypeOK
<1>6. k \in Runs /\ k.what = "prepare" /\ k.n = 0 /\ <<k>> \in Seq(Runs) /\ ToSet(<<k>>) = {k}
      /\ Ordered(<<k>>) /\ <<k>> # << >>
  BY RunTypes, OneRun DEF RunKinds
<1> HIDE DEF k
<1>7. th[d] \in Thread /\ th[d].launch \in Nat /\ th[d].todo = << >>
  BY <1>1 DEF TypeOK, Thread, DeviceInv, TodoInv
<1>8. /\ rng' \in [Devices -> RangeRec] /\ task' \in [Devices -> Tasks]
      /\ measured' \in [Devices -> SUBSET Measure] /\ buffers' \in [Devices -> BufferRec]
  <2>1. rng' \in [Devices -> RangeRec]
    BY ZenonT(30), <1>1 DEF TypeOK, RangeRec
  <2>2. Create(cfg) \in Tasks
    <3>1. cfg.l2 \in BOOLEAN
      BY <1>2, SetupFacts
    <3> QED BY <3>1 DEF Create, Tasks, InstrProfState
  <2>3. NoBuffers \in BufferRec
    BY DEF NoBuffers, BufferRec
  <2> QED BY <1>1, <2>1, <2>2, <2>3 DEF TypeOK
<1>9. CASE Replayed
  <2>1. /\ th'[d].pc = "next" /\ th'[d].launch = th[d].launch + 1 /\ th'[d].what = "range"
        /\ th'[d].todo = <<k>> /\ path'[d] = th[d].launch + 1
    BY <1>9 DEF TypeOK, Thread
  <2>2. TypeOK'
    <3>1. th' \in [Devices -> Thread]
      <4>1. PICK n \in Nat : n = th[d].launch + 1
        BY <1>7
      <4>2. [th[d] EXCEPT !.pc = "next", !.launch = n, !.what = "range", !.todo = <<k>>] \in Thread
        BY <1>6, <1>7 DEF Thread
      <4>3. th' = [th EXCEPT ![d] = [th[d] EXCEPT !.pc = "next", !.launch = n, !.what = "range",
                                                  !.todo = <<k>>]]
        BY <1>9, <4>1 DEF TypeOK
      <4> QED BY <4>2, <4>3 DEF TypeOK
    <3>2. path' \in [Devices -> Nat]
      BY <1>7, <1>9 DEF TypeOK
    <3> QED BY <1>1, <1>8, <1>9, <3>1, <3>2 DEF TypeOK
  <2>3. \A e \in Devices \ {d} : Untouched(e)
    BY <1>1, <1>9 DEF TypeOK, Untouched
  <2>4. DeviceInv(d)'
    <3>1. ChannelsInv(d)' /\ ReaderInv(d)' /\ BlocksInv(d)' /\ FilesInv(d)'
      BY <1>1, <1>5, <2>1, IdleKept
    <3>2. PathInv(d)' /\ BuffersInv(d)'
      BY <1>5, <2>1 DEF PathInv, BuffersInv, NoBuffers
    <3>3. RangeInv(d)'
      BY <1>1, <1>2, <1>4, <1>6, <2>1 DEF RangeInv
    <3>4. TodoInv(d)'
      BY <1>6, <2>1 DEF TodoInv, Has, Proper
    <3>5. Todo(d, "prepare")' /\ ~Todo(d, "pcSampling")' /\ ~Todo(d, "timeline")'
      BY <1>6, <2>1 DEF Todo, Has
    <3>6. SetsInv(d)'
      BY <3>5 DEF SetsInv
    <3>7. FlagsInv(d)'
      <4>1. /\ task'[d].state = "IDLE" /\ ~task'[d].last /\ ~task'[d].log
            /\ task'[d].l2Pmu = cfg.l2 /\ cfg' = cfg
        BY <1>1, <1>5, FreshTask, SetupKept
      <4>2. StateAfter(d)' = "IDLE"
        BY <2>1, <4>1 DEF StateAfter
      <4>3. Good(d)' => ~cfg.timeline /\ ~(cfg.pcSampling /\ setup.simt)
        <5>1. Good(d)' => RoundPerSet
          BY <1>1, SetupKept DEF Good
        <5> QED BY <1>2, <5>1, SetupFacts DEF RoundPerSet, InstrTakesRound
      <4> QED BY <1>1, <3>5, <4>1, <4>2, <4>3 DEF FlagsInv
    <3> QED BY <3>1, <3>2, <3>3, <3>4, <3>6, <3>7 DEF DeviceInv
  <2> QED BY <2>2, <2>3, <2>4, OneDevice
<1>10. CASE Left \/ Failed
  <2>1. /\ th'[d].pc = "idle" /\ th'[d].what = "none" /\ th'[d].todo = << >>
        /\ th'[d].failed \/ ~rng[d].selected
    BY <1>1, <1>2, <1>7, <1>10 DEF TypeOK, Thread
  <2>2. TypeOK'
    <3>1. th' \in [Devices -> Thread]
      <4>1. CASE Left
        BY <4>1 DEF TypeOK
      <4>2. CASE Failed
        BY ZenonT(30), <4>2 DEF TypeOK, Thread
      <4> QED BY <1>10, <4>1, <4>2
    <3>2. path' \in [Devices -> Nat] /\ faults' \in Nat
      BY <1>10 DEF TypeOK
    <3> QED BY <1>1, <1>8, <3>1, <3>2 DEF TypeOK
  <2>3. \A e \in Devices \ {d} : Untouched(e)
    BY <1>1, <1>10 DEF TypeOK, Untouched
  <2>4. DeviceInv(d)'
    <3>1. ChannelsInv(d)' /\ ReaderInv(d)' /\ BlocksInv(d)' /\ FilesInv(d)'
      BY <1>1, <1>5, <2>1, IdleKept
    <3>2. PathInv(d)' /\ BuffersInv(d)'
      BY <1>5, <2>1 DEF PathInv, BuffersInv, NoBuffers
    <3>3. RangeInv(d)'
      BY <1>1, <1>2, <1>4, <2>1 DEF RangeInv
    <3>4. TodoInv(d)'
      BY <2>1, NoRuns DEF TodoInv, Has
    <3>5. SetsInv(d)' /\ FlagsInv(d)'
      BY <2>1, NotGood DEF Good
    <3> QED BY <3>1, <3>2, <3>3, <3>4, <3>5 DEF DeviceInv
  <2> QED BY <2>2, <2>3, <2>4, OneDevice
<1> QED BY <1>3, <1>9, <1>10

-----------------------------------------------------------------------------
(* The start of a run. *)

LEMMA PrefixSet ==
    ASSUME NEW S, NEW s \in Seq(S), NEW n \in 0 .. Len(s)
    PROVE  ToSet(SubSeq(s, 1, n)) \subseteq ToSet(s)
<1>1. Len(SubSeq(s, 1, n)) = n /\ \A i \in 1 .. n : SubSeq(s, 1, n)[i] = s[i]
  OBVIOUS
<1>2. \A i \in 1 .. n : i \in 1 .. Len(s)
  OBVIOUS
<1> QED BY <1>1, <1>2 DEF ToSet

\* The task and the channels of a device once part of its channels is open.
After(d, r, S) == AfterStart(task[d], cfg, r.n, setup.simt, Names(S))
NowOpen(d, S) == Closed(open[d], Names(S)) \cup S

LEMMA OpenChannels ==
    ASSUME TypeOK, NEW d \in Devices, DeviceInv(d), th[d].pc = "next", NEW r \in Runs,
           NEW S \in SUBSET ToSet(Opens(d, r))
    PROVE  /\ After(d, r, S) \in Tasks /\ NowOpen(d, S) \in SUBSET OpenRec
           /\ \A o \in NowOpen(d, S) : Known(o, After(d, r, S), cfg, r.n, setup.mc2)
<1>1. /\ task[d] \in Tasks /\ cfg \in Settings /\ r.n \in Nat /\ setup.simt \in BOOLEAN
      /\ setup.mc2 \in BOOLEAN /\ open[d] \in SUBSET OpenRec
  BY SetupFacts DEF TypeOK, Runs
<1>2. After(d, r, S) \in Tasks
  BY <1>1, TaskTypes DEF After
<1>3. S \in SUBSET ToSet(Start(task[d], cfg, r.n, setup.simt, setup.mc2))
  BY DEF Opens
<1>4. ASSUME NEW o \in S PROVE o \in OpenRec /\ Known(o, After(d, r, S), cfg, r.n, setup.mc2)
  BY <1>1, <1>3, StartOpens DEF After
<1>5. ASSUME NEW o \in open[d] PROVE Known(o, After(d, r, S), cfg, r.n, setup.mc2)
  <2>1. o.channel = "AICPU" /\ cfg.chip = "910B" /\ setup.mc2
    BY DEF DeviceInv, ChannelsInv, Closable
  <2>2. ~After(d, r, S).last \/ "AICPU" \in Stop(After(d, r, S), cfg, setup.mc2)
    BY <1>1, <1>2, <2>1, StopKnowsAicpu
  <2> QED BY <2>1, <2>2 DEF Known
<1>6. NowOpen(d, S) \in SUBSET OpenRec
  BY <1>1, <1>4 DEF NowOpen, Closed
<1> QED BY <1>2, <1>4, <1>5, <1>6 DEF NowOpen, Closed

LEMMA StartProfFailsStep == ASSUME RoundsInv, NEW d \in Devices, StartProfFails(d) PROVE RoundsInv'
<1> USE DEF RoundsInv
<1> DEFINE r == Head(th[d].todo)
<1>1. /\ setup' = setup /\ sig' = sig /\ rng' = rng /\ path' = path
      /\ count' = count /\ data' = data /\ buffers' = buffers /\ reader' = reader
      /\ measured' = measured /\ files' = files
      /\ th' = [th EXCEPT ![d].todo = Tail(@), ![d].failed = TRUE]
      /\ th[d].pc = "next" /\ th[d].todo # << >>
  BY DEF StartProfFails
<1>2. /\ th[d] \in Thread /\ th[d].todo \in Seq(Runs) /\ task[d] \in Tasks /\ cfg \in Settings
      /\ setup.simt \in BOOLEAN /\ setup.mc2 \in BOOLEAN
  BY SetupFacts DEF TypeOK, Thread
<1>3. r \in Runs /\ Tail(th[d].todo) \in Seq(Runs)
  BY <1>1, <1>2, TailRuns
<1>4. PICK n \in 0 .. Len(Opens(d, r)) :
        /\ faults' = faults \/ (faults > 0 /\ faults' = faults - 1)
        /\ task' = [task EXCEPT ![d] = AfterStop(After(d, r, ToSet(SubSeq(Opens(d, r), 1, n))), cfg)]
        /\ open' = [open EXCEPT ![d] =
                      Closed(NowOpen(d, ToSet(SubSeq(Opens(d, r), 1, n))),
                             Stop(After(d, r, ToSet(SubSeq(Opens(d, r), 1, n))), cfg, setup.mc2))]
  BY DEF StartProfFails, After, NowOpen
<1> DEFINE S == ToSet(SubSeq(Opens(d, r), 1, n))
<1> HIDE DEF r
<1>5. Opens(d, r) \in Seq(OpenRec)
  BY <1>2, <1>3, StartSet DEF Opens, Runs
<1>6. S \in SUBSET ToSet(Opens(d, r))
  BY <1>5, PrefixSet
<1>7. /\ faults' = faults \/ (faults > 0 /\ faults' = faults - 1)
      /\ task' = [task EXCEPT ![d] = AfterStop(After(d, r, S), cfg)]
      /\ open' = [open EXCEPT ![d] = Closed(NowOpen(d, S), Stop(After(d, r, S), cfg, setup.mc2))]
  BY <1>4
<1> HIDE DEF S
<1>8. /\ After(d, r, S) \in Tasks /\ NowOpen(d, S) \in SUBSET OpenRec
      /\ \A o \in NowOpen(d, S) : Known(o, After(d, r, S), cfg, r.n, setup.mc2)
  BY <1>1, <1>3, <1>6, OpenChannels
<1>9. /\ th'[d].pc = th[d].pc /\ th'[d].launch = th[d].launch /\ th'[d].what = th[d].what
      /\ th'[d].todo = Tail(th[d].todo) /\ th'[d].run = th[d].run /\ th'[d].failed = TRUE
  BY <1>1 DEF TypeOK, Thread
<1>10. TypeOK'
  <2>1. th' \in [Devices -> Thread]
    BY ZenonT(30), <1>1, <1>3 DEF TypeOK, Thread
  <2>2. AfterStop(After(d, r, S), cfg) \in Tasks
    BY <1>2, <1>8, TaskTypes
  <2>3. Closed(NowOpen(d, S), Stop(After(d, r, S), cfg, setup.mc2)) \in SUBSET OpenRec
    BY <1>8 DEF Closed
  <2>4. task' \in [Devices -> Tasks] /\ open' \in [Devices -> SUBSET OpenRec] /\ faults' \in Nat
    BY <1>7, <2>2, <2>3 DEF TypeOK
  <2> QED BY <1>1, <2>1, <2>4 DEF TypeOK
<1>11. \A e \in Devices \ {d} : Untouched(e)
  BY <1>1, <1>7 DEF TypeOK, Untouched
<1>12. DeviceInv(d)'
  <2>1. ChannelsInv(d)'
    <3>1. task'[d] = AfterStop(After(d, r, S), cfg)
          /\ open'[d] = Closed(NowOpen(d, S), Stop(After(d, r, S), cfg, setup.mc2))
      BY <1>7 DEF TypeOK
    <3>2. task'[d].last = After(d, r, S).last
      BY <1>8, <3>1, StopFields
    <3>3. ASSUME NEW o \in open'[d]
          PROVE  o.channel = "AICPU" /\ ~task'[d].last /\ cfg.chip = "910B" /\ setup.mc2
      BY <1>8, <3>1, <3>2 DEF Closed, Known
    <3> QED BY <1>1, <1>9, <3>3 DEF ChannelsInv, Closable, cfg
  <2>2. PathInv(d)' /\ BuffersInv(d)' /\ FilesInv(d)' /\ ReaderInv(d)'
    BY <1>1, <1>9 DEF PathInv, BuffersInv, FilesInv, ReaderInv, DeviceInv
  <2>3. BlocksInv(d)'
    BY <1>1, <1>9 DEF BlocksInv, OwnBlock, DeviceInv
  <2>4. RangeInv(d)'
    BY <1>1, <1>9 DEF RangeInv, DeviceInv
  <2>5. TodoInv(d)'
    BY <1>1, <1>9, TailTodo DEF DeviceInv
  <2>6. SetsInv(d)' /\ FlagsInv(d)'
    BY <1>9, NotGood DEF Good
  <2> QED BY <2>1, <2>2, <2>3, <2>4, <2>5, <2>6 DEF DeviceInv
<1> QED BY <1>10, <1>11, <1>12, OneDevice

\* The round of a set: its counters are opened, the durations with the last set,
\* and the flags say so only then.
LEMMA RoundStart ==
    ASSUME TypeOK, NEW d \in Devices, DeviceInv(d), th[d].pc = "next", Good(d), th[d].todo # << >>,
           NEW r \in Runs, r = Head(th[d].todo), r.what = "round",
           NEW S, S = ToSet(Opens(d, r))
    PROVE  /\ RoundOpen(NowOpen(d, S), r.n)
           /\ After(d, r, S).log \/ After(d, r, S).last => r.n + 1 >= cfg.sets
           /\ After(d, r, S).state = task[d].state
<1> DEFINE t == task[d]
           n == r.n
<1>1. /\ t \in Tasks /\ cfg \in Settings /\ n \in Nat /\ setup.simt \in BOOLEAN /\ setup.mc2 \in BOOLEAN
      /\ cfg.sets \in Nat /\ cfg.sets <= SetLimit /\ cfg.chip \in Chips
      /\ cfg.chip = "A5" => cfg.sets <= SetLimitA5
      /\ cfg.aic \in BOOLEAN /\ cfg.aiv \in BOOLEAN
      /\ SetLimit \in Nat /\ SetLimitA5 \in Nat
  BY SetupFacts, SetLimitAssumption DEF TypeOK, Runs
<1>2. th[d].todo \in Seq(Runs) /\ r \in ToSet(th[d].todo)
  BY TailRuns DEF TypeOK, Thread
<1>3. /\ RoundPerSet /\ ~cfg.app /\ cfg.sets > 0 /\ ~ReadsPastSets /\ ~SkipsVectorSets
  BY DEF Good, RoundPerSet
<1>4. n < cfg.sets
  BY <1>2, <1>3 DEF DeviceInv, TodoInv, Proper
<1>5. /\ \A x \in ToSet(th[d].todo) : x.what = "round"
      /\ Todo(d, "round")
  BY <1>2, TailRuns DEF DeviceInv, TodoInv, Before, Todo, Has
<1>6. /\ ~t.log /\ ~t.last /\ (cfg.chip = "910B" => ~t.l2Pmu)
      /\ \/ t.state = "DONE"
         \/ t.state = "IDLE" /\ ~cfg.timeline /\ ~(cfg.pcSampling /\ setup.simt)
  <2>1. ~Todo(d, "prepare") /\ ~Todo(d, "evict") /\ ~Todo(d, "pcSampling") /\ ~Todo(d, "timeline")
    BY <1>5 DEF Todo, Has
  <2>2. StateAfter(d) = t.state
    BY DEF StateAfter
  <2>3. FlagsInv(d)
    BY DEF DeviceInv
  <2> QED BY <1>5, <2>1, <2>2, <2>3 DEF FlagsInv
<1>7. Chosen(t, cfg, setup.simt) = t.state /\ ~OpensInstr(t, cfg, setup.simt)
  BY <1>6 DEF Chosen, OpensInstr
<1>8. \A o \in open[d] : o.channel = "AICPU"
  BY DEF DeviceInv, ChannelsInv, Closable
<1>9. NextEmpty(cfg, n) <=> n = cfg.sets - 1
  BY <1>1, <1>4 DEF NextEmpty
<1>10. /\ \E o \in S : o.channel \in {"FFTS", "AICORE"} /\ o.set = n
       /\ "STARS" \in Names(S) \/ "HWTS" \in Names(S) <=> n = cfg.sets - 1
  <2>1. S = ToSet(Start(t, cfg, n, setup.simt, setup.mc2))
    BY DEF Opens
  <2>2. CASE cfg.chip = "A5"
    <3>1. S = {FftsA5Task(n)} \cup If(~t.log /\ (t.last \/ NextEmpty(cfg, n)), StarsTaskA5)
      <4>1. ~(n >= SetLimitA5)
        BY <1>1, <1>4, <2>2
      <4> QED BY <1>1, <1>7, <2>1, <2>2, <4>1, StartRoundA5
    <3>2. /\ FftsA5Task(n).channel = "FFTS" /\ FftsA5Task(n).set = n
          /\ StarsTaskA5.channel = "STARS"
      BY DEF FftsA5Task, StarsTaskA5, Opened
    <3> QED BY <1>6, <1>9, <3>1, <3>2 DEF If, Names
  <2>3. CASE cfg.chip = "910B"
    <3>1. S = {FftsTask(n)} \cup If(n = 0 /\ setup.mc2, AicpuTask)
                \cup If(~t.log /\ (t.last \/ NextEmpty(cfg, n)), StarsTask)
      <4>1. ~(n >= SetLimit)
        BY <1>1, <1>4
      <4> QED BY <1>1, <1>6, <2>1, <2>3, <4>1, StartRound910B
    <3>2. /\ FftsTask(n).channel = "FFTS" /\ FftsTask(n).set = n /\ AicpuTask.channel = "AICPU"
          /\ StarsTask.channel = "STARS"
      BY DEF FftsTask, StarsTask, AicpuTask, Opened
    <3> QED BY <1>6, <1>9, <3>1, <3>2 DEF If, Names
  <2>4. CASE cfg.chip = "310P"
    <3>1. S = If((cfg.aic /\ n < cfg.sets) \/ n = 0, AiCoreTask(n))
                \cup If(~t.log /\ NextEmpty310P(cfg, n), HwtsTask)
                \cup If(n = 0 /\ t.l2Pmu, L2CacheTask)
      <4>1. ~(n >= SetLimit)
        BY <1>1, <1>4
      <4> QED BY <1>1, <2>1, <2>4, <4>1, StartRound310P
    <3>2. (cfg.aic /\ n < cfg.sets) \/ n = 0
      BY <1>1, <1>3, <1>4, <2>4 DEF SkipsVectorSets
    <3>3. NextEmpty310P(cfg, n) <=> n = cfg.sets - 1
      BY <1>1, <1>3, <1>4, <2>4 DEF SkipsVectorSets, ReadsPastSets, NextEmpty310P
    <3>4. /\ AiCoreTask(n).channel = "AICORE" /\ AiCoreTask(n).set = n /\ HwtsTask.channel = "HWTS"
          /\ L2CacheTask.channel = "L2"
      BY DEF AiCoreTask, HwtsTask, L2CacheTask, Opened
    <3> QED BY <1>6, <3>1, <3>2, <3>3, <3>4 DEF If, Names
  <2> QED BY <1>1, <2>2, <2>3, <2>4 DEF Chips
<1>11. RoundOpen(NowOpen(d, S), n)
  <2>1. S \subseteq NowOpen(d, S) /\ \A o \in NowOpen(d, S) : o \in S \/ o.channel = "AICPU"
    BY <1>8 DEF NowOpen, Closed
  <2>2. Names(NowOpen(d, S)) \cap {"STARS", "HWTS"} # {} <=> "STARS" \in Names(S) \/ "HWTS" \in Names(S)
    BY <2>1 DEF Names
  <2> QED BY <1>10, <2>1, <2>2 DEF RoundOpen
<1>12. /\ After(d, r, S).log => n = cfg.sets - 1
       /\ After(d, r, S).last => n = cfg.sets - 1
       /\ After(d, r, S).state = t.state
  BY <1>1, <1>6, <1>7, <1>9, <1>10, StartFields DEF After
<1> QED BY <1>1, <1>11, <1>12

\* The flags after the start of a run that is no round, or of a round.
LEMMA StartFlags ==
    ASSUME TypeOK, NEW d \in Devices, DeviceInv(d), th[d].pc = "next", Good(d), th[d].todo # << >>,
           NEW r \in Runs, r = Head(th[d].todo), r.what # "prepare",
           NEW S, S = ToSet(Opens(d, r)),
           setup' = setup, sig' = sig, task'[d] = After(d, r, S), th'[d].pc = "started",
           th'[d].todo = Tail(th[d].todo), th'[d].what = th[d].what, th'[d].failed = th[d].failed
    PROVE  FlagsInv(d)'
<1> DEFINE q == Tail(th[d].todo)
           t == task[d]
           u == After(d, r, S)
<1>1. /\ t \in Tasks /\ cfg \in Settings /\ r.n \in Nat /\ setup.simt \in BOOLEAN /\ setup.mc2 \in BOOLEAN
      /\ cfg.sets \in Nat /\ cfg.chip \in Chips /\ cfg.timeline \in BOOLEAN /\ cfg.l2 \in BOOLEAN
      /\ cfg.pcSampling \in BOOLEAN
  BY SetupFacts DEF TypeOK, Runs
<1>2. /\ th[d].todo \in Seq(Runs) /\ r \in ToSet(th[d].todo)
      /\ ToSet(q) \subseteq ToSet(th[d].todo) /\ \A x \in ToSet(q) : Before(r, x)
      /\ \A x \in ToSet(th[d].todo) : x = r \/ x \in ToSet(q)
  BY TailRuns DEF TypeOK, Thread, DeviceInv, TodoInv
<1>3. \A x \in ToSet(th[d].todo) : Proper(x)
  BY DEF DeviceInv, TodoInv
<1>4. /\ cfg' = cfg /\ u \in Tasks /\ RoundPerSet
      /\ StateAfter(d) = t.state /\ StateAfter(d)' = AfterStop(u, cfg).state
      /\ \A what : Todo(d, what)' <=> Has(q, what)
  <2>1. u \in Tasks
    BY <1>1, TaskTypes DEF After
  <2> QED BY <2>1, SetupKept DEF StateAfter, Todo, Has, Good
<1>5. \A what : Has(q, what) => Todo(d, what)
  BY <1>2 DEF Has, Todo
<1>6. /\ t.log \/ t.last => ~Todo(d, "prepare") /\ ~Todo(d, "round")
      /\ cfg.chip = "910B" =>
            /\ t.l2Pmu => Todo(d, "prepare") \/ Todo(d, "evict")
            /\ Todo(d, "prepare") \/ Todo(d, "evict") => t.l2Pmu = cfg.l2
      /\ Todo(d, "pcSampling") => t.state = "IDLE"
      /\ ~Todo(d, "pcSampling") /\ Todo(d, "timeline") =>
            t.state = "TIMELINE" \/ (t.state = "IDLE" /\ ~(cfg.pcSampling /\ setup.simt))
      /\ ~Todo(d, "pcSampling") /\ ~Todo(d, "timeline") =>
            t.state = "DONE" \/ (t.state = "IDLE" /\ ~cfg.timeline /\ ~(cfg.pcSampling /\ setup.simt))
  BY <1>4 DEF DeviceInv, FlagsInv
<1>7. /\ cfg.chip = "A5" => u.state = Chosen(t, cfg, setup.simt)
      /\ cfg.chip # "A5" => u.state = t.state
      /\ u.last <=> t.last \/ ("FFTS" \in Names(S) /\ NextEmpty(cfg, r.n))
      /\ u.log <=> t.log \/ "STARS" \in Names(S) \/ "HWTS" \in Names(S)
      /\ u.l2Pmu <=> t.l2Pmu /\ cfg.chip # "910B"
  BY <1>1, StartFields DEF After
<1>8. /\ u.state = "PC_SAMPLING" /\ cfg.timeline => AfterStop(u, cfg).state = "TIMELINE"
      /\ u.state = "PC_SAMPLING" /\ ~cfg.timeline => AfterStop(u, cfg).state = "DONE"
      /\ u.state = "TIMELINE" => AfterStop(u, cfg).state = "DONE"
      /\ u.state \notin {"PC_SAMPLING", "TIMELINE"} => AfterStop(u, cfg).state = u.state
  BY <1>4, StopFields
<1> HIDE DEF q, t, u
<1>9. S = ToSet(Start(t, cfg, r.n, setup.simt, setup.mc2))
  BY DEF Opens, t
<1> SUFFICES /\ u.log \/ u.last => ~Has(q, "prepare") /\ ~Has(q, "round")
             /\ cfg.chip = "910B" =>
                   /\ u.l2Pmu => Has(q, "prepare") \/ Has(q, "evict")
                   /\ Has(q, "prepare") \/ Has(q, "evict") => (u.l2Pmu <=> cfg.l2)
             /\ Has(q, "pcSampling") => AfterStop(u, cfg).state = "IDLE"
             /\ ~Has(q, "pcSampling") /\ Has(q, "timeline") =>
                   \/ AfterStop(u, cfg).state = "TIMELINE"
                   \/ AfterStop(u, cfg).state = "IDLE" /\ ~(cfg.pcSampling /\ setup.simt)
             /\ ~Has(q, "pcSampling") /\ ~Has(q, "timeline") =>
                   \/ AfterStop(u, cfg).state = "DONE"
                   \/ /\ AfterStop(u, cfg).state = "IDLE"
                      /\ ~cfg.timeline /\ ~(cfg.pcSampling /\ setup.simt)
  <2>1. u.l2Pmu \in BOOLEAN
    BY <1>4 DEF Tasks
  <2> QED BY <1>1, <1>4, <2>1 DEF FlagsInv, u
<1>10. CASE r.what = "pcSampling"
  <2>1. cfg.pcSampling /\ setup.simt /\ cfg.chip = "A5" /\ t.state = "IDLE"
    <3>1. cfg.pcSampling /\ setup.simt
      BY <1>2, <1>3, <1>10 DEF Proper
    <3>2. Todo(d, "pcSampling")
      BY <1>2, <1>10 DEF Todo, Has
    <3> QED BY <1>6, <3>1, <3>2, SetupFacts DEF TypeOK
  <2>2. u.state = "PC_SAMPLING"
    BY <1>7, <2>1 DEF Chosen
  <2>3. ~Has(q, "pcSampling") /\ (Has(q, "timeline") <=> cfg.timeline)
    <3>1. \A x \in ToSet(q) : x.what # "pcSampling" /\ (x.what = "timeline" => cfg.timeline)
      BY <1>2, <1>3, <1>10 DEF Before, Proper
    <3>2. cfg.timeline => Todo(d, "timeline")
      BY <1>2, <1>10 DEF DeviceInv, TodoInv, Todo, Has
    <3>3. Todo(d, "timeline") => Has(q, "timeline")
      BY <1>2, <1>10 DEF Todo, Has
    <3> QED BY <3>1, <3>2, <3>3 DEF Has
  <2>4. \A o \in S : o.channel = "INSTR"
    <3>1. OpensInstr(t, cfg, setup.simt)
      BY <1>7, <2>1, <2>2 DEF OpensInstr
    <3>2. cfg.chip = "A5"
      BY <2>1
    <3>3. \A o \in ToSet(Start(t, cfg, r.n, setup.simt, setup.mc2)) : o.channel = "INSTR"
      BY <1>1, <3>1, <3>2, StartInstr
    <3> QED BY <1>9, <3>3
  <2>5. "FFTS" \notin Names(S) /\ "STARS" \notin Names(S) /\ "HWTS" \notin Names(S)
    BY <2>4 DEF Names
  <2>6. u.log \/ u.last => ~Has(q, "prepare") /\ ~Has(q, "round")
    BY <1>5, <1>6, <1>7, <2>5
  <2> QED BY <1>8, <2>1, <2>2, <2>3, <2>6
<1>11. CASE r.what = "timeline"
  <2>1. cfg.timeline /\ cfg.chip = "A5"
    BY <1>2, <1>3, <1>11, SetupFacts DEF Proper, TypeOK
  <2>2. ~Has(q, "pcSampling") /\ ~Has(q, "timeline")
    BY <1>2, <1>11 DEF Before, Has
  <2>3. t.state = "TIMELINE" \/ (t.state = "IDLE" /\ ~(cfg.pcSampling /\ setup.simt))
    <3>1. Todo(d, "timeline") /\ ~Todo(d, "pcSampling")
      BY <1>2, <1>11, <2>2 DEF Todo, Has
    <3> QED BY <1>6, <3>1
  <2>4. u.state = "TIMELINE"
    BY <1>7, <2>1, <2>3 DEF Chosen
  <2>5. \A o \in S : o.channel = "INSTR"
    <3>1. OpensInstr(t, cfg, setup.simt)
      BY <1>7, <2>1, <2>4 DEF OpensInstr
    <3>2. cfg.chip = "A5"
      BY <2>1
    <3>3. \A o \in ToSet(Start(t, cfg, r.n, setup.simt, setup.mc2)) : o.channel = "INSTR"
      BY <1>1, <3>1, <3>2, StartInstr
    <3> QED BY <1>9, <3>3
  <2>6. "FFTS" \notin Names(S) /\ "STARS" \notin Names(S) /\ "HWTS" \notin Names(S)
    BY <2>5 DEF Names
  <2>7. u.log \/ u.last => ~Has(q, "prepare") /\ ~Has(q, "round")
    BY <1>5, <1>6, <1>7, <2>6
  <2> QED BY <1>8, <2>1, <2>2, <2>4, <2>7
<1>12. CASE r.what = "evict"
  <2>1. cfg.chip = "910B" /\ cfg.l2
    BY <1>2, <1>3, <1>12 DEF Proper, SupportProfL2CacheEvict
  <2>2. /\ ~Has(q, "pcSampling") /\ ~Has(q, "timeline") /\ ~Has(q, "prepare") /\ ~Has(q, "evict")
    BY <1>2, <1>12 DEF Before, Has
  <2>3. Todo(d, "evict") /\ ~Todo(d, "pcSampling") /\ ~Todo(d, "timeline")
    BY <1>2, <1>12, <2>2 DEF Todo, Has
  <2>4. t.l2Pmu
    BY <1>6, <2>1, <2>3
  <2>5. S = If(~t.l2, L2cacheEvict)
    BY <1>1, <1>9, <2>1, <2>4, StartEvict DEF t
  <2>6. "FFTS" \notin Names(S) /\ "STARS" \notin Names(S) /\ "HWTS" \notin Names(S)
    BY <2>5 DEF Names, If, L2cacheEvict, Opened
  <2>7. u.log \/ u.last => ~Has(q, "prepare") /\ ~Has(q, "round")
    BY <1>5, <1>6, <1>7, <2>6
  <2>8. u.state = t.state /\ ~u.l2Pmu
    BY <1>7, <2>1
  <2> QED BY <1>6, <1>8, <2>2, <2>3, <2>7, <2>8
<1>13. CASE r.what = "round"
  <2>1. /\ ~Has(q, "pcSampling") /\ ~Has(q, "timeline") /\ ~Has(q, "prepare") /\ ~Has(q, "evict")
    BY <1>2, <1>13 DEF Before, Has
  <2>2. ~Todo(d, "pcSampling") /\ ~Todo(d, "timeline")
    BY <1>2, <1>13, <2>1 DEF Todo, Has
  <2>3. (u.log \/ u.last => r.n + 1 >= cfg.sets) /\ u.state = t.state
    BY <1>13, RoundStart DEF u, t
  <2>4. r.n + 1 >= cfg.sets => ~Has(q, "round")
    <3>1. ASSUME NEW x \in ToSet(q), x.what = "round" PROVE r.n < x.n /\ x.n < cfg.sets /\ x.n \in Nat
      <4>1. x \in Runs
        <5>1. x \in ToSet(th[d].todo)
          BY <1>2
        <5> QED BY <1>2, <5>1 DEF ToSet
      <4> QED BY <1>2, <1>3, <1>4, <1>13, <3>1, <4>1 DEF Before, Proper, RoundPerSet, Runs
    <3> QED BY <1>1, <3>1 DEF Has
  <2>5. cfg.chip = "910B" => ~u.l2Pmu
    BY <1>7
  <2> QED BY <1>6, <1>8, <2>1, <2>2, <2>3, <2>4, <2>5
<1> QED
  <2>1. r.what \in RunKinds /\ r.what # "none"
    BY <1>2, <1>3 DEF Proper, Runs
  <2> QED BY <1>10, <1>11, <1>12, <1>13, <2>1 DEF RunKinds

LEMMA StartProfStep == ASSUME RoundsInv, NEW d \in Devices, StartProf(d) PROVE RoundsInv'
<1> USE DEF RoundsInv
<1> DEFINE r == Head(th[d].todo)
           S == ToSet(Opens(d, r))
<1>1. /\ setup' = setup /\ sig' = sig /\ rng' = rng /\ path' = path
      /\ data' = data /\ buffers' = buffers /\ faults' = faults
      /\ measured' = measured /\ files' = files
      /\ th[d].pc = "next" /\ th[d].todo # << >> /\ r.what # "prepare"
      /\ task' = [task EXCEPT ![d] = After(d, r, S)]
      /\ open' = [open EXCEPT ![d] = NowOpen(d, S)]
      /\ count' = [count EXCEPT ![d] = r.n]
      /\ th' = [th EXCEPT ![d].pc = "started", ![d].run = r, ![d].todo = Tail(@)]
      /\ reader' = [reader EXCEPT ![d] = [NoReader EXCEPT !.pc = "poll"]]
  BY DEF StartProf, After, NowOpen
<1>2. th[d] \in Thread /\ th[d].todo \in Seq(Runs)
  BY DEF TypeOK, Thread
<1>3. /\ r \in Runs /\ r.n \in Nat /\ Tail(th[d].todo) \in Seq(Runs)
      /\ \A x \in ToSet(th[d].todo) : x = r \/ x \in ToSet(Tail(th[d].todo))
  BY <1>1, <1>2, TailRuns DEF Runs
<1>4. r = Head(th[d].todo) /\ S = ToSet(Opens(d, r))
  OBVIOUS
<1> HIDE DEF r, S
<1>5. /\ After(d, r, S) \in Tasks /\ NowOpen(d, S) \in SUBSET OpenRec
      /\ \A o \in NowOpen(d, S) : Known(o, After(d, r, S), cfg, r.n, setup.mc2)
  BY <1>1, <1>3, <1>4, OpenChannels
<1>6. /\ th'[d].pc = "started" /\ th'[d].launch = th[d].launch /\ th'[d].what = th[d].what
      /\ th'[d].todo = Tail(th[d].todo) /\ th'[d].run = r /\ th'[d].failed = th[d].failed
  BY <1>1 DEF TypeOK, Thread
<1>7. /\ [NoReader EXCEPT !.pc = "poll"] \in ReaderRec
      /\ [NoReader EXCEPT !.pc = "poll"].pc = "poll" /\ [NoReader EXCEPT !.pc = "poll"].got = {}
  BY DEF NoReader, ReaderRec
<1>8. /\ task'[d] = After(d, r, S) /\ open'[d] = NowOpen(d, S) /\ count'[d] = r.n
      /\ reader'[d].pc = "poll" /\ reader'[d].got = {}
  BY <1>1, <1>7 DEF TypeOK
<1>9. TypeOK'
  <2>1. th' \in [Devices -> Thread]
    <3>1. [th[d] EXCEPT !.pc = "started", !.run = r, !.todo = Tail(th[d].todo)] \in Thread
      BY <1>2, <1>3 DEF Thread
    <3>2. th' = [th EXCEPT ![d] = [th[d] EXCEPT !.pc = "started", !.run = r, !.todo = Tail(th[d].todo)]]
      BY <1>1 DEF TypeOK
    <3> QED BY <3>1, <3>2 DEF TypeOK
  <2>2. /\ task' \in [Devices -> Tasks] /\ open' \in [Devices -> SUBSET OpenRec]
        /\ count' \in [Devices -> Nat] /\ reader' \in [Devices -> ReaderRec]
    BY <1>1, <1>3, <1>5, <1>7 DEF TypeOK
  <2> QED BY <1>1, <2>1, <2>2 DEF TypeOK
<1>10. \A e \in Devices \ {d} : Untouched(e)
  BY <1>1 DEF TypeOK, Untouched
<1>11. DeviceInv(d)'
  <2>1. ChannelsInv(d)'
    BY <1>1, <1>5, <1>6, <1>8 DEF ChannelsInv, Closable, cfg, Known
  <2>2. PathInv(d)' /\ BuffersInv(d)' /\ FilesInv(d)'
    BY <1>1, <1>6 DEF PathInv, BuffersInv, FilesInv, DeviceInv
  <2>3. ReaderInv(d)'
    BY <1>6, <1>8 DEF ReaderInv
  <2>4. BlocksInv(d)'
    BY <1>1, <1>8 DEF BlocksInv, OwnBlock, DeviceInv
  <2>5. RangeInv(d)'
    BY <1>1, <1>6 DEF RangeInv, DeviceInv
  <2>6. TodoInv(d)'
    BY <1>1, <1>6, TailTodo DEF DeviceInv
  <2>7. FlagsInv(d)'
    <3>1. Good(d)' => Good(d)
      BY <1>1, <1>6, SetupKept DEF Good
    <3>2. CASE Good(d)
      BY <1>1, <1>3, <1>4, <1>6, <1>8, <3>2, StartFlags
    <3>3. CASE ~Good(d)'
      BY <3>3, NotGood
    <3> QED BY <3>1, <3>2, <3>3
  <2>8. SetsInv(d)'
    <3> SUFFICES ASSUME Good(d)', NEW n \in 0 .. cfg'.sets - 1
                 PROVE  \/ SetMeasured(d, n)' \/ Run("round", n) \in ToSet(th'[d].todo)
                        \/ Todo(d, "prepare")'
                        \/ th'[d].pc = "started" /\ th'[d].run = Run("round", n) /\ RoundOpen(open[d], n)'
      BY DEF SetsInv
    <3>1. cfg' = cfg /\ Good(d) /\ n \in 0 .. cfg.sets - 1 /\ n \in Nat
      BY <1>1, <1>6, SetupKept, SetupFacts DEF Good, TypeOK
    <3>2. SetMeasured(d, n) \/ Run("round", n) \in ToSet(th[d].todo) \/ Todo(d, "prepare")
      BY <1>1, <3>1 DEF DeviceInv, SetsInv
    <3>3. CASE SetMeasured(d, n)
      BY <1>1, <3>1, <3>3 DEF SetMeasured
    <3>4. CASE Todo(d, "prepare")
      BY <1>1, <1>3, <1>6, <3>4 DEF Todo, Has
    <3>5. CASE r = Run("round", n)
      <4>1. r.what = "round" /\ r.n = n
        BY <3>1, <3>5, RunTypes DEF RunKinds
      <4>2. RoundOpen(NowOpen(d, S), n)
        BY <1>1, <1>3, <1>4, <3>1, <4>1, RoundStart
      <4> QED BY <1>6, <1>8, <3>1, <3>5, <4>2 DEF RoundOpen
    <3>6. CASE Run("round", n) \in ToSet(th[d].todo) /\ r # Run("round", n)
      BY <1>3, <1>6, <3>6
    <3> QED BY <3>2, <3>3, <3>4, <3>5, <3>6
  <2> QED BY <2>1, <2>2, <2>3, <2>4, <2>5, <2>6, <2>7, <2>8 DEF DeviceInv
<1> QED BY <1>9, <1>10, <1>11, OneDevice

-----------------------------------------------------------------------------
(* The invariant. *)

LEMMA RoundsInit == Init => RoundsInv
<1> SUFFICES ASSUME Init PROVE RoundsInv
  OBVIOUS
<1>1. setup \in Setups /\ cfg \in Settings /\ cfg.l2 \in BOOLEAN
  BY SetupFacts DEF Init
<1>2. TypeOK
  <2>1. IdleThread \in Thread
    BY NoRuns, RunTypes DEF IdleThread, Thread, NoRun, RunKinds
  <2>2. NoRange \in RangeRec /\ NoReader \in ReaderRec /\ NoBuffers \in BufferRec
    BY DEF NoRange, RangeRec, NoReader, ReaderRec, NoBuffers, BufferRec
  <2>3. Create(cfg) \in Tasks
    BY <1>1 DEF Create, Tasks, InstrProfState
  <2>4. MaxFaults \in Nat
    BY RoundsAssumption
  <2> QED BY <1>1, <2>1, <2>2, <2>3, <2>4 DEF Init, TypeOK
<1>3. ASSUME NEW d \in Devices PROVE DeviceInv(d)
  <2>1. /\ th[d].pc = "idle" /\ th[d].what = "none" /\ th[d].todo = << >>
        /\ ~rng[d].in /\ ~rng[d].nested /\ rng[d].pending = 0 /\ ~rng[d].selected
        /\ reader[d] = NoReader /\ reader[d].got = {} /\ open[d] = {} /\ data = {}
        /\ buffers[d].live = {} /\ buffers[d].twice = {} /\ files[d] = {}
    BY DEF Init, IdleThread, NoRange, NoReader, NoBuffers
  <2>2. ChannelsInv(d) /\ ReaderInv(d) /\ PathInv(d) /\ BuffersInv(d) /\ BlocksInv(d) /\ FilesInv(d)
    BY <2>1 DEF ChannelsInv, ReaderInv, PathInv, BuffersInv, BlocksInv, FilesInv
  <2>3. RangeInv(d)
    BY <2>1 DEF RangeInv
  <2>4. TodoInv(d)
    BY <2>1, NoRuns DEF TodoInv, Has
  <2>5. SetsInv(d) /\ FlagsInv(d)
    BY <2>1 DEF SetsInv, FlagsInv, Good
  <2> QED BY <2>2, <2>3, <2>4, <2>5 DEF DeviceInv
<1> QED BY <1>2, <1>3 DEF RoundsInv

LEMMA RoundsStutter == RoundsInv /\ UNCHANGED vars => RoundsInv'
<1> SUFFICES ASSUME RoundsInv, UNCHANGED vars PROVE RoundsInv'
  OBVIOUS
<1>1. TypeOK'
  BY DEF RoundsInv, TypeOK, vars
<1>2. \A d \in Devices : Untouched(d)
  BY DEF Untouched, vars
<1> QED BY <1>1, <1>2, DeviceKept DEF RoundsInv

LEMMA RoundsNext == RoundsInv /\ [Next]_vars => RoundsInv'
<1> SUFFICES ASSUME RoundsInv, [Next]_vars PROVE RoundsInv'
  OBVIOUS
<1>1. ASSUME NEW d \in Devices, Launch(d) PROVE RoundsInv'
  BY <1>1, LaunchStep
<1>2. ASSUME NEW d \in Devices, ThreadStep(d) PROVE RoundsInv'
  BY <1>2, RunSkippedStep, KernelReplayStep, StartProfStep, StartProfFailsStep, KernelRunStep,
     StopProfStep, JoinReaderStep, LaunchEndsStep DEF ThreadStep
<1>3. ASSUME NEW d \in Devices, ReaderStep(d) PROVE RoundsInv'
  BY <1>3, PollStep, ReadChannelStep, WriteDataStep, ReaderLoopStep DEF ReaderStep
<1>4. ASSUME NEW d \in Devices,
             MstxRangeAdd(d) \/ RangeReplayProfData(d) \/ NestedEnd(d) \/ MstxRangeEnd(d)
      PROVE  RoundsInv'
  BY <1>4, MstxRangeAddStep, RangeReplayProfDataStep, NestedEndStep, MstxRangeEndStep
<1>5. CASE SigInt
  BY <1>5, SigIntStep
<1>6. CASE UNCHANGED vars
  BY <1>6, RoundsStutter
<1> QED BY <1>1, <1>2, <1>3, <1>4, <1>5, <1>6 DEF Next

\* The variables have their types, and what is known of every device holds: the
\* inductive invariant the theorems below rest on.
THEOREM RoundsInvariant == Spec => []RoundsInv
BY RoundsInit, RoundsNext, PTL DEF Spec

\* Whatever the readers write of their own device, counters, durations, L2 events,
\* samples and timeline, goes to the directory of the launch and the file of the
\* round or phase it was measured in, although directory, round and phase are looked
\* up only when it is written; for any number of devices, launches and sets.
THEOREM DataPlaced == Spec => []DataInOwnFile
<1>1. RoundsInv => DataInOwnFile
  BY DEF RoundsInv, DeviceInv, FilesInv, Placed, DataInOwnFile, CountersInOwnFile, SamplesInOwnFile
<1> QED BY <1>1, RoundsInvariant, PTL

\* A launch or a range replay that did not fail has measured every set of counters
\* in its round, with the durations in the last, and has run what was captured.
THEOREM RunsAreComplete == Spec => []RunsComplete
<1>1. RoundsInv => RunsComplete
  <2> SUFFICES ASSUME RoundsInv PROVE RunsComplete
    OBVIOUS
  <2>1. ASSUME NEW d \in Devices, th[d].pc = "idle", Good(d), NEW n \in 0 .. cfg.sets - 1
        PROVE  SetMeasured(d, n)
    <3>1. ToSet(th[d].todo) = {}
      BY <2>1, NoRuns DEF RoundsInv, DeviceInv, TodoInv
    <3> QED BY <2>1, <3>1 DEF RoundsInv, DeviceInv, SetsInv, Todo, Has
  <2>2. LaunchMeasured
    BY <2>1 DEF LaunchMeasured, Good
  <2>3. CapturedKernelsRun
    BY SetupFacts DEF CapturedKernelsRun, RoundsInv, DeviceInv, RangeInv, TypeOK
  <2> QED BY <2>2, <2>3 DEF RunsComplete
<1> QED BY <1>1, RoundsInvariant, PTL

\* Between two launches of a device no channel is open but AICPU, and that only if
\* the last round was not reached, no reader runs, and no block of L2cacheParam is
\* lost or freed twice but the two that PrepareClearL2CacheParam frees itself.
THEOREM LaunchLeavesNothing == Spec => []NothingLeft
<1>1. RoundsInv => NothingLeft
  <2> SUFFICES ASSUME RoundsInv, NEW d \in Devices, th[d].pc = "idle"
               PROVE  /\ Names(open[d]) \subseteq (IF task[d].last THEN {} ELSE {"AICPU"})
                      /\ reader[d].pc = "none"
                      /\ buffers[d].live = {} /\ buffers[d].twice \subseteq {"l2Buffer", "blockLen"}
    BY DEF NothingLeft
  <2>1. Names(open[d]) \subseteq (IF task[d].last THEN {} ELSE {"AICPU"})
    BY DEF RoundsInv, DeviceInv, ChannelsInv, Closable, Names
  <2>2. reader[d].pc = "none"
    BY DEF RoundsInv, DeviceInv, ReaderInv, NoReader
  <2>3. buffers[d].live = {} /\ buffers[d].twice \subseteq {"l2Buffer", "blockLen"}
    BY DEF RoundsInv, DeviceInv, BuffersInv, Retried
  <2> QED BY <2>1, <2>2, <2>3
<1> QED BY <1>1, RoundsInvariant, PTL
=============================================================================
