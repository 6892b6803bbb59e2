# A TLA+ model of msopcom

msopcom is the library that is preloaded into an Ascend application so that a
tool (the sanitizer *mssanitizer* or the profiler *msopprof*) can observe it.  It
replaces functions of the runtime ("hooks"), keeps tables of what the application
has allocated, registered and launched, runs extra work around every kernel
launch, and talks to the tool over Unix sockets.  This directory models the parts
of it in which threads, processes, failures and long sequences of calls meet,
checks them with TLC and proves the most important results with TLAPS.

## 1. Inventory

| Component | State | Operations | What makes it correct |
|---|---|---|---|
| Device channel, sending side (`core/LocalProcess`, `inject_helpers/LocalDevice`, `core/DomainSocket`) | process-wide number source and connection table with the pid that owns them; a `sendMutex_` and a `mux_` per connection | `GetInstance`, `Notify`, `NotifyKernelBinary`, `Log` | a device stream consists of whole packets in increasing number; no number on two devices; a forked child keeps out and never hangs |
| Request and response (`InteractHelper`, `ConfigManager`, `ProfConfig`, `LocalProcess::Wait`) | one socket shared by all threads of a device, `communtionMx_`, `configMap` | `GetConfig`, `Interact`, `Wait` | an answer reaches the request it belongs to, or nobody |
| Socket server (`core/Communication`, `RemoteProcess`) | acceptor thread, one reader thread per client, `isRunning_` | `Accept`, `Listen`, hooks, destructor | hooks see a client in the order of its messages; shutdown ends every thread |
| `PipeCall` (`utils/PipeCall.cpp`) | list of all pipe descriptors of the process, `mtx` | run an external command | a command inherits no other command's pipe; every call ends, with all output |
| Device memory (`MemGuard`, `MemoryDataCollect`, malloc and free hooks) | guard table, range table and count per device, the tool's view | malloc, free, fill and check around a launch | tables and allocator agree at all times; alarms are caused and complete |
| Ranges a kernel may touch (`MemoryDataCollect`, `MsTx`, `BindSanitizer`) | allocations, heaps, regions, permissions | declare, withdraw, extract, merge | the list given to the kernel is what the application may use, and fits its place |
| Runtime hooks and their stack (`runtime/HijackedFuncOf*`, `acl_rt_impl/*`, `Bind*`, `HijackedLayerManager`, `FunctionLoader`) | thread-local stack of layers; originals; tables, current device, peers, shared keys | every replaced function | a call is reported once and reaches the library; process, tool and runtime agree between calls |
| Checked launches (`LaunchInitFinalize`, `DevMemManager`, `LaunchContext`, `LaunchManager`, `ArgsManager`, the ten launch hooks) | buffer and flags of a thread; launches and operator memory of a device | init, expand, instrument, launch, wait, report, withdraw | an instrumented kernel has its own buffer; what it recorded is reported once |
| Record buffer (`LaunchInitFinalize`) | global head, heads and parts of each core's block | compute, write heads, read back | parts do not overlap, every access is inside |
| Kernel arguments (`Args*Context`, `LaunchArgs`, `ArgsManager`) | copy of packed arguments, list behind a handle | `ExpandArgs`, `GenerateArgsHandle` | the kernel reads the application's values, and the buffer where it was told |
| Registry and instrumentation (`RegisterManager`, `FuncManager`, `KernelContext`, `DBITask`, `KernelReplacement`) | binaries, functions, stubs, registration numbers; pool of tasks per thread | register, look up, convert, reuse, unload | a launch finds its own binary and runs a loaded copy of it |
| Memory backup (`MemoryContext`) | copies of live blocks | append, discard, backup, restore | a replayed kernel starts from the memory the first run saw |
| Profiling (`ProfDataCollect`, `ProfTask`, `BBCountDumper`) | channels, rounds, reader threads, ranges | replay, collect, dump | every counter set is measured and lands in its launch's file; one effect of the kernel is left |
| Kernel launcher, simulator dumps, utilities | local | run, parse, convert | sequential |

The components meet in four places: every hook sends records through the device
channel; every launch hook reads the tables that the memory and registration hooks
write; launches wait for answers of the tool; and the tasks that transform kernels
run external programs through `PipeCall`.  Application threads run the hooks
concurrently; each table has a lock of its own (or none) and no lock is held from
one table to the next, so a hook is a sequence of steps that others may interrupt.
Hard to test are therefore: steps of two hooks in an unusual order (address reuse
between the bookkeeping of two threads, an allocation while a kernel runs, a
binary registered while another is), `fork` at any moment, a tool that starts late
or goes away in the middle of a message, an answer that arrives after its wait has
run out, one failing step of several, flags and pointers one launch leaves for the
next, numbers and sizes at their limit, waits on locks, readers or descriptors.
`PROJECT.json` lists each such place under `hazards`, with the properties that
watch it.

## 2. Modules

| Module | Models |
|---|---|
| `DeviceChannel` | sending side of the device channel, with fork, exec and a failing peer |
| `OrderedLinks` | what the channel promises, as an abstract specification |
| `ToolLink` | requests, answers, configuration and the tool's socket server |
| `PipeCall` | external commands on pipes, run from several threads |
| `DeviceMemory` | malloc, free and launch hooks with their tables |
| `OnlineMemory` | allocations, mstx heaps and regions, and the list made of them |
| `HookTable` | which functions each library replaces and the steps of each hook |
| `HostCalls` | threads calling them, with layers, tables, tool and runtime |
| `LaunchScripts` | what the ten launch hooks do for the memory checker |
| `SanitizerLaunch` | launches that run these scripts |
| `SanitizerLaunchInv` | the inductive invariants of `SanitizerLaunch` and the words their proof uses |
| `RecordBuffer`, `PackedArgs`, `ArgsHandles`, composed by `LaunchData` | the data prepared for one launch |
| `KernelRegistry` | binaries, functions, stubs, instrumented copies |
| `LaunchHooks` | the ten launch hooks, as a table of the decisions in which they differ under the profiler |
| `ProfLaunch` | a profiled launch and its effect on memory |
| `ProfTask` | the channels each kind of chip opens and closes in a round |
| `ProfRounds` | rounds, readers, files, SIGINT and MSTX ranges over `ProfTask` |
| `DeviceChannelProofs`, `ToolLinkProofs`, `PipeCallProofs`, `DeviceMemoryProofs`, `KernelRegistryProofs`, `ProfLaunchProofs`, `ProfRoundsProofs`, `SanitizerLaunchProofs` | the theorems about the module each is named after |
| `MC*` | instances and symmetry sets for TLC |

`HostCalls` composes `HookTable` with the runtime, `SanitizerLaunch` composes
`LaunchScripts` with the buffer manager and the registry of launches, `ProfLaunch`
extends `LaunchHooks`, `ProfRounds` extends `ProfTask`, `LaunchData` instantiates
the three parts of a launch's data.

### DeviceChannel

A thread's place in a call is `pc`; the other thread variables are the locals of
`Notify`, `NotifyKernelBinary` and `ReserveOrderId`.  `ownerPid`, `nextOrderId`,
`devicesMutex` and `conn` are the members of `ProcessState`, one copy per process,
because `fork` copies memory: the action `Fork` copies them, held locks included,
and gives the child one thread.  The sockets (`link`, `wire`) are shared, as file
descriptors are.  `conn[p][e]` says which process opened the socket that `p`'s
connection object uses.

Actions follow the code from lock to lock: `GetInstance`, `LockDevices`,
`FindDevice` are `LocalDevice::GetInstance`; `Enter`, `LockSend`, `ReserveLoad`,
`ReserveCas` are the head of `Notify` with the compare-and-exchange loop; `Memfd`,
`SendFd`, `SendFdFails` are the two forms of a kernel binary; `TakeMux`,
`WriteUnit`, `WriteFails` are the write loop of the socket client, where `mux_`
covers one system call only.  A message is a run of `Chunks` units.  `reported` is a
history variable: what each call that took a number returned.

### ToolLink

`thr` is a thread's call with what it received, `conn` a socket with what is in
flight each way, `configMutex`, `configMap`, `communtionMx` and `instance` the
statics of `GetConfig` and `ProfConfig`, `server` and `reader` the tool's acceptor and
readers.  Under the sanitizer a device has its own connection, the tool sends one
configuration when it is accepted, and requests wait without a lock; under the
profiler everything uses the general connection and `communtionMx_` is held from
request to answer.  A read returns everything that has arrived, so what a wait
takes depends on what earlier waits left.  `of` in a message is history.  The
request that ends profiling behaves as the one that starts it, the block
notification of the IPC hooks as any notification with a reply; they share a kind.
The server is `Start`, the acceptor's loop, `Listen` of each client with the two hooks,
and the destructor.  Testing `isRunning_`, the blocking call (`Accept` with its refusals,
`ListenRead`, or a timeout) and the hook are steps of their own, so a client is accepted,
a reader started and a request answered after the destructor cleared the flag; it joins
the acceptor, walks `readWorker_` one reader at a time and then closes the sockets.

### PipeCall

The calling threads, the writer thread each call starts and the child of each call
step independently.  A descriptor is a pipe end; `holds` is the descriptor table of
each process, which `Fork` copies.  `Create` and `Close` take `mtx` for two steps,
so a fork could fall between the system call and the list.  Two programs stand for
all commands: one that reads to the end of its input and one that prints and ends
with success or failure without reading.  `SIGPIPE` is not handled anywhere in the
library: a write without a reader ends the process (`alive`), and the properties
speak of processes that live.

### DeviceMemory

A hook is a sequence of actions, one per table it touches, in the order of the
code: `MallocBegin` .. `NotifyMalloc`, `FreeBegin` .. `OriginFree`, `LaunchInit` ..
`CheckAllMemGuard`.  Sizes are in units of 32 bytes.  The front guard is always
empty (`frontSize_` is 0 and no configuration sets it), so a block has one address.
`FillAllMemGuard` and `CheckAllMemGuard` run under `mutex_` and are one step each;
each `memset` or copy inside may fail.  `memGuardInit_`, `memGuardEnable_` and
`backSize_` are read and written without the lock, so `MemoryGuard::Init` is three
steps.  The allocator is external: it may hand out any free address at any moment.
`early`, `unfilled`, `overran` and `alarms` are history variables.  A launch whose
check is skipped leaves a kernel running that nobody waits for (`stray`).

### OnlineMemory

`heaps`, `regions`, `regionDoms` and `domains` are the maps of `MsTx`, each call of
it one step under `mstxAttrMutex_`; `table` and `count` are `MemoryManage` under
`memoryMutex_`; `told` and `perms` are what the records say to the tool.  A call is its
MsTx step, then for each block, heap, region or permission a table step
(`CacheDeclared`, `CacheReturned`, `CachePermission`) and a step that sends the record
under no lock (`TellDeclared`, `TellReturned`, `TellPermission`); `call` holds what is
left of it.  `raced`, history, has the regions whose last assignment overlapped another
call on them.  A launch counts its operator's entries, makes the empty entry and, unless
no buffer could be prepared (`LaunchInfoStays`), sets the counter from the table at its
end.  `ExtractValidMems`,
`ProcessMstxHeapMem`, `MergeHostMems` and `UpdateMemoryOp` are operators on sorted
sequences of ranges, compared with a byte-by-byte definition of what the
application may use.

### HookTable and HostCalls

`HookTable` lists the replaced functions, how each binding enters (layered, masked,
constructor, plain) and the hook's steps in order.  `HostCalls` runs them on
threads: `layers` is the stack of `HijackedLayerManager`; a call enters through its
binding, and the library's own calls inside it come back to the bindings and must be
masked.  `LibraryCalls` says which replaced functions the library may call in which; it
is not tied to the table of `HijackedLayerManager`, and the instance lets the library
call also in functions the table misses (`Unlisted`): the allocation and free forms with
a guard and no entry, and the forms without a guard.  The state has four sides: the runtime (`rt`), the process's tables (`tab`),
what the records told the tool (`told`) and what the application was answered
(`app`).  A behaviour uses one family of functions (memory, devices, shared keys,
communicators) under one of three libraries (sanitizer, profiler, simulator).  `past`
is history: what happened that the properties except by name.

### LaunchScripts and SanitizerLaunch

A hook is a script: the calls of its `InitParam`, `SanitizerPre` and `SanitizerPost`
in order, each with what the hook does when it fails.  `SanitizerLaunch` executes
the steps: `mgr` is the thread's `DevMemManager`, `bufs` the buffers it made, `dbi`
the thread's instrumentation settings, and the lists of launches, operator memory
and arguments belong to the device and are touched without a lock, as in the code.
A kernel counts as running until its stream is synchronised.  Kernels may be
skipped by the tool, captured into a model (`sink`), instrumented at compile time
(`static`), or wrapped by the compiler's `__sanitizer_init` and `_finalize`.

### RecordBuffer, PackedArgs, ArgsHandles, LaunchData

`RecordBuffer` has the arithmetic of `SanitizerLaunchInit` and `-Finalize`, with the
code's constants, its shares computed in floating point and cut to integers, and one
step per head written or part read; `acc` and `host` are the extents touched.
`PackedArgs` models the five interfaces of packed arguments by cells that say which
unit of the application's block they hold.  `ArgsHandles` has the calls that build a
handle, the list the hooks keep beside it, and the rebuilt handle.  `LaunchData`
follows one of the three in each behaviour; they share nothing but the address.

### KernelRegistry

`RegisterManager` with `currentRegId_` read and raised in two steps, `FuncManager`,
`KernelContext` with its stub table, and the thread's task pool keyed by
registration number, kind and kernel.  Nothing is removed when the application
unloads and the library hands the handle out again.  A load is named by its number,
so what a launch runs can be compared with what it should.

### LaunchHooks and ProfLaunch

`ProfLaunch` follows the launching thread through `InitParam`, `ProfPreForInstrProf`,
`ProfInit`, `ProfData` with `KernelReplay` (`WarmUp`, `ReplayOnce`), `bbCountTask`,
`Call` and `ProfPost` with the record tasks.  `fields` is the hook object, `buf` the
buffer `DevMemManager` lends, reduced to who wrote it last, `tracked` and `snap` the
map of `MemoryContext`, `lccl` and `mc2` the flags of the device.  The contents of a
block are a number and a run adds one to each operand, so a run on wrong data and a
run too many can be seen.  A second thread allocates, frees and writes blocks at any
point.  `Faults` names what may fail.  `Restore` goes on after a copy that failed and
returns true: each `Restore` may leave out any blocks (`LeftOut`), and the checks of its
result in `WarmUp`, `ReplayOnce` and `RunDbiRecordTask` never fire.  `failed` keeps
`restore` while the last `Restore` left an operand out, and `run` remembers whether it
ran like that (`restored`).  A failed wait ends `WarmUp`, the kernel having run or not.
In application replay at most one kind of
instrumentation is asked for (`OneTaskPerRun`): `IsNeedRunOriginLaunch` compares the
flags for equality, and with two kinds in one run of the application the second
would find what the first left, since nothing is restored.

The properties name the cases the code does not cover: a run after a `Restore` that left
an operand out, and the result when that `Restore` was the last of the launch;
`InputLost` (a `Backup` cut short, or taken of what such a `Restore` had left;
`StartProf` failing after warm-up; the flag of an earlier fused kernel read
by `InstrProfData` before `ProfInit` sets it), the measured instrumented run after
warm-up, `bbCountTask` keeping the instrumented kernel without its buffer, the two
hooks whose `funcStub` passes the original arguments, and the block counts read from
the timeline's buffer where a refresh keeps `memInfo_`.

### ProfTask and ProfRounds

`ProfTask` has the start and stop lists of the three kinds of chip, with the flags a
round leaves in the task.  `ProfRounds` runs them: `th` is the launching thread in
its phases, `reader` the thread in `ChannelRead`, `path` and `count` the maps a
reader consults when it writes, `open` and `data` the driver's channels with one
poll for all devices.  In a range the launches are captured (`rng`) and the end of
the range runs the model once per counter set.  SIGINT may arrive once.  `RoundPerSet`
names the settings in which a round does not measure a counter set: `L2TakesRound`,
`ReadsPastSets` (310P reads the vector events behind the last set), `SkipsVectorSets`
(310P opens the counter channel past the first set only for cube events) and
`InstrTakesRound` (on A5 the instruction profiler takes the first round of a range,
although `InstrProfData` leaves a range alone).  The last two were met in the proof.
A range is never asked for together with application replay (`RoundsAssumption`).

## 3. Runs

| Run | Instance | Shows |
|---|---|---|
| `channel` | 2 threads + forked child, 2 devices, 3 numbers, 3 calls, 2 units | `TypeOK` (the number source never wraps), `PacketsOrderedAndWhole`, `OrderIdsUnique`, `DeviceLinksPrivate`, and `CallsAccounted`: a call reports a packet sent exactly when the whole packet is in the socket, and every number handed out belongs to one call |
| `channel_fair` | the same with 2 calls, packets, short messages and text | `ImplementsOrderedLinks` (refinement), `DeviceCallsReturn` |
| `pipecall` | 2 threads, 2 programs, input of 2 units, pipes of 1 unit | `PipesSound` (a command holds no other end; a descriptor is closed as the one it was opened as), `CallEndsClean` (no descriptor left, output whole), `CallsReturn` |
| `memory` | 2 threads, 2 devices, 2 addresses, sizes 1, 2 and the largest, 4 calls | `TablesAgree` (known blocks are live, owned blocks known, count right, the host table fits), `GuardsInside`, `AlarmsExact` (an alarm has a cause, an overrun its alarm) |
| `online` | 2 threads, an allocation of 8 units, a heap in its middle and one behind it up to its end, 2 regions, one or both in a call, launches that count entries up to 3 (`MaxCount`) | `RangesExact`, `EntriesFit`, `ToolAgrees` |
| `hooks` | 2 threads, 2 devices, 2 addresses, 2 keys, 3 calls of a family, three libraries, the library calling inside listed and unlisted functions | `CallsReported` (once each, none lost), `ViewsAgree` (memory, shared blocks), `DeviceViewsAgree` (current devices, peers) |
| `sanlaunch` | one thread with 2 launches of any kind through any hook and 1 failure; one thread with 3 launches and 2 failures through two hooks that share the skip flag; two threads overlapping, with Ctrl-C; two threads on the runtime interface | `CheckedHasHeads`, `BufferSound`, `ReportedOnce`, `RangesTracked`, `OwnLaunchUsed` |
| `records` | three kinds of chip, nine cache sizes, 1 to 4 cores; all small blocks of packed arguments; handles of up to 3 parameters and 8 calls | `LayoutSound`, `ArgsSound` |
| `registry` | 2 threads, 2 handles, 2 kernels, 2 loads, 2 launches, 2 copies | `RunsOwnCopy`, `FindsOwnBinary`, `CopiesLive` |
| `launch` | 2 blocks, 5 hooks, 11 settings, 4 kinds of kernel, 1 failing step (for a `Restore`: any of its copies); 2 launches with 1 step of the other thread or 1 launch with 4 | `RunsReadInput`, `OneRunLeft`, `RecordsOwn`, `NewBlockKept` |
| `rounds` | two devices with a launch each, two launches on one, ranges of 1 to 3 kernels, three chips, 1 failure, 1 signal | `DataInOwnFile`, `RunsComplete`, `NothingLeft`, `LaunchReturns` |
| `link` | 2 threads, 1 device and the general connection, 1 client accepted at most, 3 calls of 6 kinds | `AnswersTogether`, `ServerQuiet`, `AllReturn` |

Bounds. Two threads and one child contain every pair of steps that can race; a third
thread only repeats a role. Two devices separate what is per connection from what is
per process. Two units per message are the first case in which a message can be cut or
interleaved, and three numbers reach the end of the number source in three calls. A
pipe of one unit with an input of two is the first case in which both sides can block.
Two addresses and four calls allow malloc, free and reuse by another thread during a
launch; the sizes include ones with and without room below `SizeMax`. In `online`
two heaps split the allocation one after the other, touch each other and its end; regions
lie in one heap and outside the other, or in an allocation without heaps. In `hooks`
three calls allow allocate, free and reuse, and a device set twice before it is reset;
families are kept apart because their tables are. In `sanlaunch` a second launch meets
what a first one, skipped, captured, failed or interrupted, left in the thread's
buffer manager, and a third one what two failures left: the heads of one launch and
the skip flag of another. The cache sizes of `records` lie on both sides of every
limit of the code. A handle is built, finalized, launched, updated and launched again
within eight calls. In `registry` two loads with two handles include a handle used
again and two registrations at once. In `launch` a second launch meets the snapshots
and flags the first one left, four steps of the other thread free a saved block, get
its address again and write it twice while it is replayed, and two blocks are the
first case of a `Backup` that stops half way; two counter sets make a second round
start from what a first one left. `MaxWork` counts a launch as `LaunchWork` steps, so
that launches and steps of the other thread share one bound. In `rounds` two sets are
the first case of a second round, and the A5 configuration holds one. In `link` one
accepted client is the first case in which the acceptor stops while a connection is
queued, and three calls let an expired wait spoil the next request. Deadlock is not
checked because calls are bounded: once all are made and done the system rests.
Threads, addresses, devices and keys are permuted by symmetry where no property is
temporal.

Fairness.  `DeviceCallsReturn`, `CallsReturn`, `AllReturn` and `LaunchReturns` assume
weak fairness of each thread that is inside a call, of each child of `PipeCall`, and
of the threads the code starts (readers of channels, acceptor, readers and destructor
of the server): the operating system schedules them, a mutex is granted because the
calls of the other threads are finite and each ends, and the loops of the readers use
timeouts of at most a second.  Nothing is assumed about starting calls, forking, or
the tool answering.  A write to a socket either succeeds or fails in finite time:
the tool reads all its clients in threads of their own.

Every property has a mutant in `PROJECT.json`: a plausible error in one operation
that makes TLC report it.  The mutated forms stand next to the operations, marked
`Mutant`.

### Named exceptions

Where the code does not cover a case, the property excludes it by a named condition,
so that a reader can find it.  Beside those of `ProfLaunch` above:

* `TablesAgree`: the host table grows between the count of a launch and the copy
  (`LaunchInitFinalize.cpp:330`).
* `AlarmsExact`: a guard that nobody filled, since its block was registered between
  fill and check, raises an alarm without an overrun (`MemGuard.cpp:234`).
* `RangesExact`: a heap that starts where its allocation starts and is shorter sorts
  before it.  `EntriesFit`: a launch counts its operator's entries before it makes the
  empty one, and with an empty table the list is empty in between.
* `ToolAgrees`: the permission of a region whose assignment another call overlapped
  (`raced`): `memoryMutex_` orders the table steps and nothing the records
  (`BindSanitizer.cpp:464`), so table and tool may keep different ones.
* `ViewsAgree`: a block freed while another device is current stays in its table
  (`MemoryDataCollect.cpp:247`); a block entered twice, once for each source, by
  functions that no layer masks, of which a masked free takes one entry; keys recorded before the library has answered.
* `DeviceViewsAgree`: overlapping peer calls (`MemoryDataCollect.cpp:264`); a device
  noted as used although `rtSetDevice` failed (`BindSanitizer.cpp:138`).
* `CallsReported`: what the library calls in a function that the masking table does not
  list is reported once more (`Unlisted`, `HijackedLayerManager.cpp:31-52`), one call
  further in and no deeper; a device set again and a second close of a key whose first
  close failed report nothing; the profiler exports `HcclCommInitClusterInfo` and its `Config`
  form without registering their originals.
* `CheckedHasHeads`: a failure in a hook that instruments before it makes the buffer
  (the SIMT and the runtime hooks), a skip flag left behind, and a kernel instrumented
  at compile time that is captured into a model, for which no hook makes a buffer.
* `BufferSound`: the library refuses a checked kernel, then a skipped one; the next hook
  that does not set the skip flag keeps the buffer with the heads of the first and
  reports them (`stale`).
* `OwnLaunchUsed`: a dump finds its own arguments as long as no launch failed, since
  `AddLaunchEvent` enters nothing for an unknown function while the arguments are
  archived all the same; a skipped kernel is not dumped.
* `LayoutSound`: a cache too small for the SIMT parts.
* `ArgsSound`: parameters behind the last placeholder are moved by `InsertParam`
  (`Displaced`); the slot of a kernel instrumented at compile time is not known
  (`SlotUnknown`); the checker expands the list behind the handle itself, so a second
  launch carries the older pointer in front (`LaunchedBefore`, `AppendedSince`);
  parameters above `MAX_SINGLE_PARAM_SIZE` are not in the list (`TooLong`).
* `RunsOwnCopy`, `FindsOwnBinary`: two registrations at once may share a number
  (`RegisterManager.cpp:76`); a stub registered again keeps its first handle.
* `DataInOwnFile`: data that another device's reader takes; the AICPU channel a
  launch left open.  `RunsComplete`: a range without a selected kernel, and the
  settings outside `RoundPerSet`.  `NothingLeft`: the AICPU channel before the last
  round, and the two blocks `PrepareClearL2CacheParam` frees itself when it fails.
* `AnswersTogether`: answers of waits that ran out, and requests of two threads in
  flight on one device connection.  `AllReturn`: a connection that is never served.

### Observations

Met while modelling, true of the model as of the code, and not properties: a send
that was cut returns 0 although the comments at `LocalProcess.cpp:176` and
`DomainSocket.cpp:334` speak of the bytes sent; the Lccl flag is never reset and the
MC2 flag of an earlier kernel is read before it is set for this one
(`ProfDataCollect.cpp:1668`); the `SetDevice` variants write the number through the
context of the old device; after a failed `GenerateArgsHandle` a null handle remains;
`ExpandArgs` of a handle never sets `argsSize_`; the SIMT hooks of the checker
instrument with an offset of an earlier launch (`LaunchSIMTKernelWithHostArgsImpl.cpp:153`)
or with the packed size before alignment (`...WithArgsArrayImpl.cpp:154`);
`bbCountTask` ignores a failed `ExpandArgs`.

## 4. Proofs

`DeviceChannelProofs` proves, for any threads, devices, message lengths and bounds
that satisfy `ChannelAssumption` (the names of threads, devices and processes do not
clash, sizes are positive):

* `TypeCorrect`: `Spec => []TypeOK`, which includes that the number source stays in
  its range;
* `ChannelSafe`: `Spec => []ChannelInv`;
* `OrderedAndWhole`, `UniqueAcrossDevices`, `ForkedChildKeepsOut`: the three wire
  properties;
* `Refinement`: `Spec => Abstract!Spec`, the channel implements `OrderedLinks`;
* `CallsAreAccounted`: `Spec => []CallsAccounted`.

The wire properties are not inductive.  To see that an appended unit follows the
last one, one must know that its thread holds the connection's `sendMutex_`
(`CallStages`), that its number is larger than all numbers on the wire until it
sends its first unit and equal to the last one afterwards (`NumberInFlight`), that
numbers in flight differ (`NumbersDistinct`) and lie below the source
(`NumbersBelowSource`).  That a forked child keeps out rests on the table holding
only sockets opened by the owner of the state (`ConnOwner`) and on every thread past
`CheckProcessOwner` belonging to that owner (`CallStages`); a process that does not
own its state has sent nothing (`SilentUnlessOwner`), which is what lets `Exec` reset
it.  `ChannelInv` is the conjunction.  The proof has one step per action and, under
it, the conjuncts the action can disturb; the lemmas about the wire after an append
are shared by `WriteUnit` and `SendFd`.

`CallsAccounted` needs `AccountInv` on top: a number is reported once its call has
given it up (`ReportedPast`), a packet is not whole while its call is under way
(`UnderWay`), and only the owner of the state hands out numbers or reports
(`OwnedNumbers`), so that `Exec`, which forgets them, forgets none that was reported.

`ProfLaunchProofs` proves, for any blocks, settings, hooks, kernels, failures and
bounds that satisfy `LaunchAssumption` and `OneTaskPerRun`:

* `NewBlockKeptThm`: no `Restore` rewinds a block that was allocated after the last
  `Backup`; `MapOKThm`: the map never names a freed block;
* `RecordsAreOwn`: `Spec => []RecordsOwn`, for all ten hooks;
* `RunsReadTheInput`: `Spec => []RunsReadInput`, for any number of warm-ups, rounds
  and record tasks, failing copies of `Restore` included;
* `LaunchLeavesOneRun`: `Spec => []OneRunLeft`.

Three invariants, each used by the next.  `KeptInv`: `Restore` leaves a new block
alone because it has no snapshot, a run because it is no operand (`FreshUntouched`),
and it has no snapshot because `Discard` erased the entry of its address before the
address could be handed out again (`MapOK`).  `RecordInv`: while the kernel of a task
is in place the buffer is empty or that task's (`TaskOwnsBuffer`), the same for the
block counts up to `GenBBcountFile` (`BlockCountsOwn`), and kernel and arguments are
switched together (`FieldsTogether`).  `ReplayInv`: `KernelReplayed` says in which
phases the operands hold the input, in which the snapshots do and when the operands
hold the result of one run, the operands being out of step exactly while `failed` has
`restore` and the snapshots once a `Backup` has saved that (`spoiled`); `AppReplayed` says that they hold the input until the
one run and the result afterwards, `RunAhead` being the phases that lie before that
run for each kind of instrumentation; `NotProfiled` is the launch the tool does not
want.  They need that every block is recorded as long as no Lccl kernel was seen
(`AllTracked`) and that until `ProfInit` the flags are those the launch found
(`StaleFlags`, `EarlyRuns`).  Only the application-replay part uses `OneTaskPerRun`.

`PipeCallProofs` proves `PipesAreSound` and `CallsEndClean` from `PipeInvariant`, for
any threads, calls and sizes.  `LockInv` keeps `mtx` inside `Create` and `Close`;
`ListInv` says that the list holds the members of all calls and the process what the
list names, but for the ends the holder of `mtx` is creating or closing: without that
exception the invariant is not inductive, and it is why `fork` must hold `mtx`.
`CallInv` and `ChildInv` place a call, its writer and its child, `FlowInv` counts the
units between `input` and `output`, from which follows that a call that returns true
has them all.

`DeviceMemoryProofs` proves `TablesStayTogether`, `FillsStayInside` and
`AlarmsAreExact` from `MemoryInvariant`, for any threads, devices, blocks and sizes.
`BlockInv` is the agreement of tables, tool and allocator for one block, `ThreadInv`
what the call that has the block in hand has not yet done of it, `OneCall` that only
one has.  A size computed after `MemoryGuard::Init` has room for the guard
(`SizeInv`); a launch knows which guards it did not fill and which its kernel ran
past (`LaunchInv`).

`ToolLinkProofs` proves `AnswersStayTogether` and `ServerEndsQuiet` from
`LinkInvariant`, for any threads, devices, clients and calls.  A request is on its
way, with the reader or answered, never in two places (`FlowInv`), under a number of
its own (`UniqueInv`, `UsedInv`), and its thread waits for it or has gone without the
answer.  `ModeInv` gives the profiler one request at a time, `ConfigInv` the
configuration as the first message of a device.  `ServerInv` follows the destructor:
every reader ever started stands in `readWorker_`, those walked past are done, and
nothing is appended once the acceptor is joined (`Walked`), which is what
`ServerEndsQuiet` rests on.

`KernelRegistryProofs` proves `LaunchesRunOwnCopy`, `LaunchesFindOwnBinary` and
`CopiesStayLive` from `RegistryInvariant`, for any threads, handles, kernels and loads.
`NumberInv` is the heart: wherever the tool holds a registration number, in contexts,
functions, launches or tasks, it stands for one load, unless two registrations
overlapped.  `WorkInv`, `ContextInv`, `EventInv` and `StubInv` say what each manager
knows of a handle that nobody is registering, `TaskInv`, `OwnInv` and `StubBinInv` that
a copy is loaded as long as its one task has it.

`ProfRoundsProofs` proves `DataPlaced`, `RunsAreComplete` and `LaunchLeavesNothing`
from `RoundsInvariant`, for any devices, setups, numbers of counter sets, ranges and
failures.  `ChannelsInv` says which channels are open in which phase and that Stop
knows each; `ReaderInv` that no reader outlives its round; `PathInv` that the
directory is the launch's; `BuffersInv` that no L2 block is lost.  With them data in a
channel, in a reader's hands and in a file belong to the round they were produced in
(`BlocksInv`, `FilesInv`).  Completeness is an argument over the runs still to come:
they are ordered and each kind has its place (`TodoInv`), every counter set was
measured, is being measured or is among them (`SetsInv`), and the flags that earlier
runs leave in the task do not take a round away from one of them (`FlagsInv`).
`RangeInv` carries the captured kernels to the replay.  A step changes one device
(`OneDevice`), so each action is proved for its own device and `DeviceKept` covers the
others.

`SanitizerLaunchProofs` proves `HeadsHold`, `BuffersAreSound`, `ReportsAreSingle`,
`RangesAreTracked` and `LaunchesUseTheirOwn`, for any threads, kinds of kernel,
scenarios, numbers of launches and failures.  The scripts are literal lists, so the
proof first says what is in each (`PreCalls`, `PostCalls`) and gives every step a
`Rank`: what is left of a script is sorted by it (`ScriptInv`), and "this step comes
before that one" becomes arithmetic.  The invariants stand in `SanitizerLaunchInv`, four
layers on each other.

* `BufferWorld`: `FrameInv` says what a call holds at each place of its script,
  `ManagerInv` that the thread's manager points at a live buffer, `BufferInv` that its
  heads are those of the call that took it.
* `ReportWorld`: every call has a launch of its own (`OwnersInv`); how often it was
  reported and whether the buffer is valid determine each other (`ReportInv`); a
  launch is announced under the number the hook read back (`EventInv`).
* `OwnWorld`: a call that nobody overlapped is alone and the last that began
  (`AloneInv`), so the last launch of its interface is its own (`NamedInv`); the list
  of launches is ahead of the archive by exactly the calls that stand between their
  entry in the one and in the other (`InStep`, with their cardinality), so that the
  place of a launch in both is the same when it is dumped (`ArchiveInv`).
* `RangeWorld`: whose code sections a hook tells (`Pointed`; `RtInv`: a hook of the
  runtime's interface, which takes the device's last launch, never gets one of the
  other interface), that what is told is withdrawn later in the script (`Paired`), that
  the tool has the sections of a launch exactly between the two (`ToolKnows`), also
  while other calls tell and withdraw theirs, and that nothing is left of calls that
  returned (`ReturnedInv`, `CleanInv`).

The cases the property of each theorem names were met as steps that could not be
proved; `sanlaunch` has the scenario that shows the longest of them.

The constants need only what the modules assume by name; every assumption is evaluated
by TLC on the runs. Each inductive invariant was checked by TLC on the instance of its
run, `RoundsInv` also for every setting of the chips, `ReplayInv` also with all sets
of instrumentation, up to two warm-ups and two failures on one block.

Only model-checked: liveness (`CallsReturn`, `AllReturn`, `DeviceCallsReturn`,
`LaunchReturns`: fairness and `ENABLED` are out of the prover's reach); `OnlineMemory`
and `LaunchData`, whose lists are built with `FoldLeft` (what a fold computes needs
induction over data); `HostCalls`, whose threads walk lists of steps cut out with
`SelectSeq`.

## 5. Plan

1. Done: the modules above, with the proofs above.
2. Proofs: `HostCalls`, once its lists of steps are stated without `SelectSeq`, by the
   ranks that `SanitizerLaunchProofs` uses.
3. Proofs about the operators of `OnlineMemory`: that one step of the merge keeps the
   union of the ranges; the whole list needs induction and stays with TLC.
4. Model: `DiscardAll` and peer-to-peer blocks of `MemoryContext`, ranges of several
   devices in `OnlineMemory`.

## 6. Not modelled, and assumptions

* Files, paths, ELF and JSON parsing, simulator logs, the kernel launcher and the
  formats of profiling data: input and output without shared state.  Dumping of
  inputs and tiling data, the search of tiling data for dump addresses, second-level
  pointers and the contents of records: data only.
* External, modelled by what the code relies on: allocator, device, driver, runtime,
  tool, instrumenter and the commands run through pipes.
* The application is well behaved: it frees what it was given, once, registers
  nothing twice, closes a key through the interface that opened it, and fills a
  placeholder's buffer before `Finalize`.  `ipcMemInfoMap` is read and written without
  a lock; calls on one key do not overlap.
* `DeviceChannel`: text on the general connection may mix (`DomainSocket.cpp:330`),
  each failed `Connect` replaces `sfd_` (`:42`), and a forked child that logs may wait
  (`LocalProcess.cpp:148`); the properties are about device links.  The in-memory
  `LocalComm` used for debugging has no concurrency.
* `ToolLink`: `BBCountDumper::GetOutputDir` asks without `communtionMx_` and is left
  out; clients of other processes only take a place.
* `OnlineMemory`: one device; heaps of length 0 and at the base of an allocation (the
  exception of `RangesExact`) are in the module and not in the instance.  `MemoryManage::Instance()` uses the current device where
  the mstx call names one (`BindSanitizer.cpp:354`); touching ranges of different
  permission are merged (`MemoryDataCollect.cpp:182-215`), so `RangesExact` is about
  extents, not permissions.
* `SanitizerLaunch`: every launch is of a kernel of its own, all threads use one
  device; the peer list is empty.
* `KernelRegistry`: a thread has a device of its own; two devices used by one thread
  share names of output directories.
* `ProfLaunch`: `Restore` also rewinds what another thread wrote to a saved block
  (`MemoryContext.cpp:84`), so the other thread writes only blocks that are no
  operands.  Blocks are not peer-to-peer (those are never saved).  A kernel that
  outlives a wait that timed out (`ProfDataCollect.cpp:1013`) and writes after the next
  `Restore` is left out: it has run, or not, when the wait is over.
* `ProfRounds`: data of a stopped channel can be read until the reader is joined;
  PC sampling and timeline are on A5 only, HCCS is never started; range launches use
  the captured stream and none lies outside a range; warm-up of ranges is left out; a
  range is ended by the thread that began it (`MsTx.cpp:95`); its directory is
  numbered per thread and named per device (`ProfDataCollect.cpp:1121`).
