---------------------------- MODULE DeviceMemory ----------------------------
(***************************************************************************)
(* Device memory under the sanitizer: the hijacked malloc and free, the    *)
(* guard bytes behind every block (MemoryGuard), the table of live ranges  *)
(* per device (MemoryManage), the records sent to the tool, and the part   *)
(* of a kernel launch that uses them (SanitizerLaunchInit, SanitizerPre,   *)
(* SanitizerPost).                                                         *)
(*                                                                         *)
(* Host threads call malloc, free and launch freely; each table has its    *)
(* own lock, so a call is a sequence of steps and the allocator may hand   *)
(* the address of a freed block to another thread between any two of them. *)
(*                                                                         *)
(* Sizes are in units of 32 bytes, MemoryGuard's alignment.  The front     *)
(* guard is always empty, so a block has one address.  Records reach the   *)
(* tool in the order of the Notify calls (DeviceChannel), so the model     *)
(* keeps only what the tool knows of each address.                         *)
(***************************************************************************)
EXTENDS Naturals, FiniteSets

CONSTANTS
    Threads,       \* the threads of the instrumented process
    Devices,       \* the devices they use
    Blocks,        \* the addresses the allocator can return
    UserSizes,     \* the sizes asked for
    SizeMax,       \* SIZE_MAX
    DefaultBack,   \* GM_BUFFER_GUARD_DFT_SIZE, backSize_ before Init
    ConfigBack,    \* gmBufferGuardSize of the tool's configuration
    AlignExtra,    \* what an ACL record adds to the size, 0 on Ascend950
    MaxCalls,      \* bound on the calls of all threads together
    None           \* no block, no entry

\* An entry of guardMemMap_, an entry of memoryOpAddrInfos_, an allocated block.
Entry == [user : UserSizes, back : 0..SizeMax]
AddrInfo == [addr : Blocks, length : 1..(SizeMax + 1)]
Block == [dev : Devices, user : UserSizes, total : 0..SizeMax, early : BOOLEAN,
          st : {"new", "owned", "freeing", "kept"}]

ASSUME MemoryAssumption ==
    /\ None \notin Blocks /\ None \notin Entry /\ None \notin Block
    /\ SizeMax \in Nat
    /\ DefaultBack \in 0..SizeMax
    /\ ConfigBack \in 0..SizeMax
    /\ UserSizes \subseteq 1..SizeMax
    /\ AlignExtra \in {0, 1}
    /\ MaxCalls \in Nat

VARIABLES
    pc,                 \* where each thread stands in its current call
    dev,                \* the thread's current device, ThreadContext
    size,               \* the size of the current malloc
    total,              \* actualSize_ of the current malloc
    early,              \* history: it was computed before Init was through
    ptr,                \* the block of the current malloc or free
    calls,              \* calls started so far
    memCheck,           \* the configuration asks for memory checks
    memGuardInit,       \* MemoryGuard::memGuardInit_
    memGuardEnable,     \* MemoryGuard::memGuardEnable_
    backSize,           \* MemoryGuard::backSize_
    guardMemMap,        \* MemoryGuard::guardMemMap_
    memoryOpAddrInfos,  \* MemoryManage::memoryOpAddrInfos_ of each device
    mallocCount,        \* MemoryManage::mallocCount_ of each device
    view,               \* what the tool knows: the size of a live block, or 0
    block,              \* the allocator: who has each address
    guard,              \* the bytes of each block's guard
    hostMemoryNum,      \* SanitizerLaunchInit::hostMemoryNum_ of the launch
    checked,            \* the launch will check the guards (memInfo_, not skipped)
    stray,              \* a kernel nobody waited for may still be running
    unfilled,           \* history: registered blocks the launch has not filled, why
    overran,            \* history: blocks the launch's kernel ran past
    alarms              \* what the last CheckAllMemGuard saw and reported

argVars == <<size, total, early, ptr>>
callVars == <<pc, dev, argVars, calls>>
guardVars == <<memCheck, memGuardInit, memGuardEnable, backSize, guardMemMap>>
tableVars == <<memoryOpAddrInfos, mallocCount, view>>
deviceVars == <<block, guard, stray>>
launchVars == <<hostMemoryNum, checked, unfilled, overran, alarms>>
vars == <<pc, dev, size, total, early, ptr, calls, memCheck, memGuardInit,
          memGuardEnable, backSize, guardMemMap, memoryOpAddrInfos, mallocCount,
          view, block, guard, stray, hostMemoryNum, checked, unfilled, overran,
          alarms>>

Locations == {"idle", "init", "config", "sizes", "total", "alloc", "mallocProc",
              "cacheMalloc", "notifyMalloc", "cacheFree", "notifyFree",
              "freeProc", "release", "heads", "fill", "kernel", "check"}

Init ==
    /\ pc = [t \in Threads |-> "idle"]
    /\ dev \in [Threads -> Devices]
    /\ size = [t \in Threads |-> 0]
    /\ total = [t \in Threads |-> 0]
    /\ early = [t \in Threads |-> FALSE]
    /\ ptr = [t \in Threads |-> None]
    /\ calls = 0
    /\ memCheck \in BOOLEAN
    /\ memGuardInit = FALSE
    /\ memGuardEnable = FALSE
    /\ backSize = DefaultBack
    /\ guardMemMap = [d \in Devices |-> [b \in Blocks |-> None]]
    /\ memoryOpAddrInfos = [d \in Devices |-> {}]
    /\ mallocCount = [d \in Devices |-> 0]
    /\ view = [b \in Blocks |-> 0]
    /\ block = [b \in Blocks |-> None]
    /\ guard = [b \in Blocks |-> "raw"]
    /\ hostMemoryNum = [t \in Threads |-> 0]
    /\ checked = [t \in Threads |-> FALSE]
    /\ stray = FALSE
    /\ unfilled = [t \in Threads |-> {}]
    /\ overran = [t \in Threads |-> {}]
    /\ alarms = {}

-----------------------------------------------------------------------------

Goto(t, l) == pc' = [pc EXCEPT ![t] = l]

\* The hook returns; the values of its object are gone with it.
Return(t) ==
    /\ Goto(t, "idle")
    /\ size' = [size EXCEPT ![t] = 0]
    /\ total' = [total EXCEPT ![t] = 0]
    /\ early' = [early EXCEPT ![t] = FALSE]
    /\ ptr' = [ptr EXCEPT ![t] = None]

\* The record of an allocation: ACL rounds the size up and adds 32 bytes.
RecordSize(n) == n + AlignExtra

\* The blocks that have an entry in guardMemMap_, over all devices.
Registered == {b \in Blocks : \E d \in Devices : guardMemMap[d][b] # None}

\* aclrtSetDevice binds the thread to a device.
SetDevice(t) ==
    /\ pc[t] = "idle"
    /\ \E d \in Devices \ {dev[t]} : dev' = [dev EXCEPT ![t] = d]
    /\ UNCHANGED <<pc, argVars, calls, guardVars, tableVars, deviceVars,
                   launchVars>>

-----------------------------------------------------------------------------
(* malloc.                                                                 *)

\* GetTotalSize, first test: the first allocation initialises MemoryGuard.  Flag and
\* sizes are plain members, read and written without the lock.
MallocBegin(t) ==
    /\ pc[t] = "idle"
    /\ calls < MaxCalls
    /\ calls' = calls + 1
    /\ \E n \in UserSizes : size' = [size EXCEPT ![t] = n]
    /\ Goto(t, IF memGuardInit THEN "total" ELSE "init")
    /\ UNCHANGED <<dev, total, early, ptr, guardVars, tableVars, deviceVars,
                   launchVars>>

\* MemoryGuard::Init marks itself done, then asks the tool for its configuration.
InitMark(t) ==
    /\ pc[t] = "init"
    /\ memGuardInit' = TRUE
    /\ Goto(t, "config")
    /\ UNCHANGED <<dev, argVars, calls, memCheck, memGuardEnable, backSize,
                   guardMemMap, tableVars, deviceVars, launchVars>>

InitEnable(t) ==
    /\ pc[t] = "config"
    /\ memGuardEnable' = (memGuardEnable \/ memCheck)
    /\ Goto(t, IF memCheck THEN "sizes" ELSE "total")
    /\ UNCHANGED <<dev, argVars, calls, memCheck, memGuardInit, backSize,
                   guardMemMap, tableVars, deviceVars, launchVars>>

InitSizes(t) ==
    /\ pc[t] = "sizes"
    /\ backSize' = ConfigBack
    /\ Goto(t, "total")
    /\ UNCHANGED <<dev, argVars, calls, memCheck, memGuardInit,
                   memGuardEnable, guardMemMap, tableVars, deviceVars, launchVars>>

\* Mutant: the sum wraps around like any size_t.
GetTotalSizeWraps(n) ==
    IF memGuardEnable THEN (n + backSize) % (SizeMax + 1) ELSE n

\* GetTotalSize, the sum with its overflow test.
GetTotalSize(n) ==
    IF ~memGuardEnable THEN n
    ELSE IF n > SizeMax - backSize THEN SizeMax
    ELSE n + backSize

TotalSize(t) ==
    /\ pc[t] = "total"
    /\ total' = [total EXCEPT ![t] = GetTotalSize(size[t])]
    /\ early' = [early EXCEPT ![t] =
                    memCheck /\ ~(memGuardEnable /\ backSize = ConfigBack)]
    /\ Goto(t, "alloc")
    /\ UNCHANGED <<dev, size, ptr, calls, guardVars, tableVars, deviceVars,
                   launchVars>>

\* The original malloc: any free address, and never SIZE_MAX bytes.
OriginMalloc(t) ==
    /\ pc[t] = "alloc"
    /\ \/ /\ total[t] < SizeMax
          /\ \E b \in Blocks :
                /\ block[b] = None
                /\ block' = [block EXCEPT ![b] =
                      [dev |-> dev[t], user |-> size[t], total |-> total[t],
                       early |-> early[t], st |-> "new"]]
                /\ guard' = [guard EXCEPT ![b] = "raw"]
                /\ ptr' = [ptr EXCEPT ![t] = b]
          /\ Goto(t, "mallocProc")
          /\ UNCHANGED <<size, total, early>>
       \/ /\ Return(t)
          /\ UNCHANGED <<block, guard>>
    /\ UNCHANGED <<dev, calls, guardVars, tableVars, stray, launchVars>>

\* Post: MemoryGuard::MallocProc enters the block under the thread's device.
MallocProc(t) ==
    /\ pc[t] = "mallocProc"
    /\ guardMemMap' =
          IF memGuardEnable
          THEN [guardMemMap EXCEPT ![dev[t]][ptr[t]] =
                   [user |-> size[t], back |-> backSize]]
          ELSE guardMemMap
    /\ unfilled' =
          [u \in Threads |->
              IF memGuardEnable /\ pc[u] \in {"kernel", "check"}
              THEN unfilled[u] \cup {<<ptr[t], "newer">>} ELSE unfilled[u]]
    /\ Goto(t, "cacheMalloc")
    /\ UNCHANGED <<dev, argVars, calls, memCheck, memGuardInit,
                   memGuardEnable, backSize, tableVars, deviceVars, hostMemoryNum,
                   checked, overran, alarms>>

\* MemoryManage::CacheMemory<MALLOC>.
CacheMalloc(t) ==
    /\ pc[t] = "cacheMalloc"
    /\ mallocCount' = [mallocCount EXCEPT ![dev[t]] = @ + 1]
    /\ memoryOpAddrInfos' =
          [memoryOpAddrInfos EXCEPT ![dev[t]] =
              @ \cup {[addr |-> ptr[t], length |-> RecordSize(size[t])]}]
    /\ Goto(t, "notifyMalloc")
    /\ UNCHANGED <<dev, argVars, calls, guardVars, view, deviceVars,
                   launchVars>>

\* The MALLOC record goes to the tool and the application gets the block.
NotifyMalloc(t) ==
    /\ pc[t] = "notifyMalloc"
    /\ view' = [view EXCEPT ![ptr[t]] = RecordSize(size[t])]
    /\ block' = [block EXCEPT ![ptr[t]].st = "owned"]
    /\ Return(t)
    /\ UNCHANGED <<dev, calls, guardVars, memoryOpAddrInfos, mallocCount, guard,
                   stray, launchVars>>

-----------------------------------------------------------------------------
(* free.  The application frees a block it has, once, on the block's device. *)

\* Call and the head of Pre: the free starts with the block still allocated.
FreeBegin(t) ==
    /\ pc[t] = "idle"
    /\ calls < MaxCalls
    /\ calls' = calls + 1
    /\ \E b \in Blocks :
          /\ block[b] # None
          /\ block[b].st \in {"owned", "kept"}
          /\ block[b].dev = dev[t]
          /\ block' = [block EXCEPT ![b].st = "freeing"]
          /\ ptr' = [ptr EXCEPT ![t] = b]
    /\ Goto(t, "cacheFree")
    /\ UNCHANGED <<dev, size, total, early, guardVars, tableVars, guard, stray,
                   launchVars>>

\* Pre: MemoryManage::CacheMemory<FREE> removes the first entry of the address.
CacheFree(t) ==
    /\ pc[t] = "cacheFree"
    /\ \/ /\ \E info \in memoryOpAddrInfos[dev[t]] :
                /\ info.addr = ptr[t]
                /\ \A other \in memoryOpAddrInfos[dev[t]] :
                      other.addr = ptr[t] => info.length <= other.length
                /\ memoryOpAddrInfos' = [memoryOpAddrInfos EXCEPT ![dev[t]] =
                                            @ \ {info}]
          /\ mallocCount' = [mallocCount EXCEPT ![dev[t]] = @ - 1]
       \/ /\ \A info \in memoryOpAddrInfos[dev[t]] : info.addr # ptr[t]
          /\ UNCHANGED <<memoryOpAddrInfos, mallocCount>>
    /\ Goto(t, "notifyFree")
    /\ UNCHANGED <<dev, argVars, calls, guardVars, view, deviceVars,
                   launchVars>>

NotifyFree(t) ==
    /\ pc[t] = "notifyFree"
    /\ view' = [view EXCEPT ![ptr[t]] = 0]
    /\ Goto(t, "freeProc")
    /\ UNCHANGED <<dev, argVars, calls, guardVars, memoryOpAddrInfos,
                   mallocCount, deviceVars, launchVars>>

\* Mutant: FreeProc runs in Post, when the address may already have a new owner.
FreeProcAfterFree(t) ==
    \/ /\ pc[t] = "freeProc"
       /\ block' = [block EXCEPT ![ptr[t]] = None]
       /\ Goto(t, "post")
       /\ UNCHANGED <<dev, argVars, calls, guardVars, tableVars, guard, stray,
                      launchVars>>
    \/ /\ pc[t] = "post"
       /\ guardMemMap' = [guardMemMap EXCEPT ![dev[t]][ptr[t]] = None]
       /\ Return(t)
       /\ UNCHANGED <<dev, calls, memCheck, memGuardInit, memGuardEnable, backSize,
                      tableVars, deviceVars, launchVars>>

\* MemoryGuard::FreeProc, still before the original free.
FreeProc(t) ==
    /\ pc[t] = "freeProc"
    /\ guardMemMap' = IF memGuardEnable
                      THEN [guardMemMap EXCEPT ![dev[t]][ptr[t]] = None]
                      ELSE guardMemMap
    /\ Goto(t, "release")
    /\ UNCHANGED <<dev, argVars, calls, memCheck, memGuardInit,
                   memGuardEnable, backSize, tableVars, deviceVars, launchVars>>

\* The original free, with the address GetRealPtr found; it may refuse.
OriginFree(t) ==
    /\ pc[t] = "release"
    /\ \/ /\ block' = [block EXCEPT ![ptr[t]] = None]
          /\ guard' = [guard EXCEPT ![ptr[t]] = "raw"]
          /\ overran' = [u \in Threads |-> overran[u] \ {ptr[t]}]
          /\ unfilled' = [u \in Threads |->
                            {x \in unfilled[u] : x[1] # ptr[t]}]
       \/ /\ block' = [block EXCEPT ![ptr[t]].st = "kept"]
          /\ UNCHANGED <<guard, overran, unfilled>>
    /\ Return(t)
    /\ UNCHANGED <<dev, calls, guardVars, tableVars, stray, hostMemoryNum, checked,
                   alarms>>

-----------------------------------------------------------------------------
(* Kernel launch.                                                          *)

\* SanitizerLaunchInit::Init notes how many ranges there are ...
LaunchInit(t) ==
    /\ pc[t] = "idle"
    /\ calls < MaxCalls
    /\ calls' = calls + 1
    /\ hostMemoryNum' = [hostMemoryNum EXCEPT ![t] = mallocCount[dev[t]]]
    /\ \E c \in BOOLEAN : checked' = [checked EXCEPT ![t] = c]
    /\ Goto(t, "heads")
    /\ UNCHANGED <<dev, argVars, guardVars, tableVars, deviceVars,
                   unfilled, overran, alarms>>

\* MergeHostMems: ranges of different addresses that do not touch stay apart, and
\* the list is padded to mallocCount_.
MergedNum(d) ==
    LET addrs == {info.addr : info \in memoryOpAddrInfos[d]} IN
    IF addrs = {} \/ mallocCount[d] = 0 THEN 0
    ELSE IF Cardinality(addrs) < mallocCount[d] THEN mallocCount[d]
    ELSE Cardinality(addrs)

\* ... and the head of every block of the kernel is then written with the list of
\* that moment (nothing of this state depends on what is written).
HeadsH2D(t) ==
    /\ pc[t] = "heads"
    /\ hostMemoryNum' = [hostMemoryNum EXCEPT ![t] = 0]
    /\ Goto(t, "fill")
    /\ UNCHANGED <<dev, argVars, calls, guardVars, tableVars,
                   deviceVars, checked, unfilled, overran, alarms>>

\* Mutant: only the guards of the thread's own device are filled.
FillLocalMemGuard(t) ==
    /\ pc[t] = "fill"
    /\ \E failed \in SUBSET Registered :
          LET filled == IF memGuardEnable
                        THEN {b \in Registered \ failed : guardMemMap[dev[t]][b] # None}
                        ELSE {} IN
          /\ guard' = [b \in Blocks |-> IF b \in filled THEN "pattern" ELSE guard[b]]
          /\ unfilled' = [u \in Threads |->
                IF u = t /\ memGuardEnable THEN failed \X {"failed"}
                ELSE {x \in unfilled[u] : x[1] \notin filled}]
          /\ overran' = [u \in Threads |-> overran[u] \ filled]
    /\ Goto(t, "kernel")
    /\ UNCHANGED <<dev, argVars, calls, guardVars, tableVars, block, stray,
                   hostMemoryNum, checked, alarms>>

\* FillAllMemGuard, one step under mutex_; a memset that fails is only logged.  The
\* fill also removes what other running kernels have left there.
FillAllMemGuard(t) ==
    /\ pc[t] = "fill"
    /\ \E failed \in SUBSET Registered :
          LET filled == IF memGuardEnable THEN Registered \ failed ELSE {} IN
          /\ guard' = [b \in Blocks |-> IF b \in filled THEN "pattern" ELSE guard[b]]
          /\ unfilled' = [u \in Threads |->
                IF u = t /\ memGuardEnable THEN failed \X {"failed"}
                ELSE {x \in unfilled[u] : x[1] \notin filled}]
          /\ overran' = [u \in Threads |-> overran[u] \ filled]
    /\ Goto(t, "kernel")
    /\ UNCHANGED <<dev, argVars, calls, guardVars, tableVars, block, stray,
                   hostMemoryNum, checked, alarms>>

\* A kernel writes past the end of a block the application has.
RunsPast(b) ==
    /\ block[b] # None
    /\ block[b].st # "new"
    /\ block[b].total > block[b].user
    /\ guard' = [guard EXCEPT ![b] = "hit"]

Overrun(t) ==
    /\ pc[t] = "kernel"
    /\ \E b \in Blocks :
          /\ RunsPast(b)
          /\ overran' = [overran EXCEPT ![t] = @ \cup {b}]
    /\ UNCHANGED <<callVars, guardVars, tableVars, block, stray, hostMemoryNum,
                   checked, unfilled, alarms>>

StrayOverrun ==
    /\ stray
    /\ \E b \in Blocks : RunsPast(b)
    /\ UNCHANGED <<callVars, guardVars, tableVars, block, stray, launchVars>>

\* SanitizerPost waits for the kernel only when it is going to check.
KernelEnds(t) ==
    /\ pc[t] = "kernel"
    /\ \/ /\ checked[t]
          /\ Goto(t, "check")
          /\ checked' = [checked EXCEPT ![t] = FALSE]
          /\ UNCHANGED <<stray, unfilled, overran>>
       \/ /\ ~checked[t]
          /\ Goto(t, "idle")
          /\ UNCHANGED checked
          /\ stray' = TRUE
          /\ unfilled' = [unfilled EXCEPT ![t] = {}]
          /\ overran' = [overran EXCEPT ![t] = {}]
    /\ UNCHANGED <<dev, argVars, calls, guardVars, tableVars, block,
                   guard, hostMemoryNum, alarms>>

\* What a check saw of a block: whether the bytes could be read, whether an alarm
\* was raised, and how the guard stood.
Seen(t, b, copied, alarm) ==
    [copied |-> copied, alarm |-> alarm, hit |-> guard[b] = "hit",
     mine |-> b \in overran[t],
     newer |-> <<b, "newer">> \in unfilled[t],
     failed |-> <<b, "failed">> \in unfilled[t]]

\* CheckAllMemGuard, one step under mutex_: copy each guard to the host (a copy that
\* fails is only logged) and report every byte that is not the pattern.
CheckAllMemGuard(t) ==
    /\ pc[t] = "check"
    /\ \E failed \in SUBSET Registered :
          alarms' = IF ~memGuardEnable THEN {}
                    ELSE {Seen(t, b, b \notin failed,
                               b \notin failed /\ guard[b] # "pattern") :
                              b \in Registered}
    /\ unfilled' = [unfilled EXCEPT ![t] = {}]
    /\ overran' = [overran EXCEPT ![t] = {}]
    /\ Goto(t, "idle")
    /\ UNCHANGED <<dev, argVars, calls, guardVars, tableVars, deviceVars,
                   hostMemoryNum, checked>>

-----------------------------------------------------------------------------

Malloc(t) ==
    \/ MallocBegin(t) \/ InitMark(t) \/ InitEnable(t) \/ InitSizes(t)
    \/ TotalSize(t) \/ OriginMalloc(t) \/ MallocProc(t) \/ CacheMalloc(t)
    \/ NotifyMalloc(t)

Free(t) ==
    \/ FreeBegin(t) \/ CacheFree(t) \/ NotifyFree(t) \/ FreeProc(t) \/ OriginFree(t)

Launch(t) ==
    \/ LaunchInit(t) \/ HeadsH2D(t) \/ FillAllMemGuard(t) \/ Overrun(t)
    \/ KernelEnds(t) \/ CheckAllMemGuard(t)

Next ==
    \/ \E t \in Threads : SetDevice(t) \/ Malloc(t) \/ Free(t) \/ Launch(t)
    \/ StrayOverrun

Spec == Init /\ [][Next]_vars

-----------------------------------------------------------------------------
(* Properties.                                                             *)

CallTypes ==
    /\ pc \in [Threads -> Locations]
    /\ dev \in [Threads -> Devices]
    /\ size \in [Threads -> UserSizes \cup {0}]
    /\ total \in [Threads -> 0..SizeMax]
    /\ early \in [Threads -> BOOLEAN]
    /\ ptr \in [Threads -> Blocks \cup {None}]
    /\ calls \in 0..MaxCalls

TableTypes ==
    /\ memCheck \in BOOLEAN
    /\ memGuardInit \in BOOLEAN
    /\ memGuardEnable \in BOOLEAN
    /\ backSize \in {DefaultBack, ConfigBack}
    /\ guardMemMap \in [Devices -> [Blocks -> Entry \cup {None}]]
    /\ memoryOpAddrInfos \in [Devices -> SUBSET AddrInfo]
    /\ mallocCount \in [Devices -> Nat]
    /\ view \in [Blocks -> 0..(SizeMax + 1)]

DeviceTypes ==
    /\ block \in [Blocks -> Block \cup {None}]
    /\ guard \in [Blocks -> {"raw", "pattern", "hit"}]
    /\ hostMemoryNum \in [Threads -> Nat]
    /\ checked \in [Threads -> BOOLEAN]
    /\ stray \in BOOLEAN
    /\ unfilled \in [Threads -> SUBSET (Blocks \X {"newer", "failed"})]
    /\ overran \in [Threads -> SUBSET Blocks]

TypeOK == CallTypes /\ TableTypes /\ DeviceTypes

\* The block at address b is live on device d and was asked for with n units.
Lives(b, d, n) == block[b] # None /\ block[b].dev = d /\ block[b].user = n

\* Nothing outlives its block: an address that the guard table, the range table or
\* the tool still knows is allocated, to the call that was recorded and not to a
\* later one that got the same address.
KnownBlocksLive ==
    \A b \in Blocks, d \in Devices :
        /\ guardMemMap[d][b] # None => Lives(b, d, guardMemMap[d][b].user)
        /\ \A info \in memoryOpAddrInfos[d] :
              info.addr = b => \E n \in UserSizes :
                                  Lives(b, d, n) /\ info.length = RecordSize(n)
        /\ view[b] # 0 => block[b] # None /\ view[b] = RecordSize(block[b].user)

\* A block the application has, and never tried to free, is known to the range table
\* and to the tool, and to the guard table when guards are in use.
OwnedBlocksKnown ==
    \A b \in Blocks :
        (block[b] # None /\ block[b].st = "owned") =>
            /\ [addr |-> b, length |-> RecordSize(block[b].user)]
                   \in memoryOpAddrInfos[block[b].dev]
            /\ view[b] = RecordSize(block[b].user)
            /\ memCheck /\ ~block[b].early => guardMemMap[block[b].dev][b] # None

\* mallocCount_, which sizes the head of every kernel block, is the number of entries
\* of the table it counts.
CountMatches ==
    \A d \in Devices : mallocCount[d] = Cardinality(memoryOpAddrInfos[d])

\* FillAllMemGuard writes only inside live blocks, over the size the application
\* asked for: every registered guard fits in its allocation, except for a block
\* whose size was computed while another thread was still in MemoryGuard::Init.
GuardsInside ==
    \A b \in Blocks, d \in Devices :
        guardMemMap[d][b] # None =>
            /\ block[b] # None
            /\ \/ block[b].early
               \/ guardMemMap[d][b].user + guardMemMap[d][b].back <= block[b].total

\* An alarm has a cause: the guard was written to since it was last filled, or this
\* launch had not filled it (the memset failed, or the block is newer).
AlarmsCaused ==
    \A s \in alarms : s.alarm => s.hit \/ s.newer \/ s.failed

\* A kernel that ran past a registered block is reported by its own launch, unless
\* the guard cannot be read or a concurrent launch filled it in the meantime.
OverrunsReported ==
    \A s \in alarms : s.mine /\ s.copied => s.alarm

\* When the head of a kernel block is written, the merged list fits in the
\* hostMemoryNum_ places counted when the launch began, unless the table has grown
\* in between (SanitizerLaunchInit::Init, HostMallocH2D).
HostTableFits ==
    \A t \in Threads :
        pc[t] = "heads" /\ mallocCount[dev[t]] <= hostMemoryNum[t]
            => MergedNum(dev[t]) <= hostMemoryNum[t]

\* The guard table, the range table, its count, the tool and the allocator agree,
\* and a launch reads them consistently.
TablesAgree ==
    /\ TypeOK
    /\ KnownBlocksLive
    /\ OwnedBlocksKnown
    /\ CountMatches
    /\ HostTableFits

\* Guard alarms are caused and complete (FillAllMemGuard, CheckAllMemGuard).
AlarmsExact == AlarmsCaused /\ OverrunsReported
=============================================================================
