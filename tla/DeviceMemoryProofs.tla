------------------------- MODULE DeviceMemoryProofs -------------------------
(***************************************************************************)
(* Proofs about DeviceMemory, for any number of threads, devices, blocks   *)
(* and calls and for every size.                                           *)
(***************************************************************************)
EXTENDS DeviceMemory, TLAPS, FiniteSetTheorems

-----------------------------------------------------------------------------
(* The inductive invariant.                                                *)

\* Where a malloc has a size, where it has a block, where a free has one.
Asking == {"init", "config", "sizes", "total", "alloc"}
Allocating == {"mallocProc", "cacheMalloc", "notifyMalloc"}
Freeing == {"cacheFree", "notifyFree", "freeProc", "release"}

\* The block of a call is the caller's, in the state the call has left it.
CallInv(t) ==
    /\ pc[t] \in Asking \cup Allocating => size[t] \in UserSizes
    /\ pc[t] \notin Allocating \cup Freeing => ptr[t] = None
    /\ pc[t] \in Allocating \cup Freeing =>
           ptr[t] \in Blocks /\ block[ptr[t]] # None /\ block[ptr[t]].dev = dev[t]
    /\ pc[t] \in Freeing => block[ptr[t]].st = "freeing"
    /\ pc[t] \in Allocating =>
           /\ block[ptr[t]].st = "new" /\ block[ptr[t]].user = size[t]
           /\ block[ptr[t]].total = total[t] /\ block[ptr[t]].early = early[t]
           /\ total[t] < SizeMax

\* What the tables hold of it meanwhile.
TableInv(t) ==
    /\ pc[t] \in {"mallocProc", "cacheMalloc", "notifyFree", "freeProc", "release"} =>
           \A d \in Devices : \A info \in memoryOpAddrInfos[d] : info.addr # ptr[t]
    /\ pc[t] = "notifyMalloc" =>
           [addr |-> ptr[t], length |-> RecordSize(size[t])] \in memoryOpAddrInfos[dev[t]]
    /\ pc[t] \in {"freeProc", "release"} => view[ptr[t]] = 0
    /\ pc[t] = "release" => guardMemMap[dev[t]][ptr[t]] = None
    /\ pc[t] \in {"cacheMalloc", "notifyMalloc"} /\ memCheck /\ ~early[t] =>
           guardMemMap[dev[t]][ptr[t]] # None

\* A size that was computed after MemoryGuard::Init has room for the guard.
SizeInv(t) ==
    pc[t] \in {"alloc"} \cup Allocating /\ memCheck /\ ~early[t] =>
        /\ memGuardEnable /\ backSize = ConfigBack
        /\ total[t] = SizeMax \/ total[t] = size[t] + ConfigBack

ThreadInv(t) == CallInv(t) /\ TableInv(t) /\ SizeInv(t)

\* The tables and the tool know what the allocator knows of a block.
BlockInv(b) ==
    /\ \A d \in Devices :
          guardMemMap[d][b] # None =>
              /\ Lives(b, d, guardMemMap[d][b].user)
              /\ \/ block[b].early
                 \/ guardMemMap[d][b].user + guardMemMap[d][b].back <= block[b].total
    /\ \A d \in Devices : \A info \in memoryOpAddrInfos[d] :
          info.addr = b => /\ block[b] # None /\ block[b].dev = d
                           /\ info.length = RecordSize(block[b].user)
    /\ view[b] # 0 => block[b] # None /\ view[b] = RecordSize(block[b].user)
    /\ block[b] # None /\ block[b].st = "owned" =>
          /\ [addr |-> b, length |-> RecordSize(block[b].user)] \in memoryOpAddrInfos[block[b].dev]
          /\ view[b] = RecordSize(block[b].user)
          /\ memCheck /\ ~block[b].early => guardMemMap[block[b].dev][b] # None

\* A block is in the hands of one call at a time.
OneCall == \A t, u \in Threads : ptr[t] # None /\ ptr[t] = ptr[u] => t = u

\* Guards are registered only when they are in use.
EnableInv ==
    /\ memGuardEnable => memCheck
    /\ \A d \in Devices, b \in Blocks : guardMemMap[d][b] # None => memGuardEnable

\* What a launch knows of the guards it has not filled, and of those it ran past.
LaunchInv(t) ==
    /\ \A b \in overran[t] : guard[b] = "hit" /\ block[b] # None
    /\ pc[t] \in {"kernel", "check"} =>
           \A b \in Registered : guard[b] = "raw" =>
               <<b, "newer">> \in unfilled[t] \/ <<b, "failed">> \in unfilled[t]

FiniteTables == \A d \in Devices : IsFiniteSet(memoryOpAddrInfos[d])

MemoryInv ==
    /\ TypeOK /\ CountMatches /\ FiniteTables /\ OneCall /\ EnableInv /\ AlarmsExact
    /\ \A b \in Blocks : BlockInv(b)
    /\ \A t \in Threads : ThreadInv(t) /\ LaunchInv(t)

-----------------------------------------------------------------------------
(* Types.                                                                  *)

\* The constants, in the form the proofs use.
LEMMA ConstantFacts ==
    /\ SizeMax \in Nat /\ DefaultBack \in 0..SizeMax /\ ConfigBack \in 0..SizeMax
    /\ \A n \in UserSizes : n \in Nat /\ 1 <= n /\ n <= SizeMax /\ n + AlignExtra \in 1..(SizeMax + 1)
BY MemoryAssumption

\* The initial state has the right type.
LEMMA InitType == Init => TypeOK
<1> SUFFICES ASSUME Init PROVE TypeOK
  OBVIOUS
<1> USE MemoryAssumption DEF Init
<1>1. CallTypes
  BY DEF CallTypes, Locations
<1>2. TableTypes
  <2>1. view \in [Blocks -> 0..(SizeMax + 1)]
    BY ConstantFacts
  <2>2. guardMemMap \in [Devices -> [Blocks -> Entry \cup {None}]]
    OBVIOUS
  <2>3. memoryOpAddrInfos \in [Devices -> SUBSET AddrInfo] /\ mallocCount \in [Devices -> Nat]
    OBVIOUS
  <2> QED BY <2>1, <2>2, <2>3 DEF TableTypes
<1>3. DeviceTypes
  BY DEF DeviceTypes
<1> QED BY <1>1, <1>2, <1>3 DEF TypeOK

\* A size GetTotalSize computes is a size_t.
LEMMA TotalIsSize ==
    ASSUME TypeOK, NEW n \in UserSizes PROVE GetTotalSize(n) \in 0..SizeMax
BY ConstantFacts DEF TypeOK, TableTypes, GetTotalSize

\* A block changes hands.
LEMMA StateChange ==
    ASSUME TypeOK, NEW b \in Blocks, block[b] # None,
           NEW st \in {"new", "owned", "freeing", "kept"}, block' = [block EXCEPT ![b].st = st]
    PROVE  /\ block' \in [Blocks -> Block \cup {None}]
           /\ block'[b] \in Block /\ block'[b] # None /\ block'[b].st = st
           /\ block'[b].dev = block[b].dev /\ block'[b].user = block[b].user
           /\ block'[b].total = block[b].total /\ block'[b].early = block[b].early
           /\ \A x \in Blocks : x # b => block'[x] = block[x]
<1>1. block[b] \in Block /\ block \in [Blocks -> Block \cup {None}]
  BY DEF TypeOK, DeviceTypes
<1>2. block' = [block EXCEPT ![b] = [block[b] EXCEPT !.st = st]]
  OBVIOUS
<1>3. [block[b] EXCEPT !.st = st] \in Block
  BY <1>1 DEF Block
<1>4. block'[b] = [block[b] EXCEPT !.st = st] /\ \A x \in Blocks : x # b => block'[x] = block[x]
  BY <1>1, <1>2
<1>5. /\ block'[b].st = st /\ block'[b].dev = block[b].dev /\ block'[b].user = block[b].user
      /\ block'[b].total = block[b].total /\ block'[b].early = block[b].early
  BY <1>1, <1>4 DEF Block
<1> QED BY <1>1, <1>2, <1>3, <1>4, <1>5, MemoryAssumption

\* The original malloc succeeds.
LEMMA NewBlock ==
    ASSUME TypeOK, NEW t \in Threads, CallInv(t), pc[t] = "alloc", NEW b \in Blocks,
           block' = [block EXCEPT ![b] = [dev |-> dev[t], user |-> size[t], total |-> total[t],
                                          early |-> early[t], st |-> "new"]]
    PROVE  /\ block' \in [Blocks -> Block \cup {None}]
           /\ block'[b] \in Block /\ block'[b] # None /\ block'[b].st = "new"
           /\ block'[b].dev = dev[t] /\ block'[b].user = size[t]
           /\ block'[b].total = total[t] /\ block'[b].early = early[t]
           /\ \A x \in Blocks : x # b => block'[x] = block[x]
<1> DEFINE new == [dev |-> dev[t], user |-> size[t], total |-> total[t], early |-> early[t],
                   st |-> "new"]
<1>1. block \in [Blocks -> Block \cup {None}]
  BY DEF TypeOK, DeviceTypes
<1>2. /\ dev[t] \in Devices /\ size[t] \in UserSizes /\ total[t] \in 0..SizeMax
      /\ early[t] \in BOOLEAN
  BY DEF TypeOK, CallTypes, CallInv, Asking
<1>3. new \in Block
  BY <1>2 DEF Block
<1>4. block'[b] = new /\ \A x \in Blocks : x # b => block'[x] = block[x]
  BY <1>1
<1>5. /\ new.st = "new" /\ new.dev = dev[t] /\ new.user = size[t] /\ new.total = total[t]
      /\ new.early = early[t]
  OBVIOUS
<1> HIDE DEF new
<1>6. block' \in [Blocks -> Block \cup {None}]
  BY <1>1, <1>3 DEF new
<1> QED BY <1>3, <1>4, <1>5, <1>6, MemoryAssumption

\* What FillAllMemGuard fills.
LEMMA FillPicks ==
    ASSUME NEW t \in Threads, FillAllMemGuard(t)
    PROVE  \E failed \in SUBSET Registered, filled \in SUBSET Registered :
              /\ filled = IF memGuardEnable THEN Registered \ failed ELSE {}
              /\ guard' = [b \in Blocks |-> IF b \in filled THEN "pattern" ELSE guard[b]]
              /\ unfilled' = [u \in Threads |->
                    IF u = t /\ memGuardEnable THEN failed \X {"failed"}
                    ELSE {x \in unfilled[u] : x[1] \notin filled}]
              /\ overran' = [u \in Threads |-> overran[u] \ filled]
<1>1. PICK failed \in SUBSET Registered :
          LET filled == IF memGuardEnable THEN Registered \ failed ELSE {} IN
          /\ guard' = [b \in Blocks |-> IF b \in filled THEN "pattern" ELSE guard[b]]
          /\ unfilled' = [u \in Threads |->
                IF u = t /\ memGuardEnable THEN failed \X {"failed"}
                ELSE {x \in unfilled[u] : x[1] \notin filled}]
          /\ overran' = [u \in Threads |-> overran[u] \ filled]
  BY Zenon DEF FillAllMemGuard
<1> DEFINE filled == IF memGuardEnable THEN Registered \ failed ELSE {}
<1>2. filled \in SUBSET Registered
  OBVIOUS
<1> QED BY <1>1, <1>2, Zenon

\* Every step keeps the types.
LEMMA StepType ==
    ASSUME TypeOK, CountMatches, FiniteTables, \A t \in Threads : CallInv(t), [Next]_vars
    PROVE  TypeOK'
<1>a. \A t \in Threads : pc[t] \in Allocating \cup Freeing =>
          ptr[t] \in Blocks /\ block[ptr[t]] # None /\ dev[t] \in Devices
  BY DEF CallInv, TypeOK, CallTypes
<1>b. \A t \in Threads : pc[t] \in Asking \cup Allocating =>
          /\ size[t] \in UserSizes /\ RecordSize(size[t]) \in 1..(SizeMax + 1)
          /\ RecordSize(size[t]) \in 0..(SizeMax + 1)
  BY ConstantFacts DEF CallInv, RecordSize
<1>c. ASSUME NEW t \in Threads, TotalSize(t) PROVE total' \in [Threads -> 0..SizeMax]
  <2>1. size[t] \in UserSizes
    BY <1>b, <1>c DEF TotalSize, Asking
  <2>2. GetTotalSize(size[t]) \in 0..SizeMax
    BY <2>1, TotalIsSize
  <2> QED BY <1>c, <2>2 DEF TotalSize, TypeOK, CallTypes
<1>d. ASSUME NEW t \in Threads, NotifyMalloc(t) \/ FreeBegin(t)
      PROVE  block' \in [Blocks -> Block \cup {None}]
  <2>1. CASE NotifyMalloc(t)
    <3>1. ptr[t] \in Blocks /\ block[ptr[t]] # None /\ block' = [block EXCEPT ![ptr[t]].st = "owned"]
      BY <1>a, <2>1 DEF NotifyMalloc, Allocating
    <3> QED BY <3>1, StateChange
  <2>2. CASE FreeBegin(t)
    <3>1. PICK b \in Blocks : block[b] # None /\ block' = [block EXCEPT ![b].st = "freeing"]
      BY <2>2 DEF FreeBegin
    <3> QED BY <3>1, StateChange
  <2> QED BY <1>d, <2>1, <2>2
<1>e. ASSUME NEW t \in Threads, CacheFree(t)
      PROVE  /\ mallocCount' \in [Devices -> Nat]
             /\ memoryOpAddrInfos' \in [Devices -> SUBSET AddrInfo]
  <2>1. dev[t] \in Devices
    BY DEF TypeOK, CallTypes
  <2>2. CASE \A info \in memoryOpAddrInfos[dev[t]] : info.addr # ptr[t]
    BY <1>e, <2>2 DEF CacheFree, TypeOK, TableTypes
  <2>3. CASE \E info \in memoryOpAddrInfos[dev[t]] : info.addr = ptr[t]
    <3>1. PICK info \in memoryOpAddrInfos[dev[t]] :
              memoryOpAddrInfos' = [memoryOpAddrInfos EXCEPT ![dev[t]] = @ \ {info}]
      BY <1>e, <2>3 DEF CacheFree
    <3>2. mallocCount' = [mallocCount EXCEPT ![dev[t]] = @ - 1]
      BY <1>e, <2>3 DEF CacheFree
    <3>3. IsFiniteSet(memoryOpAddrInfos[dev[t]]) /\ memoryOpAddrInfos[dev[t]] # {}
      BY <2>1, <2>3 DEF FiniteTables
    <3>4. mallocCount[dev[t]] \in Nat /\ mallocCount[dev[t]] # 0
      BY <2>1, <3>3, FS_EmptySet DEF CountMatches, TypeOK, TableTypes
    <3>5. mallocCount[dev[t]] - 1 \in Nat
      BY <3>4
    <3>6. mallocCount' \in [Devices -> Nat]
      BY <2>1, <3>2, <3>5 DEF TypeOK, TableTypes
    <3>7. memoryOpAddrInfos' \in [Devices -> SUBSET AddrInfo]
      BY <2>1, <3>1 DEF TypeOK, TableTypes
    <3> QED BY <3>6, <3>7
  <2> QED BY <2>2, <2>3
<1>f. ASSUME NEW t \in Threads, FillAllMemGuard(t)
      PROVE  /\ guard' \in [Blocks -> {"raw", "pattern", "hit"}]
             /\ unfilled' \in [Threads -> SUBSET (Blocks \X {"newer", "failed"})]
             /\ overran' \in [Threads -> SUBSET Blocks]
  <2>1. PICK failed \in SUBSET Registered, filled \in SUBSET Registered :
              /\ filled = IF memGuardEnable THEN Registered \ failed ELSE {}
              /\ guard' = [b \in Blocks |-> IF b \in filled THEN "pattern" ELSE guard[b]]
              /\ unfilled' = [u \in Threads |->
                    IF u = t /\ memGuardEnable THEN failed \X {"failed"}
                    ELSE {x \in unfilled[u] : x[1] \notin filled}]
              /\ overran' = [u \in Threads |-> overran[u] \ filled]
    BY <1>f, FillPicks
  <2>2. unfilled' \in [Threads -> SUBSET (Blocks \X {"newer", "failed"})]
    BY <2>1 DEF Registered, TypeOK, DeviceTypes
  <2>3. guard' \in [Blocks -> {"raw", "pattern", "hit"}] /\ overran' \in [Threads -> SUBSET Blocks]
    BY <2>1 DEF TypeOK, DeviceTypes
  <2> QED BY <2>2, <2>3
<1> USE MemoryAssumption, ConstantFacts
    DEF TypeOK, CallTypes, TableTypes, DeviceTypes, Locations, Goto, argVars, callVars, guardVars,
        tableVars, deviceVars, launchVars
<1>1. ASSUME NEW t \in Threads, SetDevice(t) PROVE TypeOK'
  BY <1>1 DEF SetDevice
<1>2. ASSUME NEW t \in Threads, MallocBegin(t) PROVE TypeOK'
  BY <1>2 DEF MallocBegin
<1>3. ASSUME NEW t \in Threads, InitMark(t) PROVE TypeOK'
  BY <1>3 DEF InitMark
<1>4. ASSUME NEW t \in Threads, InitEnable(t) PROVE TypeOK'
  BY <1>4 DEF InitEnable
<1>5. ASSUME NEW t \in Threads, InitSizes(t) PROVE TypeOK'
  BY <1>5 DEF InitSizes
<1>6. ASSUME NEW t \in Threads, TotalSize(t) PROVE TypeOK'
  BY <1>6, <1>c DEF TotalSize
<1>7. ASSUME NEW t \in Threads, OriginMalloc(t) PROVE TypeOK'
  <2>1. UNCHANGED <<dev, calls, guardVars, tableVars, stray, launchVars>> /\ pc[t] = "alloc"
    BY <1>7 DEF OriginMalloc
  <2>2. CASE Return(t) /\ UNCHANGED <<block, guard>>
    BY <2>1, <2>2 DEF Return
  <2>3. CASE \E b \in Blocks :
                /\ block' = [block EXCEPT ![b] =
                      [dev |-> dev[t], user |-> size[t], total |-> total[t],
                       early |-> early[t], st |-> "new"]]
                /\ guard' = [guard EXCEPT ![b] = "raw"]
                /\ ptr' = [ptr EXCEPT ![t] = b]
                /\ Goto(t, "mallocProc")
                /\ UNCHANGED <<size, total, early>>
    <3>1. PICK b \in Blocks :
                /\ block' = [block EXCEPT ![b] =
                      [dev |-> dev[t], user |-> size[t], total |-> total[t],
                       early |-> early[t], st |-> "new"]]
                /\ guard' = [guard EXCEPT ![b] = "raw"]
                /\ ptr' = [ptr EXCEPT ![t] = b]
                /\ Goto(t, "mallocProc")
                /\ UNCHANGED <<size, total, early>>
      BY <2>3
    <3>2. block' \in [Blocks -> Block \cup {None}]
      BY <2>1, <3>1, NewBlock
    <3> QED BY <2>1, <3>1, <3>2
  <2> QED BY <1>7, <2>2, <2>3 DEF OriginMalloc
<1>8. ASSUME NEW t \in Threads, MallocProc(t) PROVE TypeOK'
  <2>1. /\ UNCHANGED <<dev, argVars, calls, memCheck, memGuardInit, memGuardEnable, backSize,
                       tableVars, deviceVars, hostMemoryNum, checked, overran, alarms>>
        /\ pc' = [pc EXCEPT ![t] = "cacheMalloc"]
    BY <1>8 DEF MallocProc
  <2>2. ptr[t] \in Blocks /\ dev[t] \in Devices /\ size[t] \in UserSizes
    BY <1>8, <1>a, <1>b DEF MallocProc, Allocating
  <2>3. [user |-> size[t], back |-> backSize] \in Entry
    BY <2>2 DEF Entry
  <2>4. guardMemMap' \in [Devices -> [Blocks -> Entry \cup {None}]]
    <3>1. CASE memGuardEnable
      <4>1. guardMemMap' = [guardMemMap EXCEPT ![dev[t]][ptr[t]] =
                               [user |-> size[t], back |-> backSize]]
        BY <1>8, <3>1 DEF MallocProc
      <4> QED BY <2>2, <2>3, <4>1
    <3>2. CASE ~memGuardEnable
      BY <1>8, <3>2 DEF MallocProc
    <3> QED BY <3>1, <3>2
  <2>5. unfilled' \in [Threads -> SUBSET (Blocks \X {"newer", "failed"})]
    BY <1>8, <2>2 DEF MallocProc
  <2> QED BY <2>1, <2>4, <2>5
<1>9. ASSUME NEW t \in Threads, CacheMalloc(t) PROVE TypeOK'
  <2>1. ptr[t] \in Blocks /\ dev[t] \in Devices /\ RecordSize(size[t]) \in 1..(SizeMax + 1)
    BY <1>9, <1>a, <1>b DEF CacheMalloc, Allocating
  <2>2. [addr |-> ptr[t], length |-> RecordSize(size[t])] \in AddrInfo
    BY <2>1 DEF AddrInfo
  <2> QED BY <1>9, <2>1, <2>2 DEF CacheMalloc
<1>10. ASSUME NEW t \in Threads, NotifyMalloc(t) PROVE TypeOK'
  <2>1. ptr[t] \in Blocks /\ RecordSize(size[t]) \in 0..(SizeMax + 1)
    BY <1>10, <1>a, <1>b DEF NotifyMalloc, Allocating
  <2>2. view' \in [Blocks -> 0..(SizeMax + 1)]
    BY <1>10, <2>1 DEF NotifyMalloc
  <2>3. /\ UNCHANGED <<dev, calls, guardVars, memoryOpAddrInfos, mallocCount, guard, stray,
                       launchVars>>
        /\ Return(t)
    BY <1>10 DEF NotifyMalloc
  <2> QED BY <1>10, <1>d, <2>2, <2>3 DEF Return
<1>11. ASSUME NEW t \in Threads, FreeBegin(t) PROVE TypeOK'
  <2>1. \E b \in Blocks : ptr' = [ptr EXCEPT ![t] = b]
    BY <1>11 DEF FreeBegin
  <2>2. /\ UNCHANGED <<dev, size, total, early, guardVars, tableVars, guard, stray, launchVars>>
        /\ calls' \in 0..MaxCalls /\ pc' = [pc EXCEPT ![t] = "cacheFree"]
    BY <1>11 DEF FreeBegin
  <2> QED BY <1>11, <1>d, <2>1, <2>2
<1>12. ASSUME NEW t \in Threads, CacheFree(t) PROVE TypeOK'
  BY <1>12, <1>e DEF CacheFree
<1>13. ASSUME NEW t \in Threads, NotifyFree(t) PROVE TypeOK'
  BY <1>13, <1>a DEF NotifyFree, Freeing
<1>14. ASSUME NEW t \in Threads, FreeProc(t) PROVE TypeOK'
  BY <1>14 DEF FreeProc
<1>15. ASSUME NEW t \in Threads, OriginFree(t) PROVE TypeOK'
  <2>1. /\ UNCHANGED <<dev, calls, guardVars, tableVars, stray, hostMemoryNum, checked, alarms>>
        /\ Return(t) /\ ptr[t] \in Blocks /\ block[ptr[t]] # None
    BY <1>15, <1>a DEF OriginFree, Freeing
  <2>2. CASE block' = [block EXCEPT ![ptr[t]].st = "kept"] /\ UNCHANGED <<guard, overran, unfilled>>
    <3>1. block' \in [Blocks -> Block \cup {None}]
      BY <2>1, <2>2, StateChange
    <3> QED BY <2>1, <2>2, <3>1 DEF Return
  <2>3. CASE /\ block' = [block EXCEPT ![ptr[t]] = None]
             /\ guard' = [guard EXCEPT ![ptr[t]] = "raw"]
             /\ overran' = [u \in Threads |-> overran[u] \ {ptr[t]}]
             /\ unfilled' = [u \in Threads |-> {x \in unfilled[u] : x[1] # ptr[t]}]
    BY <2>1, <2>3 DEF Return
  <2> QED BY <1>15, <2>2, <2>3 DEF OriginFree
<1>16. ASSUME NEW t \in Threads, LaunchInit(t) PROVE TypeOK'
  BY <1>16 DEF LaunchInit
<1>17. ASSUME NEW t \in Threads, HeadsH2D(t) PROVE TypeOK'
  BY <1>17 DEF HeadsH2D
<1>18. ASSUME NEW t \in Threads, FillAllMemGuard(t) PROVE TypeOK'
  <2>1. /\ UNCHANGED <<dev, argVars, calls, guardVars, tableVars, block, stray, hostMemoryNum,
                       checked, alarms>>
        /\ pc' = [pc EXCEPT ![t] = "kernel"]
    BY <1>18 DEF FillAllMemGuard
  <2> QED BY <1>18, <1>f, <2>1
<1>19. ASSUME NEW t \in Threads, Overrun(t) PROVE TypeOK'
  BY <1>19 DEF Overrun, RunsPast
<1>20. ASSUME NEW t \in Threads, KernelEnds(t) PROVE TypeOK'
  BY <1>20 DEF KernelEnds
<1>21. ASSUME NEW t \in Threads, CheckAllMemGuard(t) PROVE TypeOK'
  BY <1>21 DEF CheckAllMemGuard
<1>22. ASSUME StrayOverrun PROVE TypeOK'
  BY <1>22 DEF StrayOverrun, RunsPast
<1>23. CASE UNCHANGED vars
  BY <1>23 DEF vars
<1> QED
  BY <1>1, <1>2, <1>3, <1>4, <1>5, <1>6, <1>7, <1>8, <1>9, <1>10, <1>11, <1>12, <1>13, <1>14,
     <1>15, <1>16, <1>17, <1>18, <1>19, <1>20, <1>21, <1>22, <1>23
  DEF Next, Malloc, Free, Launch

-----------------------------------------------------------------------------
(* Frames.                                                                 *)

\* The conjuncts of TablesAgree and GuardsInside, block by block.
LEMMA BlockByBlock ==
    ASSUME TypeOK, \A b \in Blocks : BlockInv(b)
    PROVE  KnownBlocksLive /\ OwnedBlocksKnown /\ GuardsInside
<1>1. KnownBlocksLive
  <2> SUFFICES ASSUME NEW b \in Blocks, NEW d \in Devices
               PROVE  /\ guardMemMap[d][b] # None => Lives(b, d, guardMemMap[d][b].user)
                      /\ \A info \in memoryOpAddrInfos[d] :
                            info.addr = b => \E n \in UserSizes :
                                                Lives(b, d, n) /\ info.length = RecordSize(n)
                      /\ view[b] # 0 => block[b] # None /\ view[b] = RecordSize(block[b].user)
    BY DEF KnownBlocksLive
  <2>1. block[b] # None => block[b].user \in UserSizes
    BY DEF TypeOK, DeviceTypes, Block
  <2>2. guardMemMap[d][b] # None => Lives(b, d, guardMemMap[d][b].user)
    BY DEF BlockInv
  <2>3. ASSUME NEW info \in memoryOpAddrInfos[d], info.addr = b
        PROVE  \E n \in UserSizes : Lives(b, d, n) /\ info.length = RecordSize(n)
    <3>1. /\ block[b] # None /\ block[b].dev = d /\ info.length = RecordSize(block[b].user)
      BY ZenonT(30), <2>3 DEF BlockInv
    <3> QED BY <2>1, <3>1 DEF Lives
  <2>4. view[b] # 0 => block[b] # None /\ view[b] = RecordSize(block[b].user)
    BY DEF BlockInv
  <2> QED BY <2>2, <2>3, <2>4
<1>2. OwnedBlocksKnown
  BY DEF OwnedBlocksKnown, BlockInv
<1>3. GuardsInside
  BY DEF GuardsInside, BlockInv, Lives
<1> QED BY <1>1, <1>2, <1>3

\* A step changes what the tables and the allocator say of address b, and of no other.
Touches(b) ==
    /\ \A x \in Blocks : x # b => /\ block'[x] = block[x] /\ view'[x] = view[x]
                                 /\ \A d \in Devices : guardMemMap'[d][x] = guardMemMap[d][x]
    /\ \A d \in Devices, info \in AddrInfo :
          info.addr # b => (info \in memoryOpAddrInfos'[d] <=> info \in memoryOpAddrInfos[d])

\* What a step does to one address leaves the others as they were.
LEMMA BlockFrame ==
    ASSUME TypeOK, TypeOK', NEW b, NEW x \in Blocks, x # b, Touches(b), BlockInv(x), UNCHANGED memCheck
    PROVE  BlockInv(x)'
<1>1. /\ block'[x] = block[x] /\ view'[x] = view[x]
      /\ \A d \in Devices : guardMemMap'[d][x] = guardMemMap[d][x]
  BY DEF Touches
<1>2. \A d \in Devices, info \in AddrInfo :
         info.addr = x => (info \in memoryOpAddrInfos'[d] <=> info \in memoryOpAddrInfos[d])
  BY DEF Touches
<1>3. \A d \in Devices : memoryOpAddrInfos[d] \subseteq AddrInfo /\ memoryOpAddrInfos'[d] \subseteq AddrInfo
  BY DEF TypeOK, TableTypes
<1>4. \A d \in Devices :
          guardMemMap'[d][x] # None =>
              /\ Lives(x, d, guardMemMap[d][x].user)'
              /\ \/ block'[x].early
                 \/ guardMemMap'[d][x].user + guardMemMap'[d][x].back <= block'[x].total
  BY <1>1 DEF BlockInv, Lives
<1>5. \A d \in Devices : \A info \in memoryOpAddrInfos'[d] :
          info.addr = x => /\ block'[x] # None /\ block'[x].dev = d
                           /\ info.length = RecordSize(block'[x].user)
  BY <1>1, <1>2, <1>3 DEF BlockInv, RecordSize
<1>6. view'[x] # 0 => block'[x] # None /\ view'[x] = RecordSize(block'[x].user)
  BY <1>1 DEF BlockInv, RecordSize
<1>7. ASSUME block'[x] # None, block'[x].st = "owned"
      PROVE  /\ [addr |-> x, length |-> RecordSize(block'[x].user)] \in memoryOpAddrInfos'[block'[x].dev]
             /\ view'[x] = RecordSize(block'[x].user)
             /\ memCheck' /\ ~block'[x].early => guardMemMap'[block'[x].dev][x] # None
  <2>1. block[x] # None /\ block[x].st = "owned" /\ block[x].dev \in Devices
    BY <1>1, <1>7 DEF TypeOK, DeviceTypes, Block
  <2>2. view'[x] = RecordSize(block'[x].user)
    BY <1>1, <2>1 DEF BlockInv, RecordSize
  <2>3. [addr |-> x, length |-> RecordSize(block[x].user)] \in memoryOpAddrInfos[block[x].dev]
    BY <2>1 DEF BlockInv
  <2>4. [addr |-> x, length |-> RecordSize(block[x].user)] \in memoryOpAddrInfos'[block[x].dev]
    BY <1>2, <1>3, <2>1, <2>3
  <2>5. memCheck /\ ~block[x].early => guardMemMap[block[x].dev][x] # None
    BY <2>1 DEF BlockInv
  <2> QED BY <1>1, <2>1, <2>2, <2>4, <2>5 DEF RecordSize
<1> QED BY <1>4, <1>5, <1>6, <1>7 DEF BlockInv, Lives, RecordSize

\* What a thread keeps while the others run.
Kept(u) ==
    /\ pc'[u] = pc[u] /\ dev'[u] = dev[u] /\ size'[u] = size[u] /\ total'[u] = total[u]
    /\ early'[u] = early[u] /\ ptr'[u] = ptr[u]

\* The configuration is only ever completed.
Completed ==
    /\ UNCHANGED memCheck
    /\ memGuardEnable => memGuardEnable'
    /\ backSize = ConfigBack => backSize' = ConfigBack

\* A thread whose block the step does not touch keeps its part of the invariant.
LEMMA ThreadFrame ==
    ASSUME TypeOK, TypeOK', NEW u \in Threads, ThreadInv(u), Kept(u), Completed,
           NEW b, ptr[u] # b, Touches(b)
    PROVE  ThreadInv(u)'
<1>1. CallInv(u)'
  BY DEF ThreadInv, CallInv, Kept, Touches
<1>2. SizeInv(u)'
  BY DEF ThreadInv, SizeInv, Kept, Completed
<1>3. CASE pc[u] \in Allocating \cup Freeing
  <2>1. ptr[u] \in Blocks /\ dev[u] \in Devices
    BY <1>3 DEF ThreadInv, CallInv, TypeOK, CallTypes
  <2>2. \A d \in Devices, info \in AddrInfo :
           info.addr = ptr[u] => (info \in memoryOpAddrInfos'[d] <=> info \in memoryOpAddrInfos[d])
    BY DEF Touches
  <2>3. \A d \in Devices : memoryOpAddrInfos[d] \subseteq AddrInfo /\ memoryOpAddrInfos'[d] \subseteq AddrInfo
    BY DEF TypeOK, TableTypes
  <2>4. view'[ptr[u]] = view[ptr[u]] /\ guardMemMap'[dev[u]][ptr[u]] = guardMemMap[dev[u]][ptr[u]]
    BY <2>1 DEF Touches
  <2>5. pc[u] \in {"mallocProc", "cacheMalloc", "notifyFree", "freeProc", "release"} =>
           \A d \in Devices : \A info \in memoryOpAddrInfos'[d] : info.addr # ptr[u]
    BY <2>2, <2>3 DEF ThreadInv, TableInv
  <2>6. pc[u] = "notifyMalloc" =>
           [addr |-> ptr[u], length |-> RecordSize(size[u])] \in memoryOpAddrInfos'[dev[u]]
    <3> SUFFICES ASSUME pc[u] = "notifyMalloc"
                 PROVE  [addr |-> ptr[u], length |-> RecordSize(size[u])] \in memoryOpAddrInfos'[dev[u]]
      OBVIOUS
    <3>1. [addr |-> ptr[u], length |-> RecordSize(size[u])] \in memoryOpAddrInfos[dev[u]]
      BY DEF ThreadInv, TableInv
    <3> QED BY <2>1, <2>2, <2>3, <3>1
  <2>7. pc[u] \in {"cacheMalloc", "notifyMalloc"} /\ memCheck' /\ ~early'[u] =>
           guardMemMap'[dev[u]][ptr[u]] # None
    BY <2>4 DEF ThreadInv, TableInv, Kept, Completed
  <2>8. /\ pc[u] \in {"freeProc", "release"} => view'[ptr[u]] = 0
        /\ pc[u] = "release" => guardMemMap'[dev[u]][ptr[u]] = None
    BY <2>4 DEF ThreadInv, TableInv
  <2>9. pc'[u] = pc[u] /\ dev'[u] = dev[u] /\ size'[u] = size[u] /\ ptr'[u] = ptr[u]
    BY DEF Kept
  <2>10. TableInv(u)'
    BY <2>5, <2>6, <2>7, <2>8, <2>9 DEF TableInv, RecordSize
  <2> QED BY <1>1, <1>2, <2>10 DEF ThreadInv
<1>4. CASE pc[u] \notin Allocating \cup Freeing
  <2>1. pc'[u] \notin {"mallocProc", "cacheMalloc", "notifyMalloc", "notifyFree", "freeProc", "release"}
    BY <1>4 DEF Kept, Allocating, Freeing
  <2>2. TableInv(u)'
    BY <2>1 DEF TableInv
  <2> QED BY <1>1, <1>2, <2>2 DEF ThreadInv
<1> QED BY <1>3, <1>4

\* The steps of one thread.
StepOf(t) == SetDevice(t) \/ Malloc(t) \/ Free(t) \/ Launch(t)

\* A step changes the call of one thread (the locals of one hook object).
LEMMA OtherThreads ==
    ASSUME TypeOK, NEW t \in Threads, NEW u \in Threads, u # t, StepOf(t)
    PROVE  Kept(u)
<1> USE DEF TypeOK, CallTypes, Kept, Goto, argVars, callVars
<1>1. ASSUME SetDevice(t) PROVE Kept(u)
  BY <1>1 DEF SetDevice
<1>2. ASSUME MallocBegin(t) PROVE Kept(u)
  BY <1>2 DEF MallocBegin
<1>3. ASSUME InitMark(t) PROVE Kept(u)
  BY <1>3 DEF InitMark
<1>4. ASSUME InitEnable(t) PROVE Kept(u)
  BY <1>4 DEF InitEnable
<1>5. ASSUME InitSizes(t) PROVE Kept(u)
  BY <1>5 DEF InitSizes
<1>6. ASSUME TotalSize(t) PROVE Kept(u)
  BY <1>6 DEF TotalSize
<1>7. ASSUME OriginMalloc(t) PROVE Kept(u)
  BY <1>7 DEF OriginMalloc, Return
<1>8. ASSUME MallocProc(t) PROVE Kept(u)
  BY <1>8 DEF MallocProc
<1>9. ASSUME CacheMalloc(t) PROVE Kept(u)
  BY <1>9 DEF CacheMalloc
<1>10. ASSUME NotifyMalloc(t) PROVE Kept(u)
  BY <1>10 DEF NotifyMalloc, Return
<1>11. ASSUME FreeBegin(t) PROVE Kept(u)
  BY <1>11 DEF FreeBegin
<1>12. ASSUME CacheFree(t) PROVE Kept(u)
  BY <1>12 DEF CacheFree
<1>13. ASSUME NotifyFree(t) PROVE Kept(u)
  BY <1>13 DEF NotifyFree
<1>14. ASSUME FreeProc(t) PROVE Kept(u)
  BY <1>14 DEF FreeProc
<1>15. ASSUME OriginFree(t) PROVE Kept(u)
  BY <1>15 DEF OriginFree, Return
<1>16. ASSUME LaunchInit(t) PROVE Kept(u)
  BY <1>16 DEF LaunchInit
<1>17. ASSUME HeadsH2D(t) PROVE Kept(u)
  BY <1>17 DEF HeadsH2D
<1>18. ASSUME FillAllMemGuard(t) PROVE Kept(u)
  BY <1>18 DEF FillAllMemGuard
<1>19. ASSUME Overrun(t) PROVE Kept(u)
  BY <1>19 DEF Overrun, RunsPast
<1>20. ASSUME KernelEnds(t) PROVE Kept(u)
  BY <1>20 DEF KernelEnds
<1>21. ASSUME CheckAllMemGuard(t) PROVE Kept(u)
  BY <1>21 DEF CheckAllMemGuard
<1> QED
  BY <1>1, <1>2, <1>3, <1>4, <1>5, <1>6, <1>7, <1>8, <1>9, <1>10, <1>11, <1>12, <1>13, <1>14,
     <1>15, <1>16, <1>17, <1>18, <1>19, <1>20, <1>21
  DEF StepOf, Malloc, Free, Launch

\* MemoryGuard::Init is never undone.
LEMMA OnlyCompleted ==
    ASSUME TypeOK, NEW t \in Threads, StepOf(t)
    PROVE  Completed
<1> USE DEF TypeOK, TableTypes, Completed, guardVars
<1>1. ASSUME SetDevice(t) PROVE Completed
  BY <1>1 DEF SetDevice
<1>2. ASSUME MallocBegin(t) PROVE Completed
  BY <1>2 DEF MallocBegin
<1>3. ASSUME InitMark(t) PROVE Completed
  BY <1>3 DEF InitMark
<1>4. ASSUME InitEnable(t) PROVE Completed
  BY <1>4 DEF InitEnable
<1>5. ASSUME InitSizes(t) PROVE Completed
  BY <1>5 DEF InitSizes
<1>6. ASSUME TotalSize(t) PROVE Completed
  BY <1>6 DEF TotalSize
<1>7. ASSUME OriginMalloc(t) PROVE Completed
  BY <1>7 DEF OriginMalloc, Return
<1>8. ASSUME MallocProc(t) PROVE Completed
  BY <1>8 DEF MallocProc
<1>9. ASSUME CacheMalloc(t) PROVE Completed
  BY <1>9 DEF CacheMalloc
<1>10. ASSUME NotifyMalloc(t) PROVE Completed
  BY <1>10 DEF NotifyMalloc, Return
<1>11. ASSUME FreeBegin(t) PROVE Completed
  BY <1>11 DEF FreeBegin
<1>12. ASSUME CacheFree(t) PROVE Completed
  BY <1>12 DEF CacheFree
<1>13. ASSUME NotifyFree(t) PROVE Completed
  BY <1>13 DEF NotifyFree
<1>14. ASSUME FreeProc(t) PROVE Completed
  BY <1>14 DEF FreeProc
<1>15. ASSUME OriginFree(t) PROVE Completed
  BY <1>15 DEF OriginFree, Return
<1>16. ASSUME LaunchInit(t) PROVE Completed
  BY <1>16 DEF LaunchInit
<1>17. ASSUME HeadsH2D(t) PROVE Completed
  BY <1>17 DEF HeadsH2D
<1>18. ASSUME FillAllMemGuard(t) PROVE Completed
  BY <1>18 DEF FillAllMemGuard
<1>19. ASSUME Overrun(t) PROVE Completed
  BY <1>19 DEF Overrun, RunsPast
<1>20. ASSUME KernelEnds(t) PROVE Completed
  BY <1>20 DEF KernelEnds
<1>21. ASSUME CheckAllMemGuard(t) PROVE Completed
  BY <1>21 DEF CheckAllMemGuard
<1> QED
  BY <1>1, <1>2, <1>3, <1>4, <1>5, <1>6, <1>7, <1>8, <1>9, <1>10, <1>11, <1>12, <1>13, <1>14,
     <1>15, <1>16, <1>17, <1>18, <1>19, <1>20, <1>21
  DEF StepOf, Malloc, Free, Launch

-----------------------------------------------------------------------------
(* malloc and free, step by step.                                          *)

\* The step of t is confined to address b, and keeps what is said of b and of t.
Handled(t, b) == Touches(b) /\ BlockInv(b)' /\ ThreadInv(t)'

\* The block of a call.
LEMMA OwnBlock ==
    ASSUME MemoryInv, NEW t \in Threads, pc[t] \in Allocating \cup Freeing
    PROVE  /\ ptr[t] \in Blocks /\ block[ptr[t]] # None /\ block[ptr[t]] \in Block
           /\ dev[t] \in Devices /\ block[ptr[t]].dev = dev[t]
           /\ BlockInv(ptr[t]) /\ CallInv(t) /\ TableInv(t) /\ SizeInv(t)
BY DEF MemoryInv, ThreadInv, CallInv, TypeOK, CallTypes, DeviceTypes

\* A thread that is not in the middle of a malloc or free holds nothing.
LEMMA NoBlock ==
    ASSUME NEW t \in Threads, pc'[t] \notin Asking \cup Allocating \cup Freeing, ptr'[t] = None
    PROVE  ThreadInv(t)'
<1>1. CallInv(t)'
  BY DEF CallInv
<1>2. TableInv(t)'
  BY DEF TableInv, Allocating, Freeing
<1>3. SizeInv(t)'
  BY DEF SizeInv, Asking
<1> QED BY <1>1, <1>2, <1>3 DEF ThreadInv

\* The original malloc: the address it returns is in nobody's tables.
LEMMA DoOriginMalloc ==
    ASSUME MemoryInv, NEW t \in Threads, OriginMalloc(t), ptr'[t] # None
    PROVE  \E b \in Blocks : block[b] = None /\ ptr'[t] = b /\ Handled(t, b)
<1>0. TypeOK /\ CallInv(t) /\ SizeInv(t) /\ pc[t] = "alloc" /\ ptr \in [Threads -> Blocks \cup {None}]
      /\ pc \in [Threads -> Locations]
  BY DEF MemoryInv, ThreadInv, OriginMalloc, TypeOK, CallTypes
<1>1. ~Return(t)
  BY <1>0 DEF Return
<1>2. PICK b \in Blocks :
          /\ block[b] = None
          /\ block' = [block EXCEPT ![b] = [dev |-> dev[t], user |-> size[t], total |-> total[t],
                                            early |-> early[t], st |-> "new"]]
          /\ ptr' = [ptr EXCEPT ![t] = b]
  BY <1>1, Zenon DEF OriginMalloc
<1>3. /\ pc' = [pc EXCEPT ![t] = "mallocProc"] /\ total[t] < SizeMax
      /\ UNCHANGED <<dev, size, total, early, memCheck, memGuardEnable, backSize, guardMemMap,
                     memoryOpAddrInfos, view>>
  BY <1>1 DEF OriginMalloc, Goto, guardVars, tableVars
<1>4. ptr'[t] = b /\ pc'[t] = "mallocProc"
  BY <1>0, <1>2, <1>3
<1>5. /\ block'[b] # None /\ block'[b].st = "new" /\ block'[b].dev = dev[t]
      /\ block'[b].user = size[t] /\ block'[b].total = total[t] /\ block'[b].early = early[t]
      /\ \A x \in Blocks : x # b => block'[x] = block[x]
  BY <1>0, <1>2, NewBlock
<1>6. Touches(b)
  BY <1>3, <1>5 DEF Touches
<1>7. /\ \A d \in Devices : guardMemMap[d][b] = None
      /\ \A d \in Devices : \A info \in memoryOpAddrInfos[d] : info.addr # b
      /\ view[b] = 0
  BY <1>2 DEF MemoryInv, BlockInv, Lives
<1>8. BlockInv(b)'
  BY <1>3, <1>5, <1>7 DEF BlockInv
<1>9. ThreadInv(t)'
  <2>1. size[t] \in UserSizes
    BY <1>0 DEF CallInv, Asking
  <2>2. CallInv(t)'
    BY <1>3, <1>4, <1>5, <2>1 DEF CallInv, Asking, Allocating, Freeing
  <2>3. TableInv(t)'
    BY <1>3, <1>4, <1>7 DEF TableInv
  <2>4. SizeInv(t)'
    BY <1>0, <1>3, <1>4 DEF SizeInv, Allocating
  <2> QED BY <2>2, <2>3, <2>4 DEF ThreadInv
<1> QED BY <1>2, <1>4, <1>6, <1>8, <1>9 DEF Handled

\* MallocProc registers the guard, within the size that was allocated.
LEMMA DoMallocProc ==
    ASSUME MemoryInv, NEW t \in Threads, NEW b, b = ptr[t], MallocProc(t) PROVE Handled(t, b)
<1> DEFINE new == [user |-> size[t], back |-> backSize]
<1>0. pc[t] = "mallocProc"
  BY DEF MallocProc
<1>1. /\ b \in Blocks /\ block[b] # None /\ dev[t] \in Devices /\ block[b].dev = dev[t]
      /\ BlockInv(b) /\ CallInv(t) /\ TableInv(t) /\ SizeInv(t)
  BY <1>0, OwnBlock DEF Allocating
<1>2. /\ pc' = [pc EXCEPT ![t] = "cacheMalloc"]
      /\ UNCHANGED <<dev, size, total, early, ptr, memCheck, memGuardEnable, backSize,
                     memoryOpAddrInfos, view, block>>
  BY DEF MallocProc, Goto, argVars, tableVars, deviceVars
<1>3. pc'[t] = "cacheMalloc"
  BY <1>2 DEF MemoryInv, TypeOK, CallTypes
<1>4. /\ block[b].st = "new" /\ block[b].user = size[t] /\ block[b].total = total[t]
      /\ block[b].early = early[t] /\ total[t] < SizeMax /\ size[t] \in UserSizes
  BY <1>0, <1>1 DEF CallInv, Allocating
<1>5. new \in Entry /\ new # None /\ new.user = size[t] /\ new.back = backSize
  BY <1>4, MemoryAssumption DEF MemoryInv, TypeOK, TableTypes, Entry
<1>6. /\ \A d \in Devices, x \in Blocks : d # dev[t] \/ x # b => guardMemMap'[d][x] = guardMemMap[d][x]
      /\ guardMemMap'[dev[t]][b] = IF memGuardEnable THEN new ELSE guardMemMap[dev[t]][b]
  BY <1>1 DEF MallocProc, MemoryInv, TypeOK, TableTypes
<1>7. Touches(b)
  BY <1>2, <1>6 DEF Touches
<1>8. memGuardEnable => block[b].early \/ size[t] + backSize <= block[b].total
  <2> SUFFICES ASSUME memGuardEnable, ~early[t] PROVE size[t] + backSize <= total[t]
    BY <1>4
  <2>1. memCheck
    BY DEF MemoryInv, EnableInv
  <2>2. backSize = ConfigBack /\ (total[t] = SizeMax \/ total[t] = size[t] + ConfigBack)
    BY <1>0, <1>1, <2>1 DEF SizeInv, Allocating
  <2> QED BY <1>4, <2>2, ConstantFacts
<1>9. BlockInv(b)'
  <2>1. ASSUME NEW d \in Devices, guardMemMap'[d][b] # None
        PROVE  /\ block[b] # None /\ block[b].dev = d /\ block[b].user = guardMemMap'[d][b].user
               /\ \/ block[b].early
                  \/ guardMemMap'[d][b].user + guardMemMap'[d][b].back <= block[b].total
    <3>1. CASE d = dev[t] /\ memGuardEnable
      <4>1. guardMemMap'[d][b].user = size[t] /\ guardMemMap'[d][b].back = backSize
        BY <1>5, <1>6, <3>1
      <4> QED BY <1>1, <1>4, <1>8, <3>1, <4>1
    <3>2. CASE ~(d = dev[t] /\ memGuardEnable)
      <4>1. guardMemMap'[d][b] = guardMemMap[d][b]
        BY <1>1, <1>6, <3>2
      <4> QED BY <1>1, <2>1, <4>1 DEF BlockInv, Lives
    <3> QED BY <3>1, <3>2
  <2> QED BY <1>1, <1>2, <1>4, <2>1 DEF BlockInv, Lives, RecordSize
<1>10. ThreadInv(t)'
  <2>1. CallInv(t)'
    BY <1>1, <1>2, <1>3, <1>4 DEF CallInv, Allocating, Freeing
  <2>2. SizeInv(t)'
    BY <1>0, <1>1, <1>2, <1>3 DEF SizeInv, Allocating
  <2>3. memCheck /\ ~early[t] => guardMemMap'[dev[t]][b] # None
    BY <1>0, <1>1, <1>5, <1>6 DEF SizeInv, Allocating
  <2>4. TableInv(t)'
    BY <1>0, <1>1, <1>2, <1>3, <2>3 DEF TableInv
  <2> QED BY <2>1, <2>2, <2>4 DEF ThreadInv
<1> QED BY <1>7, <1>9, <1>10 DEF Handled

\* CacheMemory<MALLOC> enters the range under the thread's device.
LEMMA DoCacheMalloc ==
    ASSUME MemoryInv, NEW t \in Threads, NEW b, b = ptr[t], CacheMalloc(t) PROVE Handled(t, b)
<1> DEFINE new == [addr |-> ptr[t], length |-> RecordSize(size[t])]
<1>0. pc[t] = "cacheMalloc"
  BY DEF CacheMalloc
<1>1. /\ b \in Blocks /\ block[b] # None /\ dev[t] \in Devices /\ block[b].dev = dev[t]
      /\ BlockInv(b) /\ CallInv(t) /\ TableInv(t) /\ SizeInv(t)
  BY <1>0, OwnBlock DEF Allocating
<1>2. /\ pc' = [pc EXCEPT ![t] = "notifyMalloc"]
      /\ UNCHANGED <<dev, size, total, early, ptr, memCheck, memGuardEnable, backSize,
                     guardMemMap, view, block>>
  BY DEF CacheMalloc, Goto, argVars, guardVars, deviceVars
<1>3. pc'[t] = "notifyMalloc"
  BY <1>2 DEF MemoryInv, TypeOK, CallTypes
<1>4. /\ block[b].st = "new" /\ block[b].user = size[t] /\ size[t] \in UserSizes
  BY <1>0, <1>1 DEF CallInv, Allocating
<1>5. /\ \A d \in Devices : d # dev[t] => memoryOpAddrInfos'[d] = memoryOpAddrInfos[d]
      /\ memoryOpAddrInfos'[dev[t]] = memoryOpAddrInfos[dev[t]] \cup {new}
  BY <1>1 DEF CacheMalloc, MemoryInv, TypeOK, TableTypes
<1>6. new.addr = b /\ new.length = RecordSize(size[t])
  OBVIOUS
<1>7. Touches(b)
  BY <1>1, <1>2, <1>5, <1>6 DEF Touches
<1>8. \A d \in Devices : \A info \in memoryOpAddrInfos[d] : info.addr # b
  BY <1>0, <1>1 DEF TableInv
<1>9. BlockInv(b)'
  <2>1. ASSUME NEW d \in Devices, NEW info \in memoryOpAddrInfos'[d], info.addr = b
        PROVE  block[b].dev = d /\ info.length = RecordSize(block[b].user)
    <3>1. d = dev[t] /\ info = new
      BY <1>5, <1>8, <2>1
    <3> QED BY <1>1, <1>4, <1>6, <3>1
  <2> QED BY <1>1, <1>2, <1>4, <2>1 DEF BlockInv, Lives, RecordSize
<1>10. ThreadInv(t)'
  <2>1. CallInv(t)'
    BY <1>0, <1>1, <1>2, <1>3 DEF CallInv, Allocating, Freeing
  <2>2. SizeInv(t)'
    BY <1>0, <1>1, <1>2, <1>3 DEF SizeInv, Allocating
  <2>3. new \in memoryOpAddrInfos'[dev[t]]
    BY <1>5
  <2>4. TableInv(t)'
    BY <1>0, <1>1, <1>2, <1>3, <2>3 DEF TableInv, RecordSize
  <2> QED BY <2>1, <2>2, <2>4 DEF ThreadInv
<1> QED BY <1>7, <1>9, <1>10 DEF Handled

\* The record reaches the tool and the block its owner, all tables filled.
LEMMA DoNotifyMalloc ==
    ASSUME MemoryInv, NEW t \in Threads, NEW b, b = ptr[t], NotifyMalloc(t) PROVE Handled(t, b)
<1>0. pc[t] = "notifyMalloc" /\ TypeOK
  BY DEF NotifyMalloc, MemoryInv
<1>1. /\ b \in Blocks /\ block[b] # None /\ dev[t] \in Devices /\ block[b].dev = dev[t]
      /\ BlockInv(b) /\ CallInv(t) /\ TableInv(t) /\ SizeInv(t)
  BY <1>0, OwnBlock DEF Allocating
<1>2. UNCHANGED <<memCheck, memGuardEnable, backSize, guardMemMap, memoryOpAddrInfos>>
  BY DEF NotifyMalloc, guardVars
<1>3. pc'[t] = "idle" /\ ptr'[t] = None
  BY <1>0 DEF NotifyMalloc, Return, Goto, TypeOK, CallTypes
<1>4. /\ block'[b] # None /\ block'[b].st = "owned" /\ block'[b].dev = block[b].dev
      /\ block'[b].user = block[b].user /\ block'[b].total = block[b].total
      /\ block'[b].early = block[b].early /\ \A x \in Blocks : x # b => block'[x] = block[x]
  BY <1>0, <1>1, StateChange DEF NotifyMalloc
<1>5. view'[b] = RecordSize(size[t]) /\ \A x \in Blocks : x # b => view'[x] = view[x]
  BY <1>0, <1>1 DEF NotifyMalloc, TypeOK, TableTypes
<1>6. block[b].user = size[t] /\ block[b].early = early[t]
  BY <1>0, <1>1 DEF CallInv, Allocating
<1>7. Touches(b)
  BY <1>2, <1>4, <1>5 DEF Touches
<1>8. BlockInv(b)'
  <2>1. \A d \in Devices :
          guardMemMap[d][b] # None =>
              /\ block'[b].dev = d /\ block'[b].user = guardMemMap[d][b].user
              /\ \/ block'[b].early
                 \/ guardMemMap[d][b].user + guardMemMap[d][b].back <= block'[b].total
    BY <1>1, <1>4 DEF BlockInv, Lives
  <2>2. \A d \in Devices : \A info \in memoryOpAddrInfos[d] :
          info.addr = b => block'[b].dev = d /\ info.length = RecordSize(block'[b].user)
    BY <1>1, <1>4 DEF BlockInv
  <2>3. [addr |-> b, length |-> RecordSize(block'[b].user)] \in memoryOpAddrInfos[block'[b].dev]
    BY <1>0, <1>1, <1>4, <1>6 DEF TableInv
  <2>4. memCheck /\ ~block'[b].early => guardMemMap[block'[b].dev][b] # None
    BY <1>0, <1>1, <1>4, <1>6 DEF TableInv
  <2>5. view'[b] = RecordSize(block'[b].user)
    BY <1>4, <1>5, <1>6
  <2> QED BY <1>2, <1>4, <2>1, <2>2, <2>3, <2>4, <2>5 DEF BlockInv, Lives, RecordSize
<1>9. ThreadInv(t)'
  BY <1>3, NoBlock DEF Asking, Allocating, Freeing
<1> QED BY <1>7, <1>8, <1>9 DEF Handled

\* A block that is given up stays what it was, only nobody is promised anything of it.
LEMMA Freed ==
    ASSUME NEW b \in Blocks, BlockInv(b), block[b] # None,
           UNCHANGED <<memCheck, guardMemMap, memoryOpAddrInfos, view>>,
           block'[b] # None, block'[b].st # "owned", block'[b].dev = block[b].dev,
           block'[b].user = block[b].user, block'[b].total = block[b].total,
           block'[b].early = block[b].early
    PROVE  BlockInv(b)'
<1>1. \A d \in Devices :
        guardMemMap[d][b] # None =>
            /\ block'[b].dev = d /\ block'[b].user = guardMemMap[d][b].user
            /\ \/ block'[b].early
               \/ guardMemMap[d][b].user + guardMemMap[d][b].back <= block'[b].total
  BY DEF BlockInv, Lives
<1>2. \A d \in Devices : \A info \in memoryOpAddrInfos[d] :
        info.addr = b => block'[b].dev = d /\ info.length = RecordSize(block'[b].user)
  BY DEF BlockInv
<1>3. view[b] # 0 => view[b] = RecordSize(block'[b].user)
  BY DEF BlockInv
<1> QED BY <1>1, <1>2, <1>3 DEF BlockInv, Lives, RecordSize

\* From the first step of a free the block is the call's.
LEMMA DoFreeBegin ==
    ASSUME MemoryInv, NEW t \in Threads, FreeBegin(t)
    PROVE  \E b \in Blocks : /\ block[b] # None /\ block[b].st \in {"owned", "kept"}
                             /\ ptr'[t] = b /\ Handled(t, b)
<1>0. TypeOK /\ ThreadInv(t) /\ ptr \in [Threads -> Blocks \cup {None}] /\ pc \in [Threads -> Locations]
  BY DEF MemoryInv, TypeOK, CallTypes
<1>1. PICK b \in Blocks : /\ block[b] # None /\ block[b].st \in {"owned", "kept"}
                          /\ block[b].dev = dev[t]
                          /\ block' = [block EXCEPT ![b].st = "freeing"]
                          /\ ptr' = [ptr EXCEPT ![t] = b]
  BY DEF FreeBegin
<1>2. /\ pc' = [pc EXCEPT ![t] = "cacheFree"]
      /\ UNCHANGED <<dev, memCheck, memGuardEnable, backSize, guardMemMap, memoryOpAddrInfos, view>>
  BY DEF FreeBegin, Goto, guardVars, tableVars
<1>3. pc'[t] = "cacheFree" /\ ptr'[t] = b
  BY <1>0, <1>1, <1>2
<1>4. /\ block'[b] # None /\ block'[b].st = "freeing" /\ block'[b].dev = block[b].dev
      /\ block'[b].user = block[b].user /\ block'[b].total = block[b].total
      /\ block'[b].early = block[b].early /\ \A x \in Blocks : x # b => block'[x] = block[x]
  BY <1>0, <1>1, StateChange
<1>5. Touches(b)
  BY <1>2, <1>4 DEF Touches
<1>6. BlockInv(b)'
  <2>1. BlockInv(b)
    BY DEF MemoryInv
  <2> QED BY <1>1, <1>2, <1>4, <2>1, Freed
<1>7. ThreadInv(t)'
  <2>1. CallInv(t)'
    BY <1>1, <1>2, <1>3, <1>4 DEF CallInv, Asking, Allocating, Freeing
  <2>2. TableInv(t)' /\ SizeInv(t)'
    BY <1>3 DEF TableInv, SizeInv, Allocating
  <2> QED BY <2>1, <2>2 DEF ThreadInv
<1> QED BY <1>1, <1>3, <1>5, <1>6, <1>7 DEF Handled

\* CacheMemory<FREE> removes the one entry of the address.
LEMMA DoCacheFree ==
    ASSUME MemoryInv, NEW t \in Threads, NEW b, b = ptr[t], CacheFree(t) PROVE Handled(t, b)
<1>0. pc[t] = "cacheFree" /\ TypeOK
  BY DEF CacheFree, MemoryInv
<1>1. /\ b \in Blocks /\ block[b] # None /\ dev[t] \in Devices /\ block[b].dev = dev[t]
      /\ BlockInv(b) /\ CallInv(t) /\ TableInv(t) /\ SizeInv(t)
  BY <1>0, OwnBlock DEF Freeing
<1>2. /\ pc' = [pc EXCEPT ![t] = "notifyFree"]
      /\ UNCHANGED <<dev, size, total, early, ptr, memCheck, memGuardEnable, backSize,
                     guardMemMap, view, block>>
  BY DEF CacheFree, Goto, argVars, guardVars, deviceVars
<1>3. pc'[t] = "notifyFree"
  BY <1>0, <1>2 DEF TypeOK, CallTypes
<1>4. block[b].st = "freeing"
  BY <1>0, <1>1 DEF CallInv, Freeing
<1>5. \A d \in Devices : memoryOpAddrInfos[d] \subseteq AddrInfo
  BY <1>0 DEF TypeOK, TableTypes
<1>6. \A d \in Devices : \A info \in memoryOpAddrInfos[d] :
          info.addr = b => d = dev[t] /\ info.length = RecordSize(block[b].user)
  BY <1>1 DEF BlockInv
<1>7. /\ \A d \in Devices, info \in AddrInfo :
            info.addr # b => (info \in memoryOpAddrInfos'[d] <=> info \in memoryOpAddrInfos[d])
      /\ \A d \in Devices : \A info \in memoryOpAddrInfos'[d] : info.addr # b
  <2>1. CASE \A info \in memoryOpAddrInfos[dev[t]] : info.addr # b
    <3>1. UNCHANGED memoryOpAddrInfos
      BY <2>1 DEF CacheFree
    <3> QED BY <1>6, <2>1, <3>1
  <2>2. CASE \E info \in memoryOpAddrInfos[dev[t]] : info.addr = b
    <3>1. PICK info \in memoryOpAddrInfos[dev[t]] :
              /\ info.addr = b
              /\ memoryOpAddrInfos' = [memoryOpAddrInfos EXCEPT ![dev[t]] = @ \ {info}]
      BY <2>2 DEF CacheFree
    <3>2. /\ memoryOpAddrInfos'[dev[t]] = memoryOpAddrInfos[dev[t]] \ {info}
          /\ \A d \in Devices : d # dev[t] => memoryOpAddrInfos'[d] = memoryOpAddrInfos[d]
      BY <1>0, <1>1, <3>1 DEF TypeOK, TableTypes
    <3>3. \A other \in memoryOpAddrInfos[dev[t]] : other.addr = b => other = info
      <4>1. ASSUME NEW other \in memoryOpAddrInfos[dev[t]], other.addr = b PROVE other = info
        <5>1. other \in AddrInfo /\ info \in AddrInfo
          BY <1>1, <1>5, <3>1
        <5>2. other.length = info.length
          BY <1>1, <1>6, <3>1, <4>1
        <5> QED BY <3>1, <4>1, <5>1, <5>2 DEF AddrInfo
      <4> QED BY <4>1
    <3> QED BY <1>1, <1>6, <3>1, <3>2, <3>3
  <2> QED BY <2>1, <2>2
<1>8. Touches(b)
  BY <1>2, <1>7 DEF Touches
<1>9. BlockInv(b)'
  BY <1>1, <1>2, <1>4, <1>7 DEF BlockInv, Lives, RecordSize
<1>10. ThreadInv(t)'
  <2>1. CallInv(t)'
    BY <1>1, <1>2, <1>3, <1>4 DEF CallInv, Asking, Allocating, Freeing
  <2>2. TableInv(t)' /\ SizeInv(t)'
    BY <1>2, <1>3, <1>7 DEF TableInv, SizeInv, Allocating
  <2> QED BY <2>1, <2>2 DEF ThreadInv
<1> QED BY <1>8, <1>9, <1>10 DEF Handled

\* The tool forgets the block while it is still allocated.
LEMMA DoNotifyFree ==
    ASSUME MemoryInv, NEW t \in Threads, NEW b, b = ptr[t], NotifyFree(t) PROVE Handled(t, b)
<1>0. pc[t] = "notifyFree" /\ TypeOK
  BY DEF NotifyFree, MemoryInv
<1>1. /\ b \in Blocks /\ block[b] # None /\ dev[t] \in Devices /\ block[b].dev = dev[t]
      /\ BlockInv(b) /\ CallInv(t) /\ TableInv(t) /\ SizeInv(t)
  BY <1>0, OwnBlock DEF Freeing
<1>2. /\ pc' = [pc EXCEPT ![t] = "freeProc"]
      /\ UNCHANGED <<dev, size, total, early, ptr, memCheck, memGuardEnable, backSize,
                     guardMemMap, memoryOpAddrInfos, block>>
  BY DEF NotifyFree, Goto, argVars, guardVars, deviceVars
<1>3. pc'[t] = "freeProc"
  BY <1>0, <1>2 DEF TypeOK, CallTypes
<1>4. block[b].st = "freeing"
  BY <1>0, <1>1 DEF CallInv, Freeing
<1>5. view'[b] = 0 /\ \A x \in Blocks : x # b => view'[x] = view[x]
  BY <1>0, <1>1 DEF NotifyFree, TypeOK, TableTypes
<1>6. Touches(b)
  BY <1>2, <1>5 DEF Touches
<1>7. BlockInv(b)'
  BY <1>1, <1>2, <1>4, <1>5 DEF BlockInv, Lives, RecordSize
<1>8. ThreadInv(t)'
  <2>1. CallInv(t)'
    BY <1>1, <1>2, <1>3, <1>4 DEF CallInv, Asking, Allocating, Freeing
  <2>2. TableInv(t)' /\ SizeInv(t)'
    BY <1>0, <1>1, <1>2, <1>3, <1>5 DEF TableInv, SizeInv, Allocating
  <2> QED BY <2>1, <2>2 DEF ThreadInv
<1> QED BY <1>6, <1>7, <1>8 DEF Handled

\* FreeProc removes the guard while the block is still allocated.
LEMMA DoFreeProc ==
    ASSUME MemoryInv, NEW t \in Threads, NEW b, b = ptr[t], FreeProc(t) PROVE Handled(t, b)
<1>0. pc[t] = "freeProc" /\ TypeOK
  BY DEF FreeProc, MemoryInv
<1>1. /\ b \in Blocks /\ block[b] # None /\ dev[t] \in Devices /\ block[b].dev = dev[t]
      /\ BlockInv(b) /\ CallInv(t) /\ TableInv(t) /\ SizeInv(t)
  BY <1>0, OwnBlock DEF Freeing
<1>2. /\ pc' = [pc EXCEPT ![t] = "release"]
      /\ UNCHANGED <<dev, size, total, early, ptr, memCheck, memGuardEnable, backSize, view,
                     memoryOpAddrInfos, block>>
  BY DEF FreeProc, Goto, argVars, tableVars, deviceVars
<1>3. pc'[t] = "release"
  BY <1>0, <1>2 DEF TypeOK, CallTypes
<1>4. block[b].st = "freeing"
  BY <1>0, <1>1 DEF CallInv, Freeing
<1>5. /\ guardMemMap'[dev[t]][b] = None
      /\ \A d \in Devices, x \in Blocks : d # dev[t] \/ x # b => guardMemMap'[d][x] = guardMemMap[d][x]
  <2>1. CASE memGuardEnable
    BY <1>0, <1>1, <2>1 DEF FreeProc, TypeOK, TableTypes
  <2>2. CASE ~memGuardEnable
    <3>1. UNCHANGED guardMemMap /\ guardMemMap[dev[t]][b] = None
      BY <1>1, <2>2 DEF FreeProc, MemoryInv, EnableInv
    <3> QED BY <3>1
  <2> QED BY <2>1, <2>2
<1>6. Touches(b)
  BY <1>2, <1>5 DEF Touches
<1>7. BlockInv(b)'
  <2>1. \A d \in Devices : guardMemMap'[d][b] # None => guardMemMap'[d][b] = guardMemMap[d][b]
    BY <1>1, <1>5
  <2> QED BY <1>1, <1>2, <1>4, <2>1 DEF BlockInv, Lives, RecordSize
<1>8. ThreadInv(t)'
  <2>1. CallInv(t)'
    BY <1>1, <1>2, <1>3, <1>4 DEF CallInv, Asking, Allocating, Freeing
  <2>2. TableInv(t)' /\ SizeInv(t)'
    BY <1>0, <1>1, <1>2, <1>3, <1>5 DEF TableInv, SizeInv, Allocating
  <2> QED BY <2>1, <2>2 DEF ThreadInv
<1> QED BY <1>6, <1>7, <1>8 DEF Handled

\* The original free: no table knows the address any more, or the block is kept.
LEMMA DoOriginFree ==
    ASSUME MemoryInv, NEW t \in Threads, NEW b, b = ptr[t], OriginFree(t) PROVE Handled(t, b)
<1>0. pc[t] = "release" /\ TypeOK
  BY DEF OriginFree, MemoryInv
<1>1. /\ b \in Blocks /\ block[b] # None /\ dev[t] \in Devices /\ block[b].dev = dev[t]
      /\ BlockInv(b) /\ CallInv(t) /\ TableInv(t) /\ SizeInv(t)
  BY <1>0, OwnBlock DEF Freeing
<1>2. UNCHANGED <<memCheck, memGuardEnable, backSize, guardMemMap, memoryOpAddrInfos, view>>
  BY DEF OriginFree, guardVars, tableVars
<1>3. pc'[t] = "idle" /\ ptr'[t] = None
  BY <1>0 DEF OriginFree, Return, Goto, TypeOK, CallTypes
<1>4. ThreadInv(t)'
  BY <1>3, NoBlock DEF Asking, Allocating, Freeing
<1>5. CASE block' = [block EXCEPT ![ptr[t]].st = "kept"]
  <2>1. /\ block'[b] # None /\ block'[b].st = "kept" /\ block'[b].dev = block[b].dev
        /\ block'[b].user = block[b].user /\ block'[b].total = block[b].total
        /\ block'[b].early = block[b].early /\ \A x \in Blocks : x # b => block'[x] = block[x]
    BY <1>0, <1>1, <1>5, StateChange
  <2>2. BlockInv(b)'
    BY <1>1, <1>2, <2>1, Freed
  <2> QED BY <1>2, <1>4, <2>1, <2>2 DEF Handled, Touches
<1>6. CASE block' = [block EXCEPT ![ptr[t]] = None]
  <2>1. block'[b] = None /\ \A x \in Blocks : x # b => block'[x] = block[x]
    BY <1>0, <1>1, <1>6 DEF TypeOK, DeviceTypes
  <2>2. \A d \in Devices : guardMemMap[d][b] = None
    BY <1>0, <1>1 DEF TableInv, BlockInv, Lives
  <2>3. view[b] = 0 /\ \A d \in Devices : \A info \in memoryOpAddrInfos[d] : info.addr # b
    BY <1>0, <1>1 DEF TableInv
  <2>4. BlockInv(b)'
    BY <1>2, <2>1, <2>2, <2>3 DEF BlockInv
  <2> QED BY <1>2, <1>4, <2>1, <2>4 DEF Handled, Touches
<1> QED BY <1>5, <1>6 DEF OriginFree

-----------------------------------------------------------------------------
(* The other steps.                                                        *)

\* Steps that change neither the tables nor the allocator.
Quiet(t) ==
    \/ SetDevice(t) \/ MallocBegin(t) \/ InitMark(t) \/ InitEnable(t) \/ InitSizes(t) \/ TotalSize(t)
    \/ (OriginMalloc(t) /\ Return(t)) \/ LaunchInit(t) \/ HeadsH2D(t) \/ FillAllMemGuard(t)
    \/ Overrun(t) \/ KernelEnds(t) \/ CheckAllMemGuard(t)

\* Those steps touch no address.
LEMMA QuietTouches ==
    ASSUME TypeOK, NEW t \in Threads, Quiet(t)
    PROVE  Touches(None) /\ UNCHANGED <<block, view, memoryOpAddrInfos, mallocCount, guardMemMap>>
<1>1. ASSUME OriginMalloc(t), Return(t)
      PROVE  UNCHANGED <<block, view, memoryOpAddrInfos, mallocCount, guardMemMap>>
  <2>1. ~Goto(t, "mallocProc")
    BY <1>1 DEF Return, Goto, TypeOK, CallTypes
  <2> QED BY <1>1, <2>1 DEF OriginMalloc, guardVars, tableVars
<1>2. UNCHANGED <<block, view, memoryOpAddrInfos, mallocCount, guardMemMap>>
  BY <1>1 DEF Quiet, SetDevice, MallocBegin, InitMark, InitEnable, InitSizes, TotalSize, LaunchInit,
       HeadsH2D, FillAllMemGuard, Overrun, KernelEnds, CheckAllMemGuard, guardVars, tableVars,
       deviceVars
<1> QED BY <1>2 DEF Touches

\* ... and leave their thread without a block.
LEMMA QuietThread ==
    ASSUME MemoryInv, NEW t \in Threads, Quiet(t) PROVE ThreadInv(t)' /\ ptr'[t] = None
<1>0. /\ TypeOK /\ CallInv(t) /\ pc \in [Threads -> Locations] /\ size \in [Threads -> UserSizes \cup {0}]
      /\ ptr \in [Threads -> Blocks \cup {None}]
  BY DEF MemoryInv, ThreadInv, TypeOK, CallTypes
<1>1. ASSUME \/ SetDevice(t) \/ LaunchInit(t) \/ HeadsH2D(t) \/ FillAllMemGuard(t) \/ Overrun(t)
             \/ KernelEnds(t) \/ CheckAllMemGuard(t)
      PROVE  ThreadInv(t)' /\ ptr'[t] = None
  <2>1. /\ pc[t] \in {"idle", "heads", "fill", "kernel", "check"}
        /\ pc'[t] \in {"idle", "heads", "fill", "kernel", "check"} /\ UNCHANGED ptr
    BY <1>0, <1>1 DEF SetDevice, LaunchInit, HeadsH2D, FillAllMemGuard, Overrun, KernelEnds,
       CheckAllMemGuard, Goto, callVars, argVars
  <2>2. ptr'[t] = None
    BY <1>0, <2>1 DEF CallInv, Allocating, Freeing
  <2> QED BY <2>1, <2>2, NoBlock DEF Asking, Allocating, Freeing
<1>2. ASSUME OriginMalloc(t), Return(t) PROVE ThreadInv(t)' /\ ptr'[t] = None
  <2>1. pc'[t] = "idle" /\ ptr'[t] = None
    BY <1>0, <1>2 DEF Return, Goto
  <2> QED BY <2>1, NoBlock DEF Asking, Allocating, Freeing
<1>3. ASSUME \/ MallocBegin(t) \/ InitMark(t) \/ InitEnable(t) \/ InitSizes(t)
      PROVE  ThreadInv(t)' /\ ptr'[t] = None
  <2>1. /\ pc[t] \in {"idle", "init", "config", "sizes"} /\ UNCHANGED ptr
        /\ pc'[t] \in {"init", "config", "sizes", "total"}
    BY <1>0, <1>3 DEF MallocBegin, InitMark, InitEnable, InitSizes, Goto, argVars
  <2>2. size'[t] \in UserSizes
    <3>1. CASE MallocBegin(t)
      BY <1>0, <3>1 DEF MallocBegin
    <3>2. CASE ~MallocBegin(t)
      BY <1>0, <1>3, <3>2 DEF InitMark, InitEnable, InitSizes, argVars, CallInv, Asking
    <3> QED BY <3>1, <3>2
  <2>3. ptr'[t] = None
    BY <1>0, <2>1 DEF CallInv, Allocating, Freeing
  <2>4. CallInv(t)'
    BY <2>1, <2>2, <2>3 DEF CallInv, Allocating, Freeing
  <2>5. TableInv(t)' /\ SizeInv(t)'
    BY <2>1 DEF TableInv, SizeInv, Allocating
  <2> QED BY <2>3, <2>4, <2>5 DEF ThreadInv
<1>4. ASSUME TotalSize(t) PROVE ThreadInv(t)' /\ ptr'[t] = None
  <2>1. pc[t] = "total" /\ pc'[t] = "alloc" /\ UNCHANGED <<ptr, size, memCheck, memGuardEnable, backSize>>
    BY <1>0, <1>4 DEF TotalSize, Goto, guardVars
  <2>2. ptr'[t] = None /\ size[t] \in UserSizes
    BY <1>0, <2>1 DEF CallInv, Asking, Allocating, Freeing
  <2>3. CallInv(t)'
    BY <2>1, <2>2 DEF CallInv, Allocating, Freeing
  <2>4. TableInv(t)'
    BY <2>1 DEF TableInv
  <2>5. total'[t] = GetTotalSize(size[t])
    BY <1>0, <1>4 DEF TotalSize, TypeOK, CallTypes
  <2>6. memCheck /\ ~early'[t] => memGuardEnable /\ backSize = ConfigBack
    BY <1>0, <1>4 DEF TotalSize, TypeOK, CallTypes
  <2>7. memGuardEnable => GetTotalSize(size[t]) \in {SizeMax, size[t] + backSize}
    BY DEF GetTotalSize
  <2>8. SizeInv(t)'
    BY <2>1, <2>5, <2>6, <2>7 DEF SizeInv
  <2> QED BY <2>2, <2>3, <2>4, <2>8 DEF ThreadInv
<1> QED BY <1>1, <1>2, <1>3, <1>4 DEF Quiet

\* A step of a thread handles one address, or none.
LEMMA StepHandled ==
    ASSUME MemoryInv, NEW t \in Threads, StepOf(t)
    PROVE  \/ Touches(None) /\ ThreadInv(t)' /\ ptr'[t] = None
           \/ \E b \in Blocks : /\ Handled(t, b) /\ ptr'[t] \in {b, None}
                                /\ \A u \in Threads : u # t => ptr[u] # b
<1>0. /\ TypeOK /\ OneCall /\ ptr \in [Threads -> Blocks \cup {None}] /\ None \notin Blocks
      /\ \A u \in Threads : CallInv(u)
  BY MemoryAssumption DEF MemoryInv, ThreadInv, TypeOK, CallTypes
<1>1. CASE Quiet(t)
  BY <1>0, <1>1, QuietTouches, QuietThread
<1>2. CASE OriginMalloc(t) /\ ~Return(t)
  <2>1. ptr'[t] # None
    BY <1>0, <1>2 DEF OriginMalloc
  <2>2. PICK b \in Blocks : block[b] = None /\ ptr'[t] = b /\ Handled(t, b)
    BY <1>2, <2>1, DoOriginMalloc
  <2>3. \A u \in Threads : ptr[u] # b
    BY <1>0, <2>2 DEF CallInv
  <2> QED BY <2>2, <2>3
<1>3. CASE FreeBegin(t)
  <2>1. PICK b \in Blocks : /\ block[b] # None /\ block[b].st \in {"owned", "kept"}
                            /\ ptr'[t] = b /\ Handled(t, b)
    BY <1>3, DoFreeBegin
  <2>2. \A u \in Threads : ptr[u] # b
    BY <1>0, <2>1 DEF CallInv
  <2> QED BY <2>1, <2>2
<1>4. CASE \/ MallocProc(t) \/ CacheMalloc(t) \/ NotifyMalloc(t) \/ CacheFree(t) \/ NotifyFree(t)
           \/ FreeProc(t) \/ OriginFree(t)
  <2>1. pc[t] \in Allocating \cup Freeing
    BY <1>4 DEF MallocProc, CacheMalloc, NotifyMalloc, CacheFree, NotifyFree, FreeProc, OriginFree,
         Allocating, Freeing
  <2>2. PICK b \in Blocks : b = ptr[t]
    BY <2>1, OwnBlock
  <2>3. Handled(t, b)
    BY <1>4, <2>2, DoMallocProc, DoCacheMalloc, DoNotifyMalloc, DoCacheFree, DoNotifyFree,
       DoFreeProc, DoOriginFree
  <2>4. ptr'[t] \in {b, None}
    BY <1>0, <1>4, <2>2 DEF MallocProc, CacheMalloc, NotifyMalloc, CacheFree, NotifyFree, FreeProc,
       OriginFree, Return, argVars
  <2>5. \A u \in Threads : u # t => ptr[u] # b
    BY <1>0, <2>2 DEF OneCall
  <2> QED BY <2>3, <2>4, <2>5
<1> QED BY <1>1, <1>2, <1>3, <1>4 DEF StepOf, Malloc, Free, Launch, Quiet

\* The blocks, the threads and who has which block.
LEMMA StepBlocks ==
    ASSUME MemoryInv, TypeOK', NEW t \in Threads, StepOf(t)
    PROVE  /\ \A b \in Blocks : BlockInv(b)'
           /\ \A u \in Threads : ThreadInv(u)'
           /\ OneCall'
<1>0. /\ TypeOK /\ OneCall /\ ptr \in [Threads -> Blocks \cup {None}] /\ None \notin Blocks
      /\ (\A u \in Threads : ThreadInv(u)) /\ \A b \in Blocks : BlockInv(b)
  BY MemoryAssumption DEF MemoryInv, TypeOK, CallTypes
<1>1. Completed /\ UNCHANGED memCheck /\ \A u \in Threads : u # t => Kept(u)
  BY <1>0, OnlyCompleted, OtherThreads DEF Completed
<1>2. \A u \in Threads : u # t => ptr'[u] = ptr[u]
  BY <1>1 DEF Kept
<1>3. CASE Touches(None) /\ ThreadInv(t)' /\ ptr'[t] = None
  <2>1. \A b \in Blocks : BlockInv(b)'
    BY <1>0, <1>1, <1>3, BlockFrame
  <2>2. ASSUME NEW u \in Threads, u # t PROVE ThreadInv(u)'
    <3>1. CASE ptr[u] # None
      BY <1>0, <1>1, <1>3, <2>2, <3>1, ThreadFrame
    <3>2. CASE ptr[u] = None
      <4>1. pc'[u] = pc[u] /\ pc[u] \notin Allocating \cup Freeing /\ CallInv(u) /\ SizeInv(u)
        BY <1>0, <1>1, <2>2, <3>2 DEF ThreadInv, CallInv, Kept
      <4>2. CallInv(u)' /\ SizeInv(u)'
        BY <1>1, <2>2, <4>1 DEF CallInv, SizeInv, Kept, Completed
      <4>3. TableInv(u)'
        BY <4>1 DEF TableInv, Allocating, Freeing
      <4> QED BY <4>2, <4>3 DEF ThreadInv
    <3> QED BY <3>1, <3>2
  <2>3. OneCall'
    BY <1>0, <1>2, <1>3 DEF OneCall
  <2> QED BY <1>3, <2>1, <2>2, <2>3
<1>4. ASSUME NEW b \in Blocks, Handled(t, b), ptr'[t] \in {b, None},
             \A u \in Threads : u # t => ptr[u] # b
      PROVE  /\ \A x \in Blocks : BlockInv(x)'
             /\ \A u \in Threads : ThreadInv(u)'
             /\ OneCall'
  <2>1. Touches(b) /\ BlockInv(b)' /\ ThreadInv(t)'
    BY <1>4 DEF Handled
  <2>2. ASSUME NEW x \in Blocks, x # b PROVE BlockInv(x)'
    BY <1>0, <1>1, <2>1, <2>2, BlockFrame
  <2>3. ASSUME NEW u \in Threads, u # t PROVE ThreadInv(u)'
    BY <1>0, <1>1, <1>4, <2>1, <2>3, ThreadFrame
  <2>4. OneCall'
    BY <1>0, <1>2, <1>4 DEF OneCall
  <2> QED BY <2>1, <2>2, <2>3, <2>4
<1> QED BY <1>3, <1>4, StepHandled

-----------------------------------------------------------------------------
(* The count, the configuration, the guards and the alarms.                *)

\* MallocBegin to TotalSize and SetDevice, FreeBegin, NotifyFree, the launch steps
\* and the guard table's steps leave the range table alone.
LEMMA StepCount ==
    ASSUME MemoryInv, NEW t \in Threads, StepOf(t)
    PROVE  CountMatches' /\ FiniteTables'
<1>0. /\ TypeOK /\ CountMatches /\ FiniteTables /\ dev[t] \in Devices
      /\ memoryOpAddrInfos \in [Devices -> SUBSET AddrInfo] /\ mallocCount \in [Devices -> Nat]
  BY DEF MemoryInv, TypeOK, CallTypes, TableTypes
<1>1. CASE UNCHANGED <<memoryOpAddrInfos, mallocCount>>
  BY <1>0, <1>1 DEF CountMatches, FiniteTables
<1>2. CASE CacheMalloc(t)
  <2> DEFINE info == [addr |-> ptr[t], length |-> RecordSize(size[t])]
  <2>1. /\ mallocCount' = [mallocCount EXCEPT ![dev[t]] = @ + 1]
        /\ memoryOpAddrInfos' = [memoryOpAddrInfos EXCEPT ![dev[t]] = @ \cup {info}]
    BY <1>2 DEF CacheMalloc
  <2>2. pc[t] = "cacheMalloc" /\ TableInv(t)
    BY <1>2 DEF CacheMalloc, MemoryInv, ThreadInv
  <2>3. info \notin memoryOpAddrInfos[dev[t]]
    <3>1. info.addr = ptr[t]
      OBVIOUS
    <3>2. \A i \in memoryOpAddrInfos[dev[t]] : i.addr # ptr[t]
      BY <1>0, <2>2 DEF TableInv
    <3> QED BY <3>1, <3>2
  <2> HIDE DEF info
  <2>4. IsFiniteSet(memoryOpAddrInfos[dev[t]])
    BY <1>0 DEF FiniteTables
  <2>5. /\ IsFiniteSet(memoryOpAddrInfos[dev[t]] \cup {info})
        /\ Cardinality(memoryOpAddrInfos[dev[t]] \cup {info})
              = Cardinality(memoryOpAddrInfos[dev[t]]) + 1
    BY <2>3, <2>4, FS_AddElement
  <2>6. /\ memoryOpAddrInfos'[dev[t]] = memoryOpAddrInfos[dev[t]] \cup {info}
        /\ mallocCount'[dev[t]] = mallocCount[dev[t]] + 1
        /\ \A d \in Devices : d # dev[t] => /\ memoryOpAddrInfos'[d] = memoryOpAddrInfos[d]
                                            /\ mallocCount'[d] = mallocCount[d]
    BY <1>0, <2>1
  <2>7. mallocCount[dev[t]] = Cardinality(memoryOpAddrInfos[dev[t]])
    BY <1>0 DEF CountMatches
  <2>8. mallocCount'[dev[t]] = Cardinality(memoryOpAddrInfos'[dev[t]])
    BY <2>5, <2>6, <2>7
  <2>9. CountMatches'
    BY <1>0, <2>6, <2>8 DEF CountMatches
  <2>10. FiniteTables'
    BY <1>0, <2>5, <2>6 DEF FiniteTables
  <2> QED BY <2>9, <2>10
<1>3. CASE CacheFree(t) /\ ~UNCHANGED <<memoryOpAddrInfos, mallocCount>>
  <2>1. PICK info \in memoryOpAddrInfos[dev[t]] :
            memoryOpAddrInfos' = [memoryOpAddrInfos EXCEPT ![dev[t]] = @ \ {info}]
    BY <1>3 DEF CacheFree
  <2>2. mallocCount' = [mallocCount EXCEPT ![dev[t]] = @ - 1]
    BY <1>3 DEF CacheFree
  <2>4. IsFiniteSet(memoryOpAddrInfos[dev[t]])
    BY <1>0 DEF FiniteTables
  <2>5. /\ IsFiniteSet(memoryOpAddrInfos[dev[t]] \ {info})
        /\ Cardinality(memoryOpAddrInfos[dev[t]] \ {info})
              = Cardinality(memoryOpAddrInfos[dev[t]]) - 1
    BY <2>1, <2>4, FS_RemoveElement
  <2>6. /\ memoryOpAddrInfos'[dev[t]] = memoryOpAddrInfos[dev[t]] \ {info}
        /\ mallocCount'[dev[t]] = mallocCount[dev[t]] - 1
        /\ \A d \in Devices : d # dev[t] => /\ memoryOpAddrInfos'[d] = memoryOpAddrInfos[d]
                                            /\ mallocCount'[d] = mallocCount[d]
    BY <1>0, <2>1, <2>2
  <2>7. mallocCount[dev[t]] = Cardinality(memoryOpAddrInfos[dev[t]])
    BY <1>0 DEF CountMatches
  <2>8. mallocCount'[dev[t]] = Cardinality(memoryOpAddrInfos'[dev[t]])
    BY <2>5, <2>6, <2>7
  <2>9. CountMatches'
    BY <1>0, <2>6, <2>8 DEF CountMatches
  <2>10. FiniteTables'
    BY <1>0, <2>5, <2>6 DEF FiniteTables
  <2> QED BY <2>9, <2>10
<1>4. CASE Quiet(t)
  BY <1>0, <1>1, <1>4, QuietTouches
<1>5. CASE ~Quiet(t) /\ ~CacheMalloc(t) /\ ~CacheFree(t)
  <2>1. OriginMalloc(t) \/ MallocProc(t) \/ NotifyMalloc(t) \/ Free(t)
    BY <1>5 DEF StepOf, Malloc, Launch, Quiet
  <2>2. UNCHANGED <<memoryOpAddrInfos, mallocCount>>
    BY <1>5, <2>1 DEF OriginMalloc, MallocProc, NotifyMalloc, Free, FreeBegin, NotifyFree, FreeProc,
         OriginFree, tableVars
  <2> QED BY <1>1, <2>2
<1> QED BY <1>1, <1>2, <1>3, <1>4, <1>5

\* Guards are registered only after MemoryGuard::Init has seen the configuration.
LEMMA StepEnable ==
    ASSUME MemoryInv, NEW t \in Threads, StepOf(t)
    PROVE  EnableInv'
<1>0. TypeOK /\ EnableInv
  BY DEF MemoryInv
<1>1. ASSUME MallocProc(t) PROVE EnableInv'
  <2>1. UNCHANGED <<memCheck, memGuardEnable>>
    BY <1>1 DEF MallocProc
  <2>2. memGuardEnable \/ UNCHANGED guardMemMap
    BY <1>1 DEF MallocProc
  <2> QED BY <1>0, <2>1, <2>2 DEF EnableInv
<1>2. ASSUME FreeProc(t) PROVE EnableInv'
  <2>1. UNCHANGED <<memCheck, memGuardEnable>>
    BY <1>2 DEF FreeProc
  <2>2. memGuardEnable \/ UNCHANGED guardMemMap
    BY <1>2 DEF FreeProc
  <2> QED BY <1>0, <2>1, <2>2 DEF EnableInv
<1>3. ASSUME InitEnable(t) PROVE EnableInv'
  BY <1>0, <1>3 DEF InitEnable, EnableInv, TypeOK, TableTypes
<1>4. CASE UNCHANGED <<memCheck, memGuardEnable, guardMemMap>>
  BY <1>0, <1>4 DEF EnableInv
<1>5. CASE ~MallocProc(t) /\ ~FreeProc(t) /\ ~InitEnable(t)
  <2>1. UNCHANGED <<memCheck, memGuardEnable, guardMemMap>>
    BY <1>5 DEF StepOf, SetDevice, Malloc, Free, Launch, MallocBegin, InitMark, InitSizes,
       TotalSize,
         OriginMalloc, CacheMalloc, NotifyMalloc, FreeBegin, CacheFree, NotifyFree, OriginFree,
         LaunchInit, HeadsH2D, FillAllMemGuard, Overrun, KernelEnds, CheckAllMemGuard, guardVars,
         callVars
  <2> QED BY <1>4, <2>1
<1> QED BY <1>1, <1>2, <1>3, <1>5

\* A step that writes no guard, registers and frees no block, and starts no kernel.
Calm ==
    /\ UNCHANGED guard
    /\ Registered' \subseteq Registered
    /\ \A b \in Blocks : block[b] # None => block'[b] # None
    /\ \A u \in Threads :
          /\ overran'[u] \subseteq overran[u]
          /\ pc'[u] \in {"kernel", "check"} =>
                 pc[u] \in {"kernel", "check"} /\ unfilled'[u] = unfilled[u]

\* It leaves what the launches know of the guards as it was.
LEMMA CalmLaunch ==
    ASSUME TypeOK, NEW u \in Threads, LaunchInv(u), Calm PROVE LaunchInv(u)'
<1>1. overran[u] \subseteq Blocks
  BY DEF TypeOK, DeviceTypes
<1>2. \A b \in overran'[u] : guard'[b] = "hit" /\ block'[b] # None
  BY <1>1 DEF LaunchInv, Calm
<1>3. ASSUME pc'[u] \in {"kernel", "check"}, NEW b \in Registered', guard'[b] = "raw"
      PROVE  <<b, "newer">> \in unfilled'[u] \/ <<b, "failed">> \in unfilled'[u]
  BY <1>3 DEF LaunchInv, Calm
<1> QED BY <1>2, <1>3 DEF LaunchInv

\* Most steps are of that kind.
LEMMA CalmSteps ==
    ASSUME MemoryInv, NEW t \in Threads,
           \/ SetDevice(t) \/ MallocBegin(t) \/ InitMark(t) \/ InitEnable(t) \/ InitSizes(t)
           \/ TotalSize(t) \/ (OriginMalloc(t) /\ Return(t)) \/ CacheMalloc(t) \/ NotifyMalloc(t)
           \/ FreeBegin(t) \/ CacheFree(t) \/ NotifyFree(t) \/ FreeProc(t) \/ LaunchInit(t)
           \/ HeadsH2D(t) \/ KernelEnds(t) \/ CheckAllMemGuard(t)
    PROVE  Calm
<1>0. /\ TypeOK /\ CallInv(t) /\ pc \in [Threads -> Locations]
      /\ unfilled \in [Threads -> SUBSET (Blocks \X {"newer", "failed"})]
      /\ overran \in [Threads -> SUBSET Blocks] /\ dev[t] \in Devices
  BY DEF MemoryInv, ThreadInv, TypeOK, CallTypes, DeviceTypes
<1>1. UNCHANGED guard
  <2>1. ASSUME OriginMalloc(t), Return(t) PROVE UNCHANGED guard
    <3>1. ~Goto(t, "mallocProc")
      BY <1>0, <2>1 DEF Return, Goto
    <3> QED BY <2>1, <3>1 DEF OriginMalloc
  <2> QED BY <2>1 DEF SetDevice, MallocBegin, InitMark, InitEnable, InitSizes, TotalSize,
       CacheMalloc,
       NotifyMalloc, FreeBegin, CacheFree, NotifyFree, FreeProc, LaunchInit, HeadsH2D, KernelEnds,
       CheckAllMemGuard, deviceVars
<1>2. Registered' \subseteq Registered
  <2>1. CASE FreeProc(t)
    <3>1. pc[t] = "freeProc"
      BY <2>1 DEF FreeProc
    <3>2. ptr[t] \in Blocks
      BY <1>0, <3>1, OwnBlock DEF Freeing
    <3>3. \A d \in Devices, b \in Blocks : guardMemMap'[d][b] # None => guardMemMap[d][b] # None
      BY <1>0, <2>1, <3>2 DEF FreeProc, TypeOK, TableTypes
    <3> QED BY <3>3 DEF Registered
  <2>2. CASE UNCHANGED guardMemMap
    BY <2>2 DEF Registered
  <2>3. UNCHANGED guardMemMap \/ FreeProc(t)
    BY DEF SetDevice, MallocBegin, InitMark, InitEnable, InitSizes, TotalSize, CacheMalloc,
       NotifyMalloc, FreeBegin, CacheFree, NotifyFree, LaunchInit, HeadsH2D, KernelEnds,
       CheckAllMemGuard, OriginMalloc, guardVars
  <2> QED BY <2>1, <2>2, <2>3
<1>3. \A b \in Blocks : block[b] # None => block'[b] # None
  <2>1. CASE NotifyMalloc(t)
    <3>1. pc[t] = "notifyMalloc" /\ block' = [block EXCEPT ![ptr[t]].st = "owned"]
      BY <2>1 DEF NotifyMalloc
    <3>2. ptr[t] \in Blocks /\ block[ptr[t]] # None
      BY <1>0, <3>1, OwnBlock DEF Allocating
    <3> QED BY <1>0, <3>1, <3>2, StateChange
  <2>2. CASE FreeBegin(t)
    <3>1. PICK b \in Blocks : block[b] # None /\ block' = [block EXCEPT ![b].st = "freeing"]
      BY <2>2 DEF FreeBegin
    <3> QED BY <1>0, <3>1, StateChange
  <2>3. ASSUME OriginMalloc(t), Return(t) PROVE UNCHANGED block
    <3>1. ~Goto(t, "mallocProc")
      BY <1>0, <2>3 DEF Return, Goto
    <3> QED BY <2>3, <3>1 DEF OriginMalloc
  <2>4. NotifyMalloc(t) \/ FreeBegin(t) \/ UNCHANGED block
    BY <2>3 DEF SetDevice, MallocBegin, InitMark, InitEnable, InitSizes, TotalSize, CacheMalloc,
       CacheFree, NotifyFree, FreeProc, LaunchInit, HeadsH2D, KernelEnds, CheckAllMemGuard, deviceVars
  <2> QED BY <2>1, <2>2, <2>4
<1>4. ASSUME NEW u \in Threads
      PROVE  /\ overran'[u] \subseteq overran[u]
             /\ pc'[u] \in {"kernel", "check"} =>
                    pc[u] \in {"kernel", "check"} /\ unfilled'[u] = unfilled[u]
  <2>1. CASE KernelEnds(t)
    BY <1>0, <2>1 DEF KernelEnds, Goto
  <2>2. CASE CheckAllMemGuard(t)
    BY <1>0, <2>2 DEF CheckAllMemGuard, Goto
  <2>3. CASE ~KernelEnds(t) /\ ~CheckAllMemGuard(t)
    <3>1. UNCHANGED <<overran, unfilled>>
      BY <2>3 DEF SetDevice, MallocBegin, InitMark, InitEnable, InitSizes, TotalSize, CacheMalloc,
         NotifyMalloc, FreeBegin, CacheFree, NotifyFree, FreeProc, LaunchInit, HeadsH2D,
         OriginMalloc, launchVars
    <3>2. u # t => pc'[u] = pc[u]
      <4>1. StepOf(t)
        BY DEF StepOf, Malloc, Free, Launch
      <4> QED BY <1>0, <4>1, OtherThreads DEF Kept
    <3>3. pc'[t] \in {"kernel", "check"} => FALSE
      <4>1. ASSUME SetDevice(t) PROVE pc'[t] = "idle"
        BY <4>1 DEF SetDevice
      <4> QED BY <1>0, <2>3, <4>1 DEF MallocBegin, InitMark, InitEnable, InitSizes, TotalSize,
         CacheMalloc, NotifyMalloc, FreeBegin, CacheFree, NotifyFree, FreeProc, LaunchInit, HeadsH2D,
         Return, Goto
    <3> QED BY <3>1, <3>2, <3>3
  <2> QED BY <2>1, <2>2, <2>3
<1> QED BY <1>1, <1>2, <1>3, <1>4 DEF Calm

\* A guard that a kernel runs over is no longer raw, and its block is allocated.
LEMMA HitLaunch ==
    ASSUME TypeOK, NEW u \in Threads, LaunchInv(u), NEW b \in Blocks, RunsPast(b),
           overran'[u] \subseteq overran[u] \cup {b},
           UNCHANGED <<pc, guardMemMap, block, unfilled>>
    PROVE  LaunchInv(u)'
<1>1. overran[u] \subseteq Blocks /\ guard \in [Blocks -> {"raw", "pattern", "hit"}]
  BY DEF TypeOK, DeviceTypes
<1>2. block[b] # None /\ guard'[b] = "hit" /\ \A x \in Blocks : x # b => guard'[x] = guard[x]
  BY <1>1 DEF RunsPast
<1>3. \A x \in overran'[u] : guard'[x] = "hit" /\ block'[x] # None
  BY <1>1, <1>2 DEF LaunchInv
<1>4. Registered' = Registered /\ Registered \subseteq Blocks
  BY DEF Registered
<1>5. ASSUME pc'[u] \in {"kernel", "check"}, NEW x \in Registered', guard'[x] = "raw"
      PROVE  <<x, "newer">> \in unfilled'[u] \/ <<x, "failed">> \in unfilled'[u]
  BY <1>2, <1>4, <1>5 DEF LaunchInv
<1> QED BY <1>3, <1>5 DEF LaunchInv

\* The steps that write guards, register blocks or free them.
LEMMA StepLaunch ==
    ASSUME MemoryInv, NEW t \in Threads, StepOf(t), NEW u \in Threads
    PROVE  LaunchInv(u)'
<1>0. /\ TypeOK /\ LaunchInv(u) /\ ThreadInv(t) /\ EnableInv
      /\ (\A b \in Blocks : BlockInv(b)) /\ None \notin Blocks
  BY MemoryAssumption DEF MemoryInv
<1>1. /\ overran \in [Threads -> SUBSET Blocks] /\ guard \in [Blocks -> {"raw", "pattern", "hit"}]
      /\ block \in [Blocks -> Block \cup {None}] /\ pc \in [Threads -> Locations]
      /\ dev[t] \in Devices /\ guardMemMap \in [Devices -> [Blocks -> Entry \cup {None}]]
      /\ unfilled \in [Threads -> SUBSET (Blocks \X {"newer", "failed"})]
  BY <1>0 DEF TypeOK, DeviceTypes, CallTypes, TableTypes
<1>2. Registered \subseteq Blocks
  BY DEF Registered
<1>3. CASE \/ SetDevice(t) \/ MallocBegin(t) \/ InitMark(t) \/ InitEnable(t) \/ InitSizes(t)
           \/ TotalSize(t) \/ (OriginMalloc(t) /\ Return(t)) \/ CacheMalloc(t) \/ NotifyMalloc(t)
           \/ FreeBegin(t) \/ CacheFree(t) \/ NotifyFree(t) \/ FreeProc(t) \/ LaunchInit(t)
           \/ HeadsH2D(t) \/ KernelEnds(t) \/ CheckAllMemGuard(t)
  BY <1>0, <1>3, CalmSteps, CalmLaunch
<1>4. CASE OriginMalloc(t) /\ ~Return(t)
  <2>1. PICK b \in Blocks :
           /\ block[b] = None
           /\ block' = [block EXCEPT ![b] = [dev |-> dev[t], user |-> size[t], total |-> total[t],
                                             early |-> early[t], st |-> "new"]]
           /\ guard' = [guard EXCEPT ![b] = "raw"]
    BY <1>4 DEF OriginMalloc
  <2>2. /\ Goto(t, "mallocProc") /\ pc[t] = "alloc"
        /\ UNCHANGED <<guardMemMap, overran, unfilled>>
    BY <1>4 DEF OriginMalloc, guardVars, launchVars
  <2>3. block'[b] # None /\ \A x \in Blocks : x # b => block'[x] = block[x]
    BY <1>0, <2>1, <2>2, NewBlock DEF ThreadInv
  <2>4. \A x \in Blocks : x # b => guard'[x] = guard[x]
    BY <1>1, <2>1
  <2>5. b \notin Registered /\ b \notin overran[u]
    BY <1>0, <2>1 DEF Registered, BlockInv, Lives, LaunchInv
  <2>6. Registered' = Registered
    BY <2>2 DEF Registered
  <2>7. pc'[u] \in {"kernel", "check"} => pc[u] \in {"kernel", "check"}
    BY <1>1, <2>2 DEF Goto
  <2>8. \A x \in overran'[u] : guard'[x] = "hit" /\ block'[x] # None
    BY <1>0, <1>1, <2>2, <2>3, <2>4, <2>5 DEF LaunchInv
  <2>9. ASSUME pc'[u] \in {"kernel", "check"}, NEW x \in Registered', guard'[x] = "raw"
        PROVE  <<x, "newer">> \in unfilled'[u] \/ <<x, "failed">> \in unfilled'[u]
    BY <1>0, <1>2, <2>2, <2>4, <2>5, <2>6, <2>7, <2>9 DEF LaunchInv
  <2> QED BY <2>8, <2>9 DEF LaunchInv
<1>5. CASE MallocProc(t)
  <2>1. /\ pc[t] = "mallocProc" /\ pc' = [pc EXCEPT ![t] = "cacheMalloc"]
        /\ UNCHANGED <<guard, block, overran>>
    BY <1>5 DEF MallocProc, Goto, deviceVars
  <2>2. ptr[t] \in Blocks
    BY <1>0, <2>1, OwnBlock DEF Allocating
  <2>3. \A x \in overran'[u] : guard'[x] = "hit" /\ block'[x] # None
    BY <1>0, <2>1 DEF LaunchInv
  <2>4. pc'[u] \in {"kernel", "check"} => pc[u] \in {"kernel", "check"}
    BY <1>1, <2>1
  <2>5. unfilled[u] \subseteq unfilled'[u]
    BY <1>5 DEF MallocProc
  <2>6. ASSUME pc'[u] \in {"kernel", "check"}, NEW x \in Registered', guard'[x] = "raw"
        PROVE  <<x, "newer">> \in unfilled'[u] \/ <<x, "failed">> \in unfilled'[u]
    <3>1. CASE x \in Registered
      BY <1>0, <2>1, <2>4, <2>5, <2>6, <3>1 DEF LaunchInv
    <3>2. CASE x \notin Registered
      <4>1. memGuardEnable
        BY <1>5, <2>6, <3>2 DEF MallocProc, Registered
      <4>2. guardMemMap' = [guardMemMap EXCEPT ![dev[t]][ptr[t]] =
                               [user |-> size[t], back |-> backSize]]
        BY <1>5, <4>1 DEF MallocProc
      <4>3. \A d \in Devices, z \in Blocks : z # ptr[t] => guardMemMap'[d][z] = guardMemMap[d][z]
        BY <1>1, <4>2
      <4>4. x = ptr[t]
        BY <2>6, <3>2, <4>3 DEF Registered
      <4>5. unfilled'[u] = unfilled[u] \cup {<<ptr[t], "newer">>}
        BY <1>5, <2>4, <2>6, <4>1 DEF MallocProc
      <4> QED BY <4>4, <4>5
    <3> QED BY <3>1, <3>2
  <2> QED BY <2>3, <2>6 DEF LaunchInv
<1>6. CASE OriginFree(t)
  <2>1. pc[t] = "release" /\ pc' = [pc EXCEPT ![t] = "idle"] /\ UNCHANGED guardMemMap
    BY <1>6 DEF OriginFree, Return, Goto, guardVars
  <2>2. /\ ptr[t] \in Blocks /\ block[ptr[t]] # None
        /\ guardMemMap[dev[t]][ptr[t]] = None /\ block[ptr[t]].dev = dev[t]
    BY <1>0, <2>1, OwnBlock DEF Freeing, ThreadInv, TableInv
  <2>3. ptr[t] \notin Registered
    BY <1>0, <2>2 DEF Registered, BlockInv, Lives
  <2>4. Registered' = Registered
    BY <2>1 DEF Registered
  <2>5. pc'[u] \in {"kernel", "check"} => pc[u] \in {"kernel", "check"}
    BY <1>1, <2>1
  <2>6. CASE block' = [block EXCEPT ![ptr[t]].st = "kept"] /\ UNCHANGED <<guard, overran, unfilled>>
    <3>1. \A x \in Blocks : block[x] # None => block'[x] # None
      BY <1>0, <2>2, <2>6, StateChange
    <3>2. \A x \in overran'[u] : guard'[x] = "hit" /\ block'[x] # None
      BY <1>0, <1>1, <2>6, <3>1 DEF LaunchInv
    <3> QED BY <1>0, <2>4, <2>5, <2>6, <3>2 DEF LaunchInv
  <2>7. CASE /\ block' = [block EXCEPT ![ptr[t]] = None]
             /\ guard' = [guard EXCEPT ![ptr[t]] = "raw"]
             /\ overran' = [z \in Threads |-> overran[z] \ {ptr[t]}]
             /\ unfilled' = [z \in Threads |-> {x \in unfilled[z] : x[1] # ptr[t]}]
    <3>1. \A x \in Blocks : x # ptr[t] => block'[x] = block[x] /\ guard'[x] = guard[x]
      BY <1>1, <2>7
    <3>2. overran'[u] = overran[u] \ {ptr[t]} /\ unfilled'[u] = {x \in unfilled[u] : x[1] # ptr[t]}
      BY <2>7
    <3>3. \A x \in overran'[u] : guard'[x] = "hit" /\ block'[x] # None
      BY <1>0, <1>1, <3>1, <3>2 DEF LaunchInv
    <3>4. ASSUME pc'[u] \in {"kernel", "check"}, NEW x \in Registered', guard'[x] = "raw"
          PROVE  <<x, "newer">> \in unfilled'[u] \/ <<x, "failed">> \in unfilled'[u]
      <4>1. x \in Blocks /\ x # ptr[t] /\ x \in Registered
        BY <1>2, <2>3, <2>4, <3>4
      <4>2. <<x, "newer">> \in unfilled[u] \/ <<x, "failed">> \in unfilled[u]
        BY <1>0, <2>5, <3>1, <3>4, <4>1 DEF LaunchInv
      <4> QED BY <3>2, <4>1, <4>2
    <3> QED BY <3>3, <3>4 DEF LaunchInv
  <2> QED BY <1>6, <2>6, <2>7 DEF OriginFree
<1>7. CASE FillAllMemGuard(t)
  <2>1. PICK failed \in SUBSET Registered, filled \in SUBSET Registered :
              /\ filled = IF memGuardEnable THEN Registered \ failed ELSE {}
              /\ guard' = [b \in Blocks |-> IF b \in filled THEN "pattern" ELSE guard[b]]
              /\ unfilled' = [z \in Threads |->
                    IF z = t /\ memGuardEnable THEN failed \X {"failed"}
                    ELSE {x \in unfilled[z] : x[1] \notin filled}]
              /\ overran' = [z \in Threads |-> overran[z] \ filled]
    BY <1>7, FillPicks
  <2>2. pc' = [pc EXCEPT ![t] = "kernel"] /\ UNCHANGED <<guardMemMap, block>>
    BY <1>7 DEF FillAllMemGuard, Goto, guardVars
  <2>3. Registered' = Registered
    BY <2>2 DEF Registered
  <2>4. \A x \in overran'[u] : guard'[x] = "hit" /\ block'[x] # None
    BY <1>0, <1>1, <2>1, <2>2 DEF LaunchInv
  <2>5. ASSUME pc'[u] \in {"kernel", "check"}, NEW x \in Registered', guard'[x] = "raw"
        PROVE  <<x, "newer">> \in unfilled'[u] \/ <<x, "failed">> \in unfilled'[u]
    <3>1. x \in Registered /\ x \in Blocks /\ x \notin filled /\ guard[x] = "raw"
      BY <1>2, <2>1, <2>3, <2>5
    <3>2. memGuardEnable
      BY <1>0, <3>1 DEF Registered, EnableInv
    <3>3. x \in failed
      BY <2>1, <3>1, <3>2
    <3>4. CASE u = t
      BY <2>1, <3>2, <3>3, <3>4
    <3>5. CASE u # t
      <4>1. <<x, "newer">> \in unfilled[u] \/ <<x, "failed">> \in unfilled[u]
        BY <1>0, <1>1, <2>2, <2>5, <3>1, <3>5 DEF LaunchInv
      <4>2. unfilled'[u] = {y \in unfilled[u] : y[1] \notin filled}
        BY <2>1, <3>5
      <4> QED BY <3>1, <4>1, <4>2
    <3> QED BY <3>4, <3>5
  <2> QED BY <2>4, <2>5 DEF LaunchInv
<1>8. CASE Overrun(t)
  <2>1. PICK b \in Blocks : RunsPast(b) /\ overran' = [overran EXCEPT ![t] = @ \cup {b}]
    BY <1>8 DEF Overrun
  <2>2. UNCHANGED <<pc, guardMemMap, block, unfilled>>
    BY <1>8 DEF Overrun, callVars, guardVars
  <2>3. overran'[u] \subseteq overran[u] \cup {b}
    BY <1>1, <2>1
  <2> QED BY <1>0, <2>1, <2>2, <2>3, HitLaunch
<1>9. CASE OriginMalloc(t)
  BY <1>3, <1>4, <1>9
<1>10. CASE SetDevice(t) \/ Malloc(t)
  <2>1. CASE MallocProc(t) \/ OriginMalloc(t)
    BY <1>5, <1>9, <2>1
  <2>2. CASE ~MallocProc(t) /\ ~OriginMalloc(t)
    BY <1>3, <1>10, <2>2 DEF Malloc
  <2> QED BY <2>1, <2>2
<1>11. CASE Free(t) \/ Launch(t)
  BY <1>3, <1>6, <1>7, <1>8, <1>11 DEF Free, Launch
<1> QED BY <1>10, <1>11 DEF StepOf

\* CheckAllMemGuard is the one step that reports, and it sees what LaunchInv says.
LEMMA StepAlarms ==
    ASSUME MemoryInv, NEW t \in Threads, StepOf(t)
    PROVE  AlarmsExact'
<1>1. CASE CheckAllMemGuard(t)
  <2>1. /\ pc[t] = "check" /\ LaunchInv(t) /\ overran[t] \subseteq Blocks
        /\ guard \in [Blocks -> {"raw", "pattern", "hit"}]
    BY <1>1 DEF CheckAllMemGuard, MemoryInv, TypeOK, DeviceTypes
  <2>2. PICK failed \in SUBSET Registered :
           alarms' = IF ~memGuardEnable THEN {}
                     ELSE {Seen(t, b, b \notin failed, b \notin failed /\ guard[b] # "pattern") :
                              b \in Registered}
    BY <1>1, Zenon DEF CheckAllMemGuard
  <2>3. ASSUME NEW s \in alarms'
        PROVE  /\ s.alarm => s.hit \/ s.newer \/ s.failed
               /\ s.mine /\ s.copied => s.alarm
    <3>1. PICK b \in Registered :
              s = Seen(t, b, b \notin failed, b \notin failed /\ guard[b] # "pattern")
      BY <2>2, <2>3
    <3>2. /\ s.copied = (b \notin failed)
          /\ s.alarm = (b \notin failed /\ guard[b] # "pattern")
          /\ s.hit = (guard[b] = "hit")
          /\ s.mine = (b \in overran[t])
          /\ s.newer = (<<b, "newer">> \in unfilled[t])
          /\ s.failed = (<<b, "failed">> \in unfilled[t])
      BY <3>1, Zenon DEF Seen
    <3>3. b \in Blocks
      BY DEF Registered
    <3>4. guard[b] \in {"raw", "pattern", "hit"}
      BY <2>1, <3>3
    <3>5. guard[b] = "raw" => <<b, "newer">> \in unfilled[t] \/ <<b, "failed">> \in unfilled[t]
      BY <2>1 DEF LaunchInv
    <3>6. b \in overran[t] => guard[b] = "hit"
      BY <2>1 DEF LaunchInv
    <3> QED BY <3>2, <3>4, <3>5, <3>6
  <2> QED BY <2>3 DEF AlarmsExact, AlarmsCaused, OverrunsReported
<1>2. CASE ~CheckAllMemGuard(t)
  <2>1. UNCHANGED alarms
    BY <1>2 DEF StepOf, SetDevice, Malloc, Free, Launch, MallocBegin, InitMark, InitEnable,
       InitSizes,
         TotalSize, OriginMalloc, MallocProc, CacheMalloc, NotifyMalloc, FreeBegin, CacheFree,
         NotifyFree, FreeProc, OriginFree, LaunchInit, HeadsH2D, FillAllMemGuard, Overrun, KernelEnds,
         launchVars
  <2> QED BY <2>1 DEF MemoryInv, AlarmsExact, AlarmsCaused, OverrunsReported
<1> QED BY <1>1, <1>2

-----------------------------------------------------------------------------
(* The theorems.                                                           *)

\* A kernel nobody waited for only writes guards.
LEMMA StrayStep ==
    ASSUME MemoryInv, StrayOverrun PROVE MemoryInv'
<1>0. /\ TypeOK /\ CountMatches /\ FiniteTables /\ OneCall /\ EnableInv /\ AlarmsExact
      /\ (\A b \in Blocks : BlockInv(b)) /\ \A t \in Threads : ThreadInv(t) /\ LaunchInv(t)
  BY DEF MemoryInv
<1>1. TypeOK'
  <2>1. \A t \in Threads : CallInv(t)
    BY <1>0 DEF ThreadInv
  <2> QED BY <1>0, <2>1, StepType DEF Next
<1>2. UNCHANGED <<pc, dev, size, total, early, ptr, memCheck, memGuardEnable, backSize, guardMemMap,
                  memoryOpAddrInfos, mallocCount, view, block, unfilled, overran, alarms>>
  BY DEF StrayOverrun, callVars, argVars, guardVars, tableVars, launchVars
<1>3. CountMatches' /\ FiniteTables' /\ OneCall' /\ EnableInv' /\ AlarmsExact'
  BY <1>0, <1>2 DEF CountMatches, FiniteTables, OneCall, EnableInv, AlarmsExact, AlarmsCaused,
     OverrunsReported
<1>4. \A b \in Blocks : BlockInv(b)'
  BY <1>0, <1>2 DEF BlockInv, Lives, RecordSize
<1>5. ASSUME NEW t \in Threads PROVE ThreadInv(t)' /\ LaunchInv(t)'
  <2>1. ThreadInv(t)'
    BY <1>0, <1>2 DEF ThreadInv, CallInv, TableInv, SizeInv, RecordSize
  <2>2. PICK b \in Blocks : RunsPast(b)
    BY DEF StrayOverrun
  <2>3. LaunchInv(t)'
    BY <1>0, <1>2, <2>2, HitLaunch
  <2> QED BY <2>1, <2>3
<1> QED BY <1>1, <1>3, <1>4, <1>5 DEF MemoryInv

\* A step of the host threads keeps the invariant.
LEMMA ThreadStep ==
    ASSUME MemoryInv, NEW t \in Threads, StepOf(t) PROVE MemoryInv'
<1>1. TypeOK'
  <2>1. TypeOK /\ CountMatches /\ FiniteTables /\ \A u \in Threads : CallInv(u)
    BY DEF MemoryInv, ThreadInv
  <2>2. Next
    BY DEF Next, StepOf
  <2> QED BY <2>1, <2>2, StepType
<1>2. CountMatches' /\ FiniteTables' /\ EnableInv' /\ AlarmsExact'
  BY StepCount, StepEnable, StepAlarms
<1>3. (\A b \in Blocks : BlockInv(b)') /\ (\A u \in Threads : ThreadInv(u)') /\ OneCall'
  BY <1>1, StepBlocks
<1>4. \A u \in Threads : LaunchInv(u)'
  BY StepLaunch
<1> QED BY <1>1, <1>2, <1>3, <1>4 DEF MemoryInv

\* At the start nothing is allocated and nothing is known.
LEMMA InitMemory == Init => MemoryInv
<1> SUFFICES ASSUME Init PROVE MemoryInv
  OBVIOUS
<1>1. TypeOK
  BY InitType
<1>2. CountMatches /\ FiniteTables
  BY FS_EmptySet DEF Init, CountMatches, FiniteTables
<1>3. OneCall /\ EnableInv /\ AlarmsExact
  BY DEF Init, OneCall, EnableInv, AlarmsExact, AlarmsCaused, OverrunsReported
<1>4. \A b \in Blocks : BlockInv(b)
  BY DEF Init, BlockInv
<1>5. ASSUME NEW t \in Threads PROVE ThreadInv(t) /\ LaunchInv(t)
  <2>1. pc[t] = "idle" /\ ptr[t] = None /\ overran[t] = {}
    BY DEF Init
  <2> QED BY <2>1 DEF ThreadInv, CallInv, TableInv, SizeInv, LaunchInv, Asking, Allocating, Freeing
<1> QED BY <1>1, <1>2, <1>3, <1>4, <1>5 DEF MemoryInv

\* Ranges of different addresses are different entries, so the merged list is no
\* longer than the count (MergeHostMems, HostMallocH2D).
LEMMA MergedFits ==
    ASSUME CountMatches, FiniteTables, NEW d \in Devices, mallocCount[d] \in Nat
    PROVE  MergedNum(d) \in Nat /\ MergedNum(d) <= mallocCount[d]
<1> DEFINE S == memoryOpAddrInfos[d]
           addrs == {info.addr : info \in S}
           f == [info \in S |-> info.addr]
<1>1. IsFiniteSet(S) /\ mallocCount[d] = Cardinality(S)
  BY DEF CountMatches, FiniteTables
<1>2. f \in Surjection(S, addrs)
  BY DEF Surjection
<1>3. Cardinality(addrs) <= Cardinality(S) /\ IsFiniteSet(addrs)
  <2> HIDE DEF f, addrs, S
  <2> QED BY <1>1, <1>2, FS_Surjection
<1>4. Cardinality(addrs) \in Nat
  BY <1>3, FS_CardinalityType
<1>5. MergedNum(d) \in {0, mallocCount[d], Cardinality(addrs)}
  BY DEF MergedNum
<1> QED BY <1>1, <1>3, <1>4, <1>5

\* MemoryInv is an invariant: the hijacked malloc and free keep the guard table, the
\* range table and its count, the tool and the allocator in step, whatever the
\* threads do in between.
THEOREM MemoryInvariant == Spec => []MemoryInv
<1>1. MemoryInv /\ [Next]_vars => MemoryInv'
  <2> SUFFICES ASSUME MemoryInv, [Next]_vars PROVE MemoryInv'
    OBVIOUS
  <2>1. CASE UNCHANGED vars
    <3>1. UNCHANGED <<TypeOK, CountMatches, FiniteTables, OneCall, EnableInv, AlarmsExact>>
      BY <2>1 DEF vars, TypeOK, CallTypes, TableTypes, DeviceTypes, CountMatches, FiniteTables,
         OneCall,
         EnableInv, AlarmsExact, AlarmsCaused, OverrunsReported
    <3>2. \A b \in Blocks : BlockInv(b)' <=> BlockInv(b)
      BY <2>1 DEF vars, BlockInv, Lives, RecordSize
    <3>3. \A t \in Threads : ThreadInv(t)' <=> ThreadInv(t)
      BY <2>1 DEF vars, ThreadInv, CallInv, TableInv, SizeInv, RecordSize
    <3>4. \A t \in Threads : LaunchInv(t)' <=> LaunchInv(t)
      BY <2>1 DEF vars, LaunchInv, Registered
    <3> QED BY <3>1, <3>2, <3>3, <3>4 DEF MemoryInv
  <2>2. CASE \E t \in Threads : StepOf(t)
    BY <2>2, ThreadStep
  <2>3. CASE StrayOverrun
    BY <2>3, StrayStep
  <2> QED BY <2>1, <2>2, <2>3 DEF Next, StepOf
<1> QED BY <1>1, InitMemory, PTL DEF Spec

\* The guard table, the range table, mallocCount_, the tool and the allocator agree,
\* and the merged list of ranges fits in the places a launch has counted
\* (MallocProc, FreeProc, CacheMemory, MergeHostMems).
THEOREM TablesStayTogether == Spec => []TablesAgree
<1>1. MemoryInv => TablesAgree
  <2> SUFFICES ASSUME MemoryInv PROVE TablesAgree
    OBVIOUS
  <2>1. TypeOK /\ CountMatches /\ FiniteTables /\ \A b \in Blocks : BlockInv(b)
    BY DEF MemoryInv
  <2>2. KnownBlocksLive /\ OwnedBlocksKnown
    BY <2>1, BlockByBlock
  <2>3. HostTableFits
    <3> SUFFICES ASSUME NEW t \in Threads, mallocCount[dev[t]] <= hostMemoryNum[t]
                 PROVE  MergedNum(dev[t]) <= hostMemoryNum[t]
      BY DEF HostTableFits
    <3>1. dev[t] \in Devices /\ mallocCount[dev[t]] \in Nat /\ hostMemoryNum[t] \in Nat
      BY <2>1 DEF TypeOK, CallTypes, TableTypes, DeviceTypes
    <3>2. MergedNum(dev[t]) <= mallocCount[dev[t]]
      BY <2>1, <3>1, MergedFits
    <3>3. MergedNum(dev[t]) \in Nat
      BY <2>1, <3>1, MergedFits
    <3> QED BY <3>1, <3>2, <3>3
  <2> QED BY <2>1, <2>2, <2>3 DEF TablesAgree
<1> QED BY <1>1, MemoryInvariant, PTL

\* FillAllMemGuard never writes outside a live block, except behind a block whose
\* size was computed before MemoryGuard::Init was through.
THEOREM FillsStayInside == Spec => []GuardsInside
<1>1. MemoryInv => GuardsInside
  BY BlockByBlock DEF MemoryInv
<1> QED BY <1>1, MemoryInvariant, PTL

\* Every alarm of CheckAllMemGuard has a cause, and a launch reports the guards that
\* its own kernel ran over.
THEOREM AlarmsAreExact == Spec => []AlarmsExact
<1>1. MemoryInv => AlarmsExact
  BY DEF MemoryInv
<1> QED BY <1>1, MemoryInvariant, PTL
=============================================================================
