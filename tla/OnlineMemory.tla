---------------------------- MODULE OnlineMemory ----------------------------
(***************************************************************************)
(* The memory a checked kernel may touch, as the host collects it: the     *)
(* application's allocations and what it declares of them through mstx     *)
(* (heaps a pool carves out of an allocation, the regions it hands out of  *)
(* a heap, their permissions).  MsTx keeps the handles under mstxAttrMutex_*)
(* (MsTx.cpp), MemoryManage the table of one device under memoryMutex_     *)
(* (MemoryDataCollect.cpp), and the mstx functions of BindSanitizer.cpp    *)
(* update one after the other and then, under neither lock, tell the tool. *)
(* Two threads interleave between these steps.  One device; a handle is    *)
(* named by what it was registered for, since the application registers    *)
(* nothing twice.                                                          *)
(***************************************************************************)
EXTENDS Integers, Sequences, FiniteSets, FiniteSetsExt, SequencesExt

CONSTANTS
    Threads,        \* host threads of the application
    Allocs,         \* allocations it makes: records [addr, len]
    HeapDescs,      \* heaps it declares: records [addr, len], len 0 included
    RegionDescs,    \* regions it declares: records [addr, len]
    Domains,        \* mstx domains besides the global one
    Global,         \* the null domain
    NoHeap,         \* the null heap of a region batch
    Batches,        \* the regions of one call, as the application lists them
    ExtraInputs,    \* inputs of an operator the framework describes
    MaxCount        \* bound: what a launch may raise the counter to

ASSUME OnlineMemoryAssumption ==
    /\ \A d \in Allocs \cup RegionDescs : d.addr \in Nat \ {0} /\ d.len \in Nat \ {0}
    /\ \A d \in HeapDescs : d.addr \in Nat \ {0} /\ d.len \in Nat
    /\ Global \notin Domains
    /\ \A b \in Batches : b \in Seq(RegionDescs) \ {<<>>} /\ IsInjective(b)
    /\ ExtraInputs \in Nat \ {0} /\ MaxCount \in Nat

VARIABLES
    live,       \* allocations the application holds
    domains,    \* mstxDomain2NameMap_: the domains created
    heaps,      \* mstxDomainMemHeapDescMap_: pairs <<domain, desc>>
    regions,    \* mstxRegionRangeDescMap_: the region handles alive
    regionDoms, \* mstxDomainRegionsMap_: the domains with an entry
    table,      \* memoryOpAddrInfos_: records [addr, len, src, perm]
    count,      \* mallocCount_
    told,       \* blocks, heaps and regions the tool knows of: [addr, len, src]
    perms,      \* the permission last assigned to a region, as the tool knows it
    call,       \* per thread: what its call has still to cache and to tell
    raced       \* history: regions whose last assignment another call overlapped

app == <<live, domains, heaps, regions, regionDoms>>    \* what calls register
tables == <<table, count>>                              \* MemoryManage
tool == <<told, perms>>                                 \* what was told
memVars == <<app, tables, tool, call, raced>>

Permissions == {"default", "readonly"}

\* A call with the blocks, heaps or regions it passes on, in order; half says
\* that the table has the first of them and the tool does not.
Doing(op, todo) ==
    [op |-> op, todo |-> todo, half |-> FALSE, heap |-> NoHeap, perm |-> "default"]
Idle == Doing("idle", <<>>)

\* What calls still have to pass on.
Pending == UNION {Range(call[t].todo) : t \in Threads}

\* What they still have to register or give back.
Moving == UNION {Range(call[t].todo) : t \in {u \in Threads : call[u].op # "assign"}}

-----------------------------------------------------------------------------
(* Address ranges.                                                         *)

Bytes(r) == r.addr .. (r.addr + r.len - 1)
Disjoint(a, b) == Bytes(a) \cap Bytes(b) = {}
Within(a, b) == a.addr >= b.addr /\ a.addr + a.len <= b.addr + b.len

\* The elements of S in the order Less, a strict total order on S.
Sorted(S, Less(_, _)) ==
    [i \in 1..Cardinality(S) |->
        CHOOSE x \in S : Cardinality({y \in S : Less(y, x)}) = i - 1]

-----------------------------------------------------------------------------
(* MemoryManage.                                                           *)

\* The order of std::set<AddrInfo>: address, length, source.
SrcNo(src) == CHOOSE n \in 1..5 : <<"RT", "ACL", "EXTRA", "MSTX_HEAP", "MSTX_REGION">>[n] = src
KeyLess(a, b) ==
    \/ a.addr < b.addr
    \/ a.addr = b.addr /\ a.len < b.len
    \/ a.addr = b.addr /\ a.len = b.len /\ SrcNo(a.src) < SrcNo(b.src)
SameKey(a, b) == a.addr = b.addr /\ a.len = b.len /\ a.src = b.src

IsSameMemInfoSrc(l, r) == l = r \/ {l, r} \subseteq {"ACL", "RT"}

\* CacheMemory<MALLOC>: an entry with the same key stays as it is, the
\* counter grows all the same.
Insert(tab, d, src) ==
    IF \E e \in tab : SameKey(e, [addr |-> d.addr, len |-> d.len, src |-> src])
    THEN tab
    ELSE tab \cup {[addr |-> d.addr, len |-> d.len, src |-> src, perm |-> "default"]}

\* CacheMemory<FREE>: the entries the search may find, in set order.
FreeMatches(tab, addr, src) ==
    {e \in tab : e.addr = addr /\ IsSameMemInfoSrc(e.src, src)}

\* Mutant: the first entry at the address goes, whatever its source.
EraseAnySource(tab, addr, src) ==
    LET found == {e \in tab : e.addr = addr}
    IN IF found = {} THEN tab
       ELSE tab \ {CHOOSE e \in found : \A o \in found \ {e} : KeyLess(e, o)}

\* CacheMemory<FREE>: the first match is erased.
Erase(tab, addr, src) ==
    LET found == FreeMatches(tab, addr, src)
    IN IF found = {} THEN tab
       ELSE tab \ {CHOOSE e \in found : \A o \in found \ {e} : KeyLess(e, o)}

\* SetPermission: the entries with exactly this range get the permission.
SetPermission(tab, d, perm) ==
    {IF e.addr = d.addr /\ e.len = d.len THEN [e EXCEPT !.perm = perm] ELSE e : e \in tab}

Range3(addr, len, perm) == [addr |-> addr, len |-> len, perm |-> perm]

\* Mutant: what lies behind the heap is dropped.
ProcessMstxHeapMemLeft(cache, h) ==
    LET around == {c \in cache : Within(h, c)}
    IN IF around = {} THEN cache
       ELSE LET c == CHOOSE c \in around : \A o \in around \ {c} : c.addr < o.addr
            IN (cache \ {c}) \cup {r \in {Range3(c.addr, h.addr - c.addr, h.perm)} : r.len > 0}

\* ProcessMstxHeapMem: the heap is cut out of the allocation around it.
ProcessMstxHeapMem(cache, h) ==
    LET around == {c \in cache : Within(h, c)}
    IN IF around = {} THEN cache
       ELSE LET c == CHOOSE c \in around : \A o \in around \ {c} : c.addr < o.addr
                left == Range3(c.addr, h.addr - c.addr, h.perm)
                right == Range3(h.addr + h.len, (c.addr + c.len) - (h.addr + h.len), h.perm)
            IN (cache \ {c}) \cup {r \in {left, right} : r.len > 0}

\* ExtractValidMems: in table order, allocations are collected, heaps cut
\* out of those collected so far, regions taken as they are; with operator
\* information (EXTRA) nothing but that is taken, and entries of length 0
\* are passed over.
ExtractValidMems(tab) ==
    LET entries == Sorted({e \in tab : e.len # 0}, KeyLess)
        step(acc, e) ==
            CASE e.src \in {"ACL", "RT"} ->
                    [acc EXCEPT !.cache = @ \cup {Range3(e.addr, e.len, e.perm)}]
              [] e.src = "MSTX_HEAP" -> [acc EXCEPT !.cache = ProcessMstxHeapMem(@, e)]
              [] OTHER -> [acc EXCEPT !.ranges = @ \cup {Range3(e.addr, e.len, e.perm)}]
        all == FoldLeft(step, [ranges |-> {}, cache |-> {}], entries)
    IN IF \E e \in tab : e.src = "EXTRA"
       THEN {Range3(e.addr, e.len, e.perm) : e \in {x \in tab : x.src = "EXTRA" /\ x.len # 0}}
       ELSE all.ranges \cup all.cache

\* By address; ranges with the same address in a fixed order (std::sort
\* leaves it open, and their union does not depend on it).
RangeLess(a, b) ==
    \/ a.addr < b.addr
    \/ a.addr = b.addr /\ a.len < b.len
    \/ a.addr = b.addr /\ a.len = b.len /\ a.perm = "default" /\ b.perm # "default"

\* MergeHostMems: the ranges by address, those that touch made one.
Merged(tab) ==
    LET sorted == Sorted(ExtractValidMems(tab), RangeLess)
        step(acc, r) ==
            IF acc = <<>> \/ r.addr > Last(acc).addr + Last(acc).len
            THEN Append(acc, r)
            ELSE [acc EXCEPT ![Len(acc)].len =
                     Max({Last(acc).addr + Last(acc).len, r.addr + r.len}) - Last(acc).addr]
    IN FoldLeft(step, <<>>, sorted)

\* MergeHostMems: the list is filled up to mallocCount_ with empty entries.
MergeHostMems(tab, n) ==
    IF tab = {} \/ n = 0 THEN <<>>
    ELSE LET m == Merged(tab)
         IN m \o [i \in 1..(IF n > Len(m) THEN n - Len(m) ELSE 0) |-> Range3(0, 0, "default")]

\* UpdateMemoryOp: empty entries go and the counter follows the table.
UpdateMemoryOp(tab) == {e \in tab : e.addr # 0 /\ e.len # 0}

-----------------------------------------------------------------------------
(* Telling the tool.                                                       *)

Block(d, src) == [addr |-> d.addr, len |-> d.len, src |-> src]

TellMalloc(b) == told' = told \cup {b}

\* The record of an end carries the address only.
TellFree(b) == told' = {o \in told : o.addr # b.addr \/ o.src # b.src}

-----------------------------------------------------------------------------
(* The application's allocations (the malloc and free hooks cache them).   *)

\* The library has handed out block a, which nobody holds or is giving back.
Malloc(t, a) ==
    /\ call[t] = Idle
    /\ \A b \in live \cup Pending : Disjoint(a, b)
    /\ call' = [call EXCEPT ![t] = Doing("malloc", <<a>>)]
    /\ UNCHANGED <<app, tables, tool, raced>>

\* The application gives up a block that no mstx object, registered or being
\* (un)registered, lies in; the library has it back when the hook has told it.
Free(t, a) ==
    /\ call[t] = Idle /\ a \in live
    /\ \A o \in {h[2] : h \in heaps} \cup regions \cup Pending : Disjoint(o, a)
    /\ live' = live \ {a}
    /\ call' = [call EXCEPT ![t] = Doing("free", <<a>>)]
    /\ UNCHANGED <<domains, heaps, regions, regionDoms, tables, tool, raced>>

-----------------------------------------------------------------------------
(* mstx: the MsTx part of each call, one step under mstxAttrMutex_.        *)

IsDomainExist(dom) == dom = Global \/ dom \in domains

MstxDomainCreateA(t, dom) ==
    /\ call[t] = Idle
    /\ domains' = domains \cup {dom}
    /\ UNCHANGED <<live, heaps, regions, regionDoms, tables, tool, call, raced>>

\* A pool declares a heap inside an allocation it holds, apart from the
\* other heaps; one of length 0 is a mistake the code handles.
MstxMemHeapRegister(t, dom, d) ==
    /\ call[t] = Idle
    /\ \E a \in live : Within(d, a)
    /\ \A h \in heaps : h[2] # d /\ Disjoint(h[2], d)
    /\ \A o \in Pending \cup regions : Disjoint(o, d)
    /\ IsDomainExist(dom)
    /\ heaps' = heaps \cup {<<dom, d>>}
    /\ call' = [call EXCEPT ![t] = IF d.len = 0 THEN Idle ELSE Doing("heapIn", <<d>>)]
    /\ UNCHANGED <<live, domains, regions, regionDoms, tables, tool, raced>>

\* The handle is looked up by domain and heap; a heap of another domain is
\* not found and the call has no effect.
MstxMemHeapUnregister(t, dom, d) ==
    /\ call[t] = Idle
    /\ <<dom, d>> \in heaps /\ IsDomainExist(dom)
    /\ d \notin Pending
    /\ heaps' = heaps \ {<<dom, d>>}
    /\ call' = [call EXCEPT ![t] = Doing("heapOut", <<d>>)]
    /\ UNCHANGED <<live, domains, regions, regionDoms, tables, tool, raced>>

\* The application hands out regions inside allocations, apart from those
\* still in use; heap is a heap of the domain or none.
MstxMemRegionsRegister(t, dom, heap, batch) ==
    /\ call[t] = Idle
    /\ \A i \in DOMAIN batch :
          /\ \E a \in live : Within(batch[i], a)
          /\ \A r \in regions : Disjoint(r, batch[i])
          /\ \A j \in DOMAIN batch \ {i} : Disjoint(batch[i], batch[j])
          /\ \A u \in Threads : call[u].op \notin {"heapIn", "heapOut"} =>
                \A o \in Range(call[u].todo) : Disjoint(o, batch[i])
    /\ IsDomainExist(dom)
    /\ heap # NoHeap => <<dom, heap>> \in heaps /\ heap \notin Pending
    /\ regions' = regions \cup Range(batch)
    /\ regionDoms' = regionDoms \cup {dom}
    /\ call' = [call EXCEPT ![t] = [Doing("regionIn", batch) EXCEPT !.heap = heap]]
    /\ raced' = raced \ Range(batch)
    /\ UNCHANGED <<live, domains, heaps, tables, tool>>

\* Regions given back by handle.  A handle that is not registered is passed
\* over; nothing happens for a domain without an entry.
MstxMemRegionsUnregister(t, dom, batch) ==
    /\ call[t] = Idle
    /\ IsDomainExist(dom) /\ dom \in regionDoms
    /\ Range(batch) \cap Moving = {}
    /\ \E i \in DOMAIN batch : batch[i] \in regions
    /\ regions' = regions \ Range(batch)
    /\ call' = [call EXCEPT ![t] =
                   Doing("regionOut", SelectSeq(batch, LAMBDA d : d \in regions))]
    /\ raced' = raced \cup (Range(batch) \cap Pending)
    /\ UNCHANGED <<live, domains, heaps, regionDoms, tables, tool>>

\* A region given back by its pointer: the handle stays in MsTx, the table
\* and the tool forget the range.
UnregisterByPointer(t, dom, d) ==
    /\ call[t] = Idle
    /\ IsDomainExist(dom) /\ dom \in regionDoms
    /\ Block(d, "MSTX_REGION") \in told
    /\ d \notin Moving
    /\ call' = [call EXCEPT ![t] = Doing("regionOut", <<d>>)]
    /\ raced' = raced \cup ({d} \cap Pending)
    /\ UNCHANGED <<app, tables, tool>>

\* The permission of registered regions: all of them are looked up first, and a
\* handle that is not registered fails the call.  Nothing keeps another call from
\* giving a region back, or assigning it too, before this one is done; only a
\* handle that its registration has not yet handed out cannot be used.
MstxMemPermissionsAssign(t, dom, batch, perm) ==
    /\ call[t] = Idle
    /\ IsDomainExist(dom) /\ dom \in regionDoms
    /\ Range(batch) \subseteq regions
    /\ \A u \in Threads : call[u].op = "regionIn" => Range(batch) \cap Range(call[u].todo) = {}
    /\ call' = [call EXCEPT ![t] = [Doing("assign", batch) EXCEPT !.perm = perm]]
    /\ raced' = (raced \ Range(batch)) \cup (Range(batch) \cap Pending)
    /\ UNCHANGED <<app, tables, tool>>

-----------------------------------------------------------------------------
(* What follows in each call, per block, heap or region: a step under      *)
(* memoryMutex_ and a step that tells the tool (Notify).                   *)

Source(c) ==
    CASE c.op \in {"malloc", "free"} -> "ACL"
      [] c.op \in {"heapIn", "heapOut"} -> "MSTX_HEAP"
      [] c.op \in {"regionIn", "regionOut"} -> "MSTX_REGION"

\* A region declared for a heap it does not lie in is reported as an error
\* and kept out of the table.
Accepted(c, d) == c.op # "regionIn" \/ c.heap = NoHeap \/ Within(d, c.heap)

\* The table has the call's next item; the tool is told of it next.
Half(t) == call' = [call EXCEPT ![t].half = TRUE]

\* The call's next item, or its end.
Advance(t) ==
    call' = [call EXCEPT ![t] = IF Len(@.todo) = 1 THEN Idle
                                ELSE [@ EXCEPT !.todo = Tail(@), !.half = FALSE]]

CanCache(t, ops) == call[t].op \in ops /\ ~call[t].half
CanTell(t, ops) == call[t].op \in ops /\ call[t].half

\* Mutant: the heap is not counted.
CacheDeclaredUncounted(t) ==
    /\ CanCache(t, {"malloc", "heapIn", "regionIn"})
    /\ LET c == call[t]
           d == Head(c.todo)
       IN IF Accepted(c, d)
          THEN /\ table' = Insert(table, d, Source(c))
               /\ count' = IF c.op = "heapIn" THEN count ELSE count + 1
               /\ Half(t)
          ELSE Advance(t) /\ UNCHANGED tables
    /\ UNCHANGED <<app, tool, raced>>

\* CacheMemory<MALLOC>.
CacheDeclared(t) ==
    /\ CanCache(t, {"malloc", "heapIn", "regionIn"})
    /\ LET c == call[t]
           d == Head(c.todo)
       IN IF Accepted(c, d)
          THEN /\ table' = Insert(table, d, Source(c))
               /\ count' = count + 1
               /\ Half(t)
          ELSE Advance(t) /\ UNCHANGED tables
    /\ UNCHANGED <<app, tool, raced>>

\* The record of a block, heap or region; the application holds an allocation
\* once its hook returns.
TellDeclared(t) ==
    /\ CanTell(t, {"malloc", "heapIn", "regionIn"})
    /\ LET c == call[t]
           d == Head(c.todo)
       IN /\ TellMalloc(Block(d, Source(c)))
          /\ perms' = IF c.op = "regionIn" THEN [perms EXCEPT ![d] = "default"] ELSE perms
          /\ live' = IF c.op = "malloc" THEN live \cup {d} ELSE live
    /\ Advance(t)
    /\ UNCHANGED <<domains, heaps, regions, regionDoms, tables, raced>>

\* CacheMemory<FREE>.
CacheReturned(t) ==
    /\ CanCache(t, {"free", "heapOut", "regionOut"})
    /\ table' = Erase(table, Head(call[t].todo).addr, Source(call[t]))
    /\ count' = IF table' = table THEN count ELSE count - 1
    /\ Half(t)
    /\ UNCHANGED <<app, tool, raced>>

\* The record of an end.
TellReturned(t) ==
    /\ CanTell(t, {"free", "heapOut", "regionOut"})
    /\ TellFree(Block(Head(call[t].todo), Source(call[t])))
    /\ Advance(t)
    /\ UNCHANGED <<app, tables, perms, raced>>

\* SetPermission of the next region.
CachePermission(t) ==
    /\ CanCache(t, {"assign"})
    /\ table' = SetPermission(table, Head(call[t].todo), call[t].perm)
    /\ Half(t)
    /\ UNCHANGED <<app, count, tool, raced>>

\* The record of a permission.
TellPermission(t) ==
    /\ CanTell(t, {"assign"})
    /\ perms' = [perms EXCEPT ![Head(call[t].todo)] = call[t].perm]
    /\ Advance(t)
    /\ UNCHANGED <<app, tables, told, raced>>

-----------------------------------------------------------------------------
(* A launch whose operator the framework describes (the rtKernelLaunch     *)
(* hooks): entries for its inputs and its tiling are counted ahead, and an *)
(* empty entry makes ExtractValidMems leave the allocations out; at the    *)
(* end UpdateMemoryOp sets the counter from the table.                     *)

\* CacheMemoryCount.
LaunchWithInfo(t) ==
    /\ call[t] = Idle
    /\ count + ExtraInputs + 1 <= MaxCount
    /\ count' = count + ExtraInputs + 1
    /\ call' = [call EXCEPT ![t] = Doing("launch", <<>>)]
    /\ UNCHANGED <<app, table, tool, raced>>

\* CacheMemory<MALLOC> of the empty entry, which is not counted.
CacheExtra(t) ==
    /\ CanCache(t, {"launch"})
    /\ table' = Insert(table, [addr |-> 0, len |-> 0], "EXTRA")
    /\ Half(t)
    /\ UNCHANGED <<app, count, tool, raced>>

\* UpdateMemoryOp, when the checked kernel is done.
LaunchInfoEnds(t) ==
    /\ CanTell(t, {"launch"})
    /\ table' = UpdateMemoryOp(table)
    /\ count' = Cardinality(table')
    /\ call' = [call EXCEPT ![t] = Idle]
    /\ UNCHANGED <<app, tool, raced>>

\* No buffer could be prepared: nothing is checked, and what was counted stays
\* until another launch ends.
LaunchInfoStays(t) ==
    /\ CanTell(t, {"launch"})
    /\ call' = [call EXCEPT ![t] = Idle]
    /\ UNCHANGED <<app, tables, tool, raced>>

Init ==
    /\ live = {} /\ domains = {} /\ heaps = {} /\ regions = {} /\ regionDoms = {}
    /\ table = {} /\ count = 0
    /\ told = {}
    /\ perms = [d \in RegionDescs |-> "default"]
    /\ call = [t \in Threads |-> Idle]
    /\ raced = {}

Next ==
    \E t \in Threads :
        \/ \E a \in Allocs : Malloc(t, a) \/ Free(t, a)
        \/ \E dom \in Domains : MstxDomainCreateA(t, dom)
        \/ \E dom \in Domains \cup {Global}, d \in HeapDescs :
              MstxMemHeapRegister(t, dom, d) \/ MstxMemHeapUnregister(t, dom, d)
        \/ \E dom \in Domains \cup {Global}, heap \in HeapDescs \cup {NoHeap}, b \in Batches :
              MstxMemRegionsRegister(t, dom, heap, b)
        \/ \E dom \in Domains \cup {Global}, b \in Batches : MstxMemRegionsUnregister(t, dom, b)
        \/ \E dom \in Domains \cup {Global}, d \in RegionDescs : UnregisterByPointer(t, dom, d)
        \/ \E dom \in Domains \cup {Global}, b \in Batches, p \in Permissions :
              MstxMemPermissionsAssign(t, dom, b, p)
        \/ CacheDeclared(t) \/ TellDeclared(t)
        \/ CacheReturned(t) \/ TellReturned(t)
        \/ CachePermission(t) \/ TellPermission(t)
        \/ LaunchWithInfo(t) \/ CacheExtra(t) \/ LaunchInfoEnds(t)
        \/ LaunchInfoStays(t)

Spec == Init /\ [][Next]_memVars

-----------------------------------------------------------------------------
(* Properties.                                                             *)

\* No call has anything left to cache or to tell.
Quiet == \A t \in Threads : call[t].todo = <<>>

\* A heap that starts where its allocation starts and is shorter sorts
\* before the allocation, so ExtractValidMems finds nothing to cut it from.
HeapAtBase == \E h \in heaps, a \in live : h[2].addr = a.addr /\ h[2].len < a.len /\ h[2].len # 0

\* Regions with a handle that the table does not hold: kept out because they
\* leave the heap they were declared for, or given back by pointer.
Outside == {r \in regions : Block(r, "MSTX_REGION") \notin told}

\* The bytes a kernel may touch: those of a region, and those of an
\* allocation that no heap takes out.
ValidBytes ==
    UNION {Bytes(r) : r \in regions \ Outside}
        \cup (UNION {Bytes(a) : a \in live} \ UNION {Bytes(h[2]) : h \in heaps})

\* The list the kernel checks addresses with covers exactly the bytes the
\* application may use: MergeHostMems loses nothing and admits nothing of
\* what calls registered in any order, with the named exception.
RangesExact ==
    (Quiet /\ ~HeapAtBase /\ ~\E e \in table : e.src = "EXTRA") =>
        UNION {Bytes(r) : r \in Range(MergeHostMems(table, count))} = ValidBytes

\* The list has as many entries as were counted for it: the block head is sized
\* by mallocCount_, the list is copied behind it and the kernel walks over all.
\* A launch counts its operator's entries before it makes the empty one; with no
\* memory in the table the list is empty in between, whatever was counted.
EntriesFit ==
    (table = {} => \A t \in Threads : call[t].op # "launch" \/ call[t].half) =>
        Len(MergeHostMems(table, count)) = count

\* Once no call is half way, the tool and the table know the same blocks, heaps
\* and regions, however the table steps and the records of two threads alternate.
\* They also know the same permission of a region, unless another call overlapped
\* the last assignment to it: the table is set under memoryMutex_ and the record
\* sent under no lock, so two assignments may reach them in different orders.
ToolAgrees ==
    Quiet => /\ told = {Block(e, e.src) : e \in {x \in table : x.src # "EXTRA"}}
             /\ \A e \in table : e.src = "MSTX_REGION" =>
                   LET d == [addr |-> e.addr, len |-> e.len]
                   IN e.perm = perms[d] \/ d \in raced
=============================================================================
