---------------------------- MODULE RecordBuffer ----------------------------
(***************************************************************************)
(* The buffer a checked launch records into: a global head, then one block *)
(* per (sub-)core.  A block is its head (a RecordBlockHead followed by the *)
(* host and the peer list), the SIMD records and, on chips with SIMT       *)
(* units, the error records of all threads, the shadow memory and the      *)
(* entry records.  SanitizerLaunchInit computes the sizes and writes the   *)
(* heads, SanitizerLaunchFinalize reads the blocks back                    *)
(* (runtime/inject_helpers/LaunchInitFinalize.cpp).  Sizes are in bytes    *)
(* unless a name says MB; an extent is [lo, hi), a record of two offsets.  *)
(* One launch of one thread; the instrumented kernel and the library's     *)
(* copies are external.                                                    *)
(***************************************************************************)
EXTENDS Integers, Sequences, FiniteSets, SequencesExt

CONSTANTS
    LaunchInputs    \* chip, configuration and sizes of the launches tried

VARIABLES
    in,         \* this launch's input
    pc,         \* where SanitizerLaunchInit / -Finalize are
    blk,        \* blockIdx of the loops
    dev,        \* memInfo (memInfoBackUp_ when reading): offset of block blk
    fill,       \* how much of its parts the kernel filled
    acc,        \* the extents of the buffer the last step wrote or read
    host        \* the extents of the host buffer the last step filled

bufVars == <<in, pc, blk, dev, fill, acc, host>>

MB_TO_BYTES == 1048576
CACHE_LINE_SIZE == 64
SIMT_THREAD_MAX_SIZE == 2048
SHADOW_MEM_MIN_BYTE_SIZE == 12 * MB_TO_BYTES
SINGLE_CHECK_OTHER_BLOCK_CACHE_SIZE == 1
MAX_RECORD_BUF_SIZE_EACH_BLOCK == 8 * 1024
MAX_RECORD_BUF_SIZE_ALL_BLOCK == 24 * 1024
C220_VEC_SUB_BLOCKDIM == 2
C220_MIX_SUB_BLOCKDIM == 3
CHECK_ALL_BLOCK == -1

\* sizeof the protocol's structures, each rounded up by StructAlignBy.
RecordGlobalHeadSize == 55424
RecordBlockHeadSize == 192
SimtRecordBlockHeadSize == 832
HostMemoryInfoSize == 24
PeerMemoryInfoSize == 24

CeilByAlign(align, v) == ((v + align - 1) \div align) * align
AlignDown(align, v) == v - (v % align)

-----------------------------------------------------------------------------
(* The shares of a block are float constants: 0.1f is 13421773 / 2^27,     *)
(* 0.3f is 5033165 / 2^24, 1 - 0.1f - 0.3f - 0.3f is 1258291 / 2^22.  A    *)
(* product is rounded to a 24 bit mantissa (to nearest, ties to even) and  *)
(* then truncated to an integer.                                           *)

\* p rounded to the nearest multiple of u, ties to the even multiple.
RoundTo(p, u) ==
    LET q == p \div u
        r == p % u
    IN u * (q + (IF 2 * r > u \/ (2 * r = u /\ q % 2 = 1) THEN 1 ELSE 0))

\* p rounded to 24 significant bits (p < 2^31).
FloatRound(p) ==
    RoundTo(p, CHOOSE u \in {2^k : k \in 0..7} : /\ p \div u < 2^24
                                                 /\ u = 1 \/ p \div u >= 2^23)

\* The three products AssignSimtVfInfo takes of mb MB: the bytes of one
\* thread's error records, the offset they start at, the shadow memory's
\* (and the entry records') size.
CacheShares(mb) ==
    [instr |-> FloatRound(mb * 13421773) \div 2^18,
     simd  |-> FloatRound(mb * 1258291) \div 2^2,
     third |-> FloatRound(mb * 5033165) \div 2^4]

-----------------------------------------------------------------------------
(* A launch's input: in.arch "plain", "c220" (a core has sub-blocks) or    *)
(* "c310" (sub-blocks and SIMT), in.cacheSize MB for a checked block,      *)
(* in.checkBlockId the one checked core or CHECK_ALL_BLOCK, in.blockDim,   *)
(* in.hostNum and in.peerNum entries of the two lists.                     *)

HasSubBlocks == in.arch \in {"c220", "c310"}
SupportSimt == in.arch = "c310"

GetRecordHeadSize ==
    CeilByAlign(CACHE_LINE_SIZE, RecordBlockHeadSize + in.hostNum * HostMemoryInfoSize
                                                     + in.peerNum * PeerMemoryInfoSize)

TotalBlockDim == IF HasSubBlocks THEN C220_MIX_SUB_BLOCKDIM * in.blockDim ELSE in.blockDim

\* AssignMemSize: the MB all blocks take together.
TotalCacheSize ==
    LET targets == IF HasSubBlocks THEN 2 ELSE 1
    IN IF in.checkBlockId = CHECK_ALL_BLOCK
       THEN in.cacheSize * TotalBlockDim
       ELSE in.cacheSize * targets
                + SINGLE_CHECK_OTHER_BLOCK_CACHE_SIZE * (TotalBlockDim - targets)

\* AssignMemSize: the limits that refuse a launch.
SizeAccepted ==
    /\ in.cacheSize # 0
    /\ in.cacheSize <= MAX_RECORD_BUF_SIZE_EACH_BLOCK
    /\ TotalCacheSize <= MAX_RECORD_BUF_SIZE_ALL_BLOCK

IsTargetBlockIdx(blockIdx) ==
    IF HasSubBlocks
    THEN \/ blockIdx = (in.checkBlockId \div C220_VEC_SUB_BLOCKDIM) * C220_MIX_SUB_BLOCKDIM
                            + (in.checkBlockId % C220_VEC_SUB_BLOCKDIM)
         \/ blockIdx = in.checkBlockId * C220_MIX_SUB_BLOCKDIM + C220_VEC_SUB_BLOCKDIM
    ELSE blockIdx = in.checkBlockId

Checked(blockIdx) == in.checkBlockId = CHECK_ALL_BLOCK \/ IsTargetBlockIdx(blockIdx)

GetBlockSize(blockIdx) ==
    GetRecordHeadSize
        + MB_TO_BYTES * (IF Checked(blockIdx) THEN in.cacheSize
                                                  ELSE SINGLE_CHECK_OTHER_BLOCK_CACHE_SIZE)

\* Process: the size of the allocation.
MemSize == TotalCacheSize * MB_TO_BYTES + RecordGlobalHeadSize
                   + TotalBlockDim * GetRecordHeadSize

NoOffsets == [offset |-> 0, size |-> 0]

\* The memory one thread's error records and head take, for all threads.
AllThreadSize(simtErrorSize) == (simtErrorSize + SimtRecordBlockHeadSize) * SIMT_THREAD_MAX_SIZE

\* The cache is too small for the heads of the SIMT threads: AssignSimtVfInfo
\* logs it and returns with all offsets still 0, and the launch goes on.
TooSmallForSimt == SupportSimt /\ CacheShares(in.cacheSize).instr < SimtRecordBlockHeadSize

\* Mutant: the shadow memory starts where the error records end without their heads.
ShadowOffsetTight(errorOffset, errorSize) ==
    AlignDown(CACHE_LINE_SIZE, errorOffset + errorSize * SIMT_THREAD_MAX_SIZE) + CACHE_LINE_SIZE

\* The shadow memory starts one cache line behind the error records.
ShadowOffset(errorOffset, errorSize) ==
    AlignDown(CACHE_LINE_SIZE, errorOffset + AllThreadSize(errorSize)) + CACHE_LINE_SIZE

\* AssignSimtVfInfo: where the SIMT parts of a block lie, from the block's
\* start.  Each part is cut down to a cache line and set apart by one.
AssignSimtVfInfo ==
    LET headSize == GetRecordHeadSize
        blockSize == in.cacheSize * MB_TO_BYTES + headSize
        share == CacheShares(in.cacheSize)
        errorSize == AlignDown(CACHE_LINE_SIZE, share.instr - SimtRecordBlockHeadSize)
        errorOffset == AlignDown(CACHE_LINE_SIZE, share.simd) + headSize
        shadow == IF share.third < SHADOW_MEM_MIN_BYTE_SIZE
                  THEN NoOffsets
                  ELSE [offset |-> ShadowOffset(errorOffset, errorSize), size |-> share.third]
        entryOffset == AlignDown(CACHE_LINE_SIZE, shadow.offset + shadow.size) + CACHE_LINE_SIZE
        entrySize == share.third - CACHE_LINE_SIZE
    IN IF ~SupportSimt \/ TooSmallForSimt
       THEN [error |-> NoOffsets, shadow |-> NoOffsets, entry |-> NoOffsets]
       ELSE [error |-> [offset |-> errorOffset, size |-> errorSize],
             shadow |-> shadow,
             entry |-> [offset |-> entryOffset,
                        size |-> IF entrySize + entryOffset >= blockSize
                                 THEN blockSize - entryOffset - CACHE_LINE_SIZE
                                 ELSE entrySize]]

-----------------------------------------------------------------------------
(* SanitizerLaunchInit.                                                    *)

Extent(start, len) == [lo |-> start, hi |-> start + len]

\* HostMallocH2D: the lists behind the block head, on SIMT chips only.
HostMallocH2D(start) ==
    IF ~SupportSimt THEN <<>>
    ELSE << Extent(start + RecordBlockHeadSize, in.hostNum * HostMemoryInfoSize),
            Extent(start + RecordBlockHeadSize + in.hostNum * HostMemoryInfoSize,
                   in.peerNum * PeerMemoryInfoSize) >>

\* SimtBlockHeadsH2D and InitSimtShadowMemoryHead: the error records and the
\* shadow memory of a checked block are cleared (the heap head written into
\* the shadow memory lies at its start).
SimtBlockHeadsH2D(start) ==
    LET offs == AssignSimtVfInfo
    IN IF ~SupportSimt \/ ~Checked(blk) THEN <<>>
       ELSE << Extent(start + offs.error.offset, AllThreadSize(offs.error.size)) >>
            \o (IF offs.shadow.size = 0 THEN <<>>
                ELSE << Extent(start + offs.shadow.offset, offs.shadow.size) >>)

\* Process: AssignGlobalHead refuses a size, or the buffer is allocated.
Process ==
    /\ pc = "start"
    /\ \/ SizeAccepted /\ pc' = "globalHead"
       \/ pc' = "refused"       \* a size out of bounds, or no memory
    /\ UNCHANGED <<in, blk, dev, fill, acc, host>>

\* BlockHeadsH2D: the global head, then one block after the other.
GlobalHeadH2D ==
    /\ pc = "globalHead"
    /\ acc' = << Extent(0, RecordGlobalHeadSize) >>
    /\ dev' = RecordGlobalHeadSize
    /\ blk' = 0
    /\ pc' = "heads"
    /\ UNCHANGED <<in, fill, host>>

BlockHeadsH2D ==
    /\ pc = "heads"
    /\ blk < TotalBlockDim
    /\ acc' = << Extent(dev, RecordBlockHeadSize) >> \o HostMallocH2D(dev) \o SimtBlockHeadsH2D(dev)
    /\ dev' = dev + GetBlockSize(blk)
    /\ blk' = blk + 1
    /\ UNCHANGED <<in, pc, fill, host>>

\* A copy to the device fails: the buffer is freed, the launch goes unchecked.
CopyFails ==
    /\ pc \in {"globalHead", "heads"}
    /\ pc' = "refused"
    /\ UNCHANGED <<in, blk, dev, fill, acc, host>>

-----------------------------------------------------------------------------
(* The kernel (external): by the offsets in the head it writes SIMD        *)
(* records up to the error records or the end of its block, and entry      *)
(* records of a checked block where the shadow memory is on.               *)

SimdRoom(b) == IF SupportSimt /\ Checked(b)
               THEN AssignSimtVfInfo.error.offset - GetRecordHeadSize
               ELSE GetBlockSize(b) - GetRecordHeadSize
EntryRoom(b) == IF SupportSimt /\ Checked(b) /\ AssignSimtVfInfo.shadow.size # 0
                THEN AssignSimtVfInfo.entry.size ELSE 0

KernelRuns(f) ==
    /\ pc = "heads"
    /\ blk = TotalBlockDim
    /\ fill' = f
    /\ acc' = <<>>
    /\ pc' = "finalize"
    /\ UNCHANGED <<in, blk, dev, host>>

-----------------------------------------------------------------------------
(* SanitizerLaunchFinalize: one host buffer of blockSize_ bytes is reused  *)
(* for every block; the global head stays at its start.                    *)

BlockSize_ == in.cacheSize * MB_TO_BYTES + RecordGlobalHeadSize + RecordBlockHeadSize

\* GlobalHeadD2H, RegistersD2H, and DumpMemoryInfo, which copies the whole
\* head of block 0 behind the global head when it fits what is left.
GlobalHeadD2H ==
    LET left == BlockSize_ - RecordGlobalHeadSize
        head == IF in.hostNum # 0 /\ GetRecordHeadSize <= left
                THEN GetRecordHeadSize ELSE RecordBlockHeadSize
    IN /\ pc = "finalize"
       /\ blk' = 0
       /\ dev' = RecordGlobalHeadSize
       /\ acc' = << Extent(0, RecordGlobalHeadSize) >>
                 \o (IF SupportSimt THEN << Extent(RecordGlobalHeadSize, head) >> ELSE <<>>)
       /\ host' = acc'
       /\ pc' = "report"
       /\ UNCHANGED <<in, fill>>

\* What ReportBlockInfo copies of block blk: its head (BlockHeadD2H), what
\* there is of SIMD records (SimdRecordD2H), and of a checked block the error
\* records (SimtErrorD2H) and what there is of entries (SimtEntryD2H).
BlockReads ==
    LET offs == AssignSimtVfInfo
    IN << Extent(dev, RecordBlockHeadSize) >>
       \o (IF fill.simd THEN << Extent(dev + GetRecordHeadSize, SimdRoom(blk)) >> ELSE <<>>)
       \o (IF SupportSimt /\ Checked(blk)
           THEN << Extent(dev + offs.error.offset, AllThreadSize(offs.error.size)) >>
                \o (IF fill.entry /\ EntryRoom(blk) # 0
                    THEN << Extent(dev + offs.entry.offset, EntryRoom(blk)) >> ELSE <<>>)
           ELSE <<>>)

\* UpdateOffsetStatus: the copies follow one another in the host buffer.
Packed(reads) ==
    FoldLeft(LAMBDA es, e : Append(es, Extent(Last(es).hi, e.hi - e.lo)),
             << Extent(0, RecordGlobalHeadSize) >>, reads)

\* One turn of ReportBlockInfo's loop, SendKernelBlock and ResetOffsetStatus.
ReportBlock ==
    /\ pc = "report"
    /\ blk < TotalBlockDim
    /\ acc' = BlockReads
    /\ host' = Packed(acc')
    /\ dev' = dev + GetBlockSize(blk)
    /\ blk' = blk + 1
    /\ UNCHANGED <<in, pc, fill>>

\* All blocks are reported, or a copy back failed and the rest is not.
ReportEnds ==
    /\ pc = "report"
    /\ pc' = "reported"
    /\ UNCHANGED <<in, blk, dev, fill, acc, host>>

-----------------------------------------------------------------------------
Fills == [simd : BOOLEAN, entry : BOOLEAN]

Init ==
    /\ in \in LaunchInputs
    /\ pc = "start" /\ blk = 0 /\ dev = 0
    /\ fill = [simd |-> FALSE, entry |-> FALSE]
    /\ acc = <<>> /\ host = <<>>

Next ==
    \/ Process
    \/ GlobalHeadH2D
    \/ BlockHeadsH2D
    \/ CopyFails
    \/ \E f \in Fills : KernelRuns(f)
    \/ GlobalHeadD2H
    \/ ReportBlock
    \/ ReportEnds

-----------------------------------------------------------------------------
(* Properties.  Exception: on SIMT chips a cache below 17 MB leaves all    *)
(* offsets 0 (TooSmallForSimt), the launch is accepted all the same, and   *)
(* clearing the error records wipes the heads and may leave the block.     *)

Overlap(a, b) == a.lo < b.hi /\ b.lo < a.hi /\ a.lo < a.hi /\ b.lo < b.hi

\* The block the last step of a loop worked on.
LastBlock == [lo |-> dev - GetBlockSize(blk - 1), hi |-> dev]

\* What the kernel may write of a block: its parts, by the offsets it is told.
KernelParts(b, start) ==
    << Extent(start + GetRecordHeadSize, SimdRoom(b)) >>
    \o (IF EntryRoom(b) = 0 THEN <<>>
        ELSE << Extent(start + AssignSimtVfInfo.entry.offset, EntryRoom(b)) >>)

\* Laying out a block: what is written at init and what the kernel may write
\* later lie inside that block, apart from each other, so no part's records,
\* heads or lists are lost to another's, for every accepted size.
PartsApart ==
    (pc = "heads" /\ blk > 0 /\ ~TooSmallForSimt) =>
        LET parts == acc \o KernelParts(blk - 1, LastBlock.lo)
        IN \A i \in DOMAIN parts :
              /\ LastBlock.lo <= parts[i].lo /\ parts[i].hi <= LastBlock.hi
              /\ \A j \in DOMAIN parts : i < j => ~Overlap(parts[i], parts[j])

\* The blocks end with the allocation: no head is written past it, with one
\* checked core as with all, on chips with sub-blocks as without.
BlocksFillBuffer ==
    /\ pc \in {"heads", "report"} => dev <= MemSize
    /\ (pc = "finalize" /\ in.checkBlockId = CHECK_ALL_BLOCK) => dev = MemSize

\* Reading back: every copy comes from inside its own block (its head at the
\* front) and the host buffer, the same for all blocks, holds all of them.
ReadsFit ==
    (pc = "report" /\ ~TooSmallForSimt) =>
        /\ \A i \in DOMAIN host : host[i].hi <= BlockSize_
        /\ blk > 0 => /\ acc[1].lo = LastBlock.lo
                      /\ \A i \in DOMAIN acc : LastBlock.lo <= acc[i].lo /\ acc[i].hi <= LastBlock.hi

\* Blocks, and what is copied back from them, stay inside device and host buffer.
BlocksFit == BlocksFillBuffer /\ ReadsFit
=============================================================================
