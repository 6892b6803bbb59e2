----------------------------- MODULE PackedArgs -----------------------------
(***************************************************************************)
(* How a launch hook adds one argument, the address of a record buffer, to *)
(* the arguments the application packed for a kernel.  A block of          *)
(* arguments is a header (the parameters the kernel reads at fixed         *)
(* offsets; a placeholder is a pointer the runtime fills with the address  *)
(* of data kept further back in the same block) followed by that data.     *)
(* The five interfaces pack differently: "host" and "device" are           *)
(* ArgsRawContext, "array" is ArgsArrayContext, "ex" and "flat" the        *)
(* rtArgsEx_t and plain blocks of LaunchArgs.cpp.  The unit is four bytes; *)
(* a cell says which unit of the application's block it holds.  Contexts   *)
(* are values here: Clone gives the copy buffers of its own.               *)
(***************************************************************************)
EXTENDS Integers, Sequences, FiniteSets

CONSTANTS
    Forms,      \* the blocks of arguments the application may pass
    MaxRuns,    \* instrumented runs of one launch
    MaxAll      \* MAX_ALL_PARAM_SIZE

VARIABLES
    form,       \* what the application passed
    ctx,        \* the launch's ArgsContext (the application's block for "ex", "flat")
    runs,       \* instrumented runs prepared
    sent        \* the last instrumented run: what the kernel was given

Ptr == 2
ALIGN_SIZE == 2
NoArgs == [ok |-> FALSE]

GetAlignSize(s) == ((s + ALIGN_SIZE - 1) \div ALIGN_SIZE) * ALIGN_SIZE

Zeros(n) == [i \in 1..n |-> <<"zero", 0>>]
RecPtr(rec) == << <<"low", rec>>, <<"high", rec>> >>
AppCells(n) == [i \in 1..n |-> <<"app", i>>]
Cells(s, at, n) == SubSeq(s, at + 1, at + n)
Spliced(s, at, x) == SubSeq(s, 1, at) \o x \o SubSeq(s, at + 1, Len(s))
Overwritten(s, at, x) == SubSeq(s, 1, at) \o x \o SubSeq(s, at + Len(x) + 1, Len(s))
Padded(s) == s \o Zeros(GetAlignSize(Len(s)) - Len(s))

-----------------------------------------------------------------------------
(* A block f of the application: f.api, f.size, f.params its parameters    *)
(* (off, len), f.holders its placeholders (addr a parameter, data and len  *)
(* what it points to).  f.overflow: the chip adds a pointer after the last *)
(* placeholder.  f.tiling: the last placeholder is named as the tiling.    *)
(* f.stub: a statically instrumented kernel, which reads its record        *)
(* pointer at f.reads; f.declared is the size of its parameters with that  *)
(* pointer (0: not known) and f.table says whether the runtime lists them. *)
(* The block may have a slot for the pointer (f.slot) or not.              *)

\* placeHolderArray: what the library is told of the placeholders.
PlaceHolderArray(f) ==
    [i \in DOMAIN f.holders |-> [addr |-> f.holders[i].addr, data |-> f.holders[i].data]]

LastAddrOffset(ph) ==
    (CHOOSE p \in {ph[i] : i \in DOMAIN ph} : \A i \in DOMAIN ph : ph[i].addr <= p.addr).addr

\* Mutant: the overflow pointer is forgotten where parameters are counted.
AfterHoldersOnly(f, ph) == LastAddrOffset(ph) + Ptr

\* Behind the last placeholder's pointer and the overflow pointer.
AfterHolders(f, ph) == LastAddrOffset(ph) + Ptr + (IF f.overflow THEN Ptr ELSE 0)

\* Data at or behind an insertion moves with it.
Shifted(ph, from) ==
    [i \in DOMAIN ph |->
        [ph[i] EXCEPT !.data = IF @ >= from THEN @ + Ptr ELSE @]]

-----------------------------------------------------------------------------
(* ArgsRawContext: [args, ph].                                             *)

RawContext(f) == [args |-> AppCells(f.size), ph |-> PlaceHolderArray(f)]

InsertParam(c, at, moveFrom, rec) ==
    IF Len(c.args) > MaxAll THEN NoArgs
    ELSE [ok |-> TRUE, at |-> at, args |-> Spliced(Padded(c.args), at, RecPtr(rec)),
          ph |-> Shifted(c.ph, moveFrom)]

LastParamOffsetRaw(f, c) ==
    IF Len(c.args) > MaxAll THEN 0
    ELSE IF c.ph = <<>> THEN GetAlignSize(Len(c.args)) ELSE AfterHolders(f, c.ph)

\* At a given place; only data behind it move.
ExpandArgsAt(c, at, rec) ==
    IF at > Len(Padded(c.args)) THEN NoArgs ELSE InsertParam(c, at, at, rec)

\* Behind the last placeholder, in front of all data.
ExpandRaw(f, c, rec) ==
    InsertParam(c, IF c.ph = <<>> THEN Len(Padded(c.args)) ELSE AfterHolders(f, c.ph), 0, rec)

-----------------------------------------------------------------------------
(* ArgsArrayContext: the parameters are packed at the offsets of the       *)
(* kernel's table; a statically instrumented kernel's table ends with the  *)
(* record pointer, for which the application passes no argument.           *)

ArrayContext(f) ==
    [ph |-> <<>>,
     args |-> IF f.stub THEN Overwritten(AppCells(f.size), f.reads, Zeros(Ptr))
              ELSE AppCells(f.size)]

SetLastParam(f, c, rec) ==
    [ok |-> TRUE, at |-> f.reads, ph |-> <<>>, args |-> Overwritten(c.args, f.reads, RecPtr(rec))]

\* Behind everything, for the array as for a plain block of arguments.
Appended(c, rec) ==
    [ok |-> TRUE, at |-> Len(Padded(c.args)), ph |-> <<>>, args |-> Padded(c.args) \o RecPtr(rec)]

ExpandArray(f, c, rec) == IF f.stub THEN SetLastParam(f, c, rec) ELSE Appended(c, rec)

-----------------------------------------------------------------------------
(* LaunchArgs.cpp.  refreshParamFunc_ restores the application's block     *)
(* before each expansion.                                                  *)

\* The size of the parameters: up to the tiling, or to the first input's data.
HeadSize(f) == IF f.tiling THEN AfterHolders(f, PlaceHolderArray(f)) ELSE f.holders[1].data

FillArgsWithMemInfo(c, head, rec) ==
    Spliced(c.args, head, Zeros(GetAlignSize(head) - head) \o RecPtr(rec))

\* Every host input and the tiling data move by one pointer.
ExpandEx(f, c, rec) ==
    IF f.holders = <<>> THEN Appended(c, rec)
    ELSE IF HeadSize(f) > Len(c.args) THEN NoArgs
    ELSE [ok |-> TRUE, at |-> GetAlignSize(HeadSize(f)),
          args |-> FillArgsWithMemInfo(c, HeadSize(f), rec), ph |-> Shifted(c.ph, 0)]

GetArgsSize(f) == GetAlignSize(IF f.holders = <<>> THEN f.size ELSE HeadSize(f))

-----------------------------------------------------------------------------
Context(f) == IF f.api = "array" THEN ArrayContext(f) ELSE RawContext(f)

ExpandArgs(f, c, rec) ==
    CASE f.api = "array" -> ExpandArray(f, c, rec)
      [] f.api \in {"host", "device"} -> ExpandRaw(f, c, rec)
      [] Len(c.args) > MaxAll -> NoArgs
      [] f.api = "ex" -> ExpandEx(f, c, rec)
      [] OTHER -> Appended(c, rec)

GetLastParamOffset(f, c) ==
    CASE f.api = "array" -> GetAlignSize(Len(c.args))
      [] f.api \in {"host", "device"} -> LastParamOffsetRaw(f, c)
      [] OTHER -> GetArgsSize(f)

-----------------------------------------------------------------------------
PackInit ==
    /\ form \in Forms
    /\ ctx = Context(form)
    /\ runs = 0
    /\ sent = NoArgs

\* Device arguments are expanded on the host and copied to a new device
\* block; its allocation or the copy may fail.
DeviceOutcomes == IF form.api = "device" THEN BOOLEAN ELSE {TRUE}

Given(x, readAt, rec) ==
    [ok |-> TRUE, args |-> x.args, ph |-> x.ph, readAt |-> readAt, rec |-> rec]

\* PrepareDbiTask: a copy of the context is expanded and the kernel is
\* instrumented to read its record pointer where it was put.
PrepareDbiTask ==
    /\ form.tool = "prof" /\ runs < MaxRuns
    /\ runs' = runs + 1
    /\ LET x == ExpandArgs(form, ctx, runs + 1)
       IN \E made \in DeviceOutcomes :
             sent' = IF x.ok /\ made THEN Given(x, x.at, runs + 1) ELSE NoArgs
    /\ UNCHANGED <<form, ctx>>

\* bbCountTask: the kernel is instrumented first, for the offset the context
\* announces; the arguments are expanded afterwards.  That ExpandArgs failed
\* is ignored and the run gets the old arguments: nothing is said of it here.
BBCountTask ==
    /\ form.tool = "prof" /\ runs < MaxRuns
    /\ runs' = runs + 1
    /\ LET announced == GetLastParamOffset(form, ctx)
           x == ExpandArgs(form, ctx, runs + 1)
       IN \E made \in DeviceOutcomes :
             sent' = IF x.ok /\ made THEN Given(x, announced, runs + 1) ELSE NoArgs
    /\ UNCHANGED <<form, ctx>>

-----------------------------------------------------------------------------
(* The checker's hooks; WithHostArgs knows statically instrumented kernels. *)

IsSlotInPlaceholderData(ph, offset) == \E i \in DOMAIN ph : ph[i].data <= offset

\* The slot by the runtime's table, or the last pointer of the declared size.
LocateRecordArgSlot(f, c) ==
    /\ f.declared >= Ptr /\ f.declared <= Len(c.args)
    /\ f.table \/ f.declared % Ptr = 0
    /\ ~IsSlotInPlaceholderData(c.ph, f.declared - Ptr)

RecordSlotInPlaceholderData(f, c) ==
    /\ f.declared >= Ptr /\ f.declared % Ptr = 0 /\ f.declared <= Len(c.args)
    /\ IsSlotInPlaceholderData(c.ph, f.declared - Ptr)

\* The pointer is written into its slot, inserted before the data that took
\* its place, or added as for any other kernel.
StaticArgs(f, c, rec) ==
    IF LocateRecordArgSlot(f, c)
    THEN [ok |-> TRUE, at |-> f.declared - Ptr, ph |-> c.ph,
          args |-> Overwritten(c.args, f.declared - Ptr, RecPtr(rec))]
    ELSE IF RecordSlotInPlaceholderData(f, c) THEN ExpandArgsAt(c, f.declared - Ptr, rec)
    ELSE ExpandArgs(f, c, rec)

\* SanitizerPre: the launch's own context is expanded, the array's copied
\* first.  A kernel that is not statically instrumented is instrumented for
\* the announced offset before (host, flat), or for the one ExpandArgs
\* returned.  (With rtArgsEx_t the instrumenter works the offset out itself.)
SanitizerPre ==
    /\ form.tool = "san" /\ runs = 0
    /\ runs' = 1
    /\ LET x == IF form.stub /\ form.api = "host" THEN StaticArgs(form, ctx, 1)
                ELSE ExpandArgs(form, ctx, 1)
           readAt == IF form.stub THEN form.reads
                     ELSE IF form.api \in {"host", "flat"} THEN GetLastParamOffset(form, ctx)
                     ELSE x.at
       IN \E made \in DeviceOutcomes :
             IF x.ok /\ made
             THEN /\ sent' = Given(x, readAt, 1)
                  /\ ctx' = IF form.api \in {"host", "device"}
                            THEN [args |-> x.args, ph |-> x.ph] ELSE ctx
             ELSE UNCHANGED <<ctx, sent>>
    /\ UNCHANGED form

PackNext == PrepareDbiTask \/ BBCountTask \/ SanitizerPre

-----------------------------------------------------------------------------
BehindHolders(f) == {p \in f.params : \A i \in DOMAIN f.holders : p.off > f.holders[i].addr}

\* The case the code does not cover: the pointer is put behind the last
\* placeholder although the kernel has parameters there.
Displaced(f) ==
    /\ f.holders # <<>>
    /\ Cardinality(BehindHolders(f)) > (IF f.overflow THEN 1 ELSE 0)
    /\ \/ f.api = "host" /\ ~(f.stub /\ f.declared >= Ptr /\ f.declared <= f.size)
       \/ f.api = "ex" /\ f.tiling

\* The block has a slot for the pointer of a statically instrumented kernel
\* and its binary does not tell where: the pointer is put behind the slot.
SlotUnknown(f) == f.api = "host" /\ f.stub /\ f.slot /\ f.declared = 0

\* An instrumented kernel finds every argument of the application where it
\* reads it, every placeholder pointing to its own data, and the record
\* pointer of this run at the offset it was instrumented (or compiled) for,
\* through each of the interfaces and in each order of the hook's steps.
PackedExact ==
    (sent.ok /\ ~Displaced(form) /\ ~SlotUnknown(form)) =>
        /\ Cells(sent.args, sent.readAt, Ptr) = RecPtr(sent.rec)
        /\ \A p \in form.params : Cells(sent.args, p.off, p.len) = Cells(AppCells(form.size), p.off, p.len)
        /\ \A i \in DOMAIN form.holders :
              LET h == form.holders[i]
              IN /\ sent.ph[i].addr = h.addr
                 /\ Cells(sent.args, sent.ph[i].data, h.len) = Cells(AppCells(form.size), h.data, h.len)
=============================================================================
