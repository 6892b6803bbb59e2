---------------------------- MODULE ArgsHandles -----------------------------
(***************************************************************************)
(* Kernel arguments behind a handle.  The application builds them with     *)
(* aclrtKernelArgsInit, -Append, -AppendPlaceHolder,                       *)
(* -GetPlaceHolderBuffer, -ParaUpdate and -Finalize; the library cannot    *)
(* look into the runtime's handle, so the hooks of these calls keep a      *)
(* second list of the parameters (ArgsHandleContext), and                  *)
(* aclrtLaunchKernelWithConfig builds a new handle from it with one more   *)
(* parameter, the address of the record buffer.                            *)
(***************************************************************************)
EXTENDS Integers, Sequences

CONSTANTS
    Values,         \* contents of a parameter or of a placeholder's data
    MaxParams,      \* parameters of a handle
    MaxCalls        \* calls the application makes on the handle

VARIABLES
    handle,     \* the runtime's handle of the application (external)
    params,     \* params_ of its ArgsHandleContext
    final,      \* the handle was finalized and not changed since
    tool,       \* "prof" or "san"
    calls,      \* calls made so far
    recs,       \* record buffers handed out; the last one is the launch's
    asked       \* the handle made for the launch, until the next call

\* A parameter holds a value of the application, the address of a record
\* buffer, or nothing yet.
Value(v) == <<"value", v>>
NoData == <<"none", 0>>
NoLaunch == [made |-> FALSE]

HandleInit ==
    /\ handle = <<>>
    /\ params = <<>>
    /\ final = FALSE
    /\ tool \in {"prof", "san"}
    /\ calls = 0
    /\ recs = 0
    /\ asked = NoLaunch

Call ==
    /\ calls < MaxCalls
    /\ calls' = calls + 1
    /\ UNCHANGED tool

-----------------------------------------------------------------------------
(* ArgsHandleContext: what the hooks keep.                                 *)

\* CreateContext puts an empty context under the handle's address, in place
\* of one found there.
CreateContext == params' = <<>>

NewParam(h, type, data) == [handle |-> h, type |-> type, data |-> data, src |-> 0]

\* A parameter longer than MAX_SINGLE_PARAM_SIZE is not kept.
CacheArgsAppendOp(ps, h, data, tooLong) ==
    IF tooLong THEN ps ELSE Append(ps, NewParam(h, "normal", data))

CacheArgsAppendPlaceholderOp(ps, h) == Append(ps, NewParam(h, "holder", NoData))

\* The parameter a param handle stands for gets a new value.
CacheArgsParaUpdateOp(ps, h, data) ==
    [i \in DOMAIN ps |-> IF ps[i].handle = h THEN [ps[i] EXCEPT !.data = data] ELSE ps[i]]

\* src is the placeholder whose buffer of the runtime is noted.
CacheArgsGetPlaceholderBufferOp(ps, h) ==
    [i \in DOMAIN ps |-> IF ps[i].handle = h THEN [ps[i] EXCEPT !.src = h] ELSE ps[i]]

\* The data of every placeholder are copied from its buffer.
Finalize(ps) ==
    [i \in DOMAIN ps |->
        IF ps[i].type = "holder" /\ ps[i].src # 0
        THEN [ps[i] EXCEPT !.data = handle[ps[i].src].data] ELSE ps[i]]

\* The parameters in order, then the placeholders' data.
ReplayArgs(ps) == [i \in DOMAIN ps |-> [type |-> ps[i].type, data |-> ps[i].data]]

\* A new handle is made from the list, or the runtime refuses a step of it
\* and the kernel gets no handle.
GenerateArgsHandle(ps, rec) ==
    asked' \in {[made |-> TRUE, got |-> ReplayArgs(ps), rec |-> rec], NoLaunch}

-----------------------------------------------------------------------------
(* The hooks of the calls that build a handle, when the call succeeds.     *)

\* aclrtKernelArgsInit and -ByUserMem.
KernelArgsInit ==
    /\ Call
    /\ handle' = <<>>
    /\ CreateContext
    /\ final' = FALSE
    /\ asked' = NoLaunch
    /\ UNCHANGED recs

Changed == final' = FALSE /\ asked' = NoLaunch /\ UNCHANGED recs

KernelArgsAppend(v, tooLong) ==
    /\ Call
    /\ Len(handle) < MaxParams
    /\ handle' = Append(handle, [type |-> "normal", data |-> Value(v), long |-> tooLong])
    /\ params' = CacheArgsAppendOp(params, Len(handle) + 1, Value(v), tooLong)
    /\ Changed

KernelArgsAppendPlaceHolder ==
    /\ Call
    /\ Len(handle) < MaxParams
    /\ handle' = Append(handle, [type |-> "holder", data |-> NoData, long |-> FALSE])
    /\ params' = CacheArgsAppendPlaceholderOp(params, Len(handle) + 1)
    /\ Changed

\* The application gets the buffer of a placeholder and fills it; data longer
\* than MAX_ALL_PARAM_SIZE are not followed.
KernelArgsGetPlaceHolderBuffer(h, v, tooLong) ==
    /\ Call
    /\ h \in DOMAIN handle /\ handle[h].type = "holder"
    /\ handle' = [handle EXCEPT ![h] = [type |-> "holder", data |-> Value(v), long |-> tooLong]]
    /\ params' = IF tooLong THEN params ELSE CacheArgsGetPlaceholderBufferOp(params, h)
    /\ Changed

KernelArgsParaUpdate(h, v) ==
    /\ Call
    /\ h \in DOMAIN handle /\ handle[h].type = "normal" /\ ~handle[h].long
    /\ handle' = [handle EXCEPT ![h].data = Value(v)]
    /\ params' = CacheArgsParaUpdateOp(params, h, Value(v))
    /\ Changed

KernelArgsFinalize ==
    /\ Call
    /\ \A h \in DOMAIN handle : handle[h].data # NoData
    /\ params' = Finalize(params)
    /\ final' = TRUE
    /\ asked' = NoLaunch
    /\ UNCHANGED <<handle, recs>>

-----------------------------------------------------------------------------
(* aclrtLaunchKernelWithConfig; the record buffer is new, or the last one. *)

ExpandArgs(ps, rec) == CacheArgsAppendOp(ps, 0, <<"record", rec>>, FALSE)

Launch(rec) ==
    /\ Call
    /\ final
    /\ rec \in {recs, recs + 1} \ {0}
    /\ recs' = rec
    /\ UNCHANGED <<handle, final>>

\* The profiler expands a copy of the context, for each instrumented run.
PrepareDbiTask(rec) ==
    /\ tool = "prof"
    /\ Launch(rec)
    /\ GenerateArgsHandle(ExpandArgs(params, rec), rec)
    /\ UNCHANGED params

\* The checker expands the context itself.
SanitizerPre(rec) ==
    /\ tool = "san"
    /\ Launch(rec)
    /\ params' = ExpandArgs(params, rec)
    /\ GenerateArgsHandle(params', rec)

HandleNext ==
    \/ KernelArgsInit
    \/ \E v \in Values, tooLong \in BOOLEAN : KernelArgsAppend(v, tooLong)
    \/ KernelArgsAppendPlaceHolder
    \/ \E h \in 1..MaxParams, v \in Values, tooLong \in BOOLEAN :
          KernelArgsGetPlaceHolderBuffer(h, v, tooLong)
    \/ \E h \in 1..MaxParams, v \in Values : KernelArgsParaUpdate(h, v)
    \/ KernelArgsFinalize
    \/ \E rec \in 1..MaxCalls : PrepareDbiTask(rec) \/ SanitizerPre(rec)

-----------------------------------------------------------------------------
\* Arguments the hooks chose not to follow.
TooLong == \E h \in DOMAIN handle : handle[h].long

\* The checker launched this handle before: its context keeps the pointer of
\* that launch's record buffer, in front of the new one and of parameters the
\* application appended since.
Stale(i) == params[i].handle = 0 /\ params[i].data # <<"record", recs>>
AppendedSince == \E i, j \in DOMAIN params : i < j /\ params[i].handle = 0 /\ params[j].handle # 0
LaunchedBefore == \E i \in DOMAIN params : Stale(i)

\* The handle the instrumented kernel is launched with has the parameters the
\* application's own handle has, with the values it has now, in their order,
\* and the record buffer of this launch right behind them, however often
\* parameters were updated, finalized and launched before.
HandleExact ==
    (final /\ asked.made /\ ~TooLong /\ ~AppendedSince) =>
        LET n == Len(handle)
        IN /\ Len(asked.got) > n
           /\ \A h \in 1..n : asked.got[h] = [type |-> handle[h].type, data |-> handle[h].data]
           /\ ~LaunchedBefore => asked.got[n + 1].data = <<"record", asked.rec>>
=============================================================================
