----------------------------- MODULE LaunchData -----------------------------
(***************************************************************************)
(* The data the library prepares for one launch: the record buffer         *)
(* (RecordBuffer), the arguments with its address in them, packed by the   *)
(* application (PackedArgs) or kept behind a handle (ArgsHandles).  The    *)
(* hook makes the buffer first and then hands its address on; the three    *)
(* share no other state, so a behaviour follows one of them.               *)
(***************************************************************************)
EXTENDS RecordBuffer

CONSTANTS
    Forms, MaxRuns, MaxAll,         \* of PackedArgs
    Values, MaxParams, MaxCalls     \* of ArgsHandles

VARIABLES
    followed,   \* the part this behaviour follows
    form, ctx, runs, sent,
    handle, params, final, tool, calls, recs, asked

P == INSTANCE PackedArgs
H == INSTANCE ArgsHandles

packed == <<form, ctx, runs, sent>>
handled == <<handle, params, final, tool, calls, recs, asked>>
vars == <<followed, bufVars, packed, handled>>

\* The parts that are not followed stay as they are before a launch.
NoBuffer ==
    /\ in = 0 /\ pc = "off" /\ blk = 0 /\ dev = 0 /\ fill = 0
    /\ acc = <<>> /\ host = <<>>
NoPacked == form = 0 /\ ctx = 0 /\ runs = 0 /\ sent = P!NoArgs
NoHandle ==
    /\ handle = <<>> /\ params = <<>> /\ final = FALSE /\ tool = "none"
    /\ calls = 0 /\ recs = 0 /\ asked = H!NoLaunch

DataInit ==
    \/ followed = "buffer" /\ Init /\ NoPacked /\ NoHandle
    \/ followed = "packed" /\ NoBuffer /\ P!PackInit /\ NoHandle
    \/ followed = "handle" /\ NoBuffer /\ NoPacked /\ H!HandleInit

BufferStep ==
    /\ followed = "buffer"
    /\ Next
    /\ UNCHANGED <<followed, packed, handled>>

PackedStep ==
    /\ followed = "packed"
    /\ P!PackNext
    /\ UNCHANGED <<followed, bufVars, handled>>

HandleStep ==
    /\ followed = "handle"
    /\ H!HandleNext
    /\ UNCHANGED <<followed, bufVars, packed>>

DataNext == BufferStep \/ PackedStep \/ HandleStep

DataSpec == DataInit /\ [][DataNext]_vars

-----------------------------------------------------------------------------
\* The parts of a block stay apart, and inside the block, while the heads are
\* written, the kernel records and the blocks are read back, for every chip,
\* cache size and choice of checked cores SanitizerLaunchInit accepts.
LayoutSound == followed = "buffer" => PartsApart /\ BlocksFit

\* An instrumented kernel gets the application's arguments where it reads
\* them and the record buffer of its own launch where it was told to look,
\* through every interface of packed arguments and through rebuilt handles.
ArgsSound ==
    /\ followed = "packed" => P!PackedExact
    /\ followed = "handle" => H!HandleExact
=============================================================================
