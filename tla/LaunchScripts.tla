--------------------------- MODULE LaunchScripts ---------------------------
(***************************************************************************)
(* What each of the ten launch hooks does for the memory checker: the      *)
(* calls of its InitParam, SanitizerPre and SanitizerPost, in order.       *)
(*                                                                         *)
(* A script is a sequence of steps.  A step names the call and what the    *)
(* hook does when the call fails:                                          *)
(*   go    - it carries on (the result is ignored, or the call is void);   *)
(*   leave - it returns from the phase: the rest of it is skipped;         *)
(*   undo  - it runs its own recovery and returns (handlePreFailure).      *)
(* skip says that the tool asked not to check this kernel, sink that the   *)
(* stream is bound to a model, so that the kernel runs later.              *)
(***************************************************************************)
EXTENDS Sequences

Go(call) == [call |-> call, onFail |-> "go"]
Leave(call) == [call |-> call, onFail |-> "leave"]
Undo(call) == [call |-> call, onFail |-> "undo"]
Steps(calls) == [i \in DOMAIN calls |-> Go(calls[i])]

AclHooks == {"LaunchKernel", "LaunchKernelV2", "LaunchKernelWithConfig", "WithHostArgs",
             "WithArgsArray", "SIMTWithArgsArray", "SIMTWithHostArgs"}
RtHooks == {"rtKernelLaunch", "rtKernelLaunchWithFlagV2", "rtKernelLaunchWithHandleV2"}
Hooks == AclHooks \cup RtHooks
Api(hook) == IF hook \in AclHooks THEN "acl" ELSE "rt"

-----------------------------------------------------------------------------
(* InitParam: the launch enters the registry. *)

\* Mutant: the description is archived before it is brought up to date.
AclInitParamArchivesFirst ==
    <<Leave("CreateContext")>> \o Steps(<<"ArchiveMemInfo", "UpdateOpMemInfo">>)

\* The launch context, then the argument description of the device, which is
\* archived under the launch's number.  Without a context the launch is not
\* followed.
AclInitParam == <<Leave("CreateContext")>> \o Steps(<<"UpdateOpMemInfo", "ArchiveMemInfo">>)

\* AddLaunchEvent pushes nothing for an unknown function; the number is read
\* back from the device in a second call.
RtInitParam == Steps(<<"AddLaunchEvent", "GetLaunchId", "ParseMetaData", "ArchiveMemInfo">>)

InitParam(hook) == IF hook \in AclHooks THEN AclInitParam ELSE RtInitParam

-----------------------------------------------------------------------------
(* SanitizerPre. *)

Announce == Steps(<<"ReportKernelSummary">>)

\* A skipped kernel still gets a buffer, its argument and the instrumentation.
LaunchKernelPre(skip, sink) ==
    Steps(<<"SetSkipKernelFlag">>) \o
    IF sink /\ ~skip THEN <<>>
    ELSE (IF skip THEN <<>> ELSE Announce)
         \o <<Leave("Init"), Leave("ExpandArgs"), Go("RunDBITask"), Go("FillAllMemGuard")>>

LaunchKernelV2Pre(skip, sink) ==
    IF skip \/ sink THEN <<>>
    ELSE Announce
         \o <<Leave("Init"), Leave("ExpandArgs"), Go("RunDBITask"), Go("FillAllMemGuard")>>

LaunchKernelWithConfigPre(skip, sink) ==
    IF skip \/ sink THEN <<>>
    ELSE Announce
         \o <<Leave("Init"), Leave("ExpandArgs"), Go("RunDBITask"), Go("FillAllMemGuard")>>

\* The instrumented kernel is made first and put in place last.
WithHostArgsPre(skip, sink) ==
    IF skip \/ sink THEN <<>>
    ELSE Announce
         \o <<Go("MakeInstrumented"), Undo("Init"), Undo("ExpandArgs"), Go("Commit")>>

WithArgsArrayPre(skip, sink) ==
    IF skip \/ sink THEN <<>>
    ELSE Announce \o <<Leave("Init"), Leave("ExpandArgs"), Go("RunDBITask")>>

\* The instrumented kernel is put in place first, and the ranges are told
\* before the buffer is made so that its heads can list them.
SIMTWithArgsArrayPre(skip, sink) ==
    IF skip \/ sink THEN <<>>
    ELSE Announce
         \o <<Leave("Clone"), Go("RunDBITask"), Go("SectionsMalloc"), Go("OpMalloc"),
              Leave("Init"), Leave("ExpandArgs")>>

SIMTWithHostArgsPre(skip, sink) ==
    IF skip \/ sink THEN <<>>
    ELSE Announce
         \o <<Go("RunDBITask"), Go("SectionsMalloc"), Go("OpMalloc"),
              Leave("Init"), Leave("ExpandArgs")>>

\* The runtime's hooks: which launch the ranges are looked up for differs.
RtPre(skip, sink, event) ==
    Steps(<<"SetSkipKernelFlag">>) \o
    IF sink /\ ~skip THEN <<>>
    ELSE (IF skip THEN <<>>
          ELSE Announce
               \o <<Go("RunDBITask"), Leave(event), Leave("GetDevBinary"),
                    Go("SectionsMalloc"), Go("OverflowMalloc")>>)
         \o <<Go("Init"), Go("ExpandArgs"), Go("FillAllMemGuard")>>

KernelLaunchPre(skip, sink) == RtPre(skip, sink, "GetLastLaunchEvent")
KernelLaunchWithFlagV2Pre(skip, sink) == RtPre(skip, sink, "GetLaunchEvent")
KernelLaunchWithHandleV2Pre(skip, sink) == RtPre(skip, sink, "GetLastLaunchEvent")

SanitizerPre(hook, skip, sink) ==
    CASE hook = "LaunchKernel"               -> LaunchKernelPre(skip, sink)
      [] hook = "LaunchKernelV2"             -> LaunchKernelV2Pre(skip, sink)
      [] hook = "LaunchKernelWithConfig"     -> LaunchKernelWithConfigPre(skip, sink)
      [] hook = "WithHostArgs"               -> WithHostArgsPre(skip, sink)
      [] hook = "WithArgsArray"              -> WithArgsArrayPre(skip, sink)
      [] hook = "SIMTWithArgsArray"          -> SIMTWithArgsArrayPre(skip, sink)
      [] hook = "SIMTWithHostArgs"           -> SIMTWithHostArgsPre(skip, sink)
      [] hook = "rtKernelLaunch"             -> KernelLaunchPre(skip, sink)
      [] hook = "rtKernelLaunchWithFlagV2"   -> KernelLaunchWithFlagV2Pre(skip, sink)
      [] hook = "rtKernelLaunchWithHandleV2" -> KernelLaunchWithHandleV2Pre(skip, sink)

-----------------------------------------------------------------------------
(* SanitizerPost; memInfo says that the hook holds a record buffer. *)

\* A skipped kernel makes the record buffer invalid, one in a model is dumped.
Phases(skip, sink, memInfo, checked) ==
    IF skip THEN Steps(<<"ResetMemoryInit">>)
    ELSE IF sink THEN Steps(<<"LaunchDumpTask">>)
    ELSE IF memInfo THEN checked ELSE <<>>

\* Mutant: the process leaves before the records are sent.
GuardedPostExits ==
    Steps(<<"Sync", "CheckAllMemGuard">>) \o <<Leave("GetSectionHeaders")>>
    \o Steps(<<"SectionsMalloc", "ExitAfterProcess", "Finalize", "SectionsFree">>)

GuardedPost ==
    Steps(<<"Sync", "CheckAllMemGuard">>) \o <<Leave("GetSectionHeaders")>>
    \o Steps(<<"SectionsMalloc", "Finalize", "SectionsFree", "ExitAfterProcess">>)

LaunchKernelPost(skip, sink, memInfo) == Phases(skip, sink, memInfo, GuardedPost)
LaunchKernelV2Post(skip, sink, memInfo) == Phases(skip, sink, memInfo, GuardedPost)
LaunchKernelWithConfigPost(skip, sink, memInfo) == Phases(skip, sink, memInfo, GuardedPost)

WithHostArgsPost(skip, sink, memInfo) ==
    Phases(skip, sink, memInfo,
           Steps(<<"Sync", "SectionsMalloc", "OpMalloc", "Finalize", "SectionsFree",
                   "OpFree", "ExitAfterProcess">>))

WithArgsArrayPost(skip, sink, memInfo) ==
    Phases(skip, sink, memInfo,
           Steps(<<"Sync", "OpMalloc">>) \o <<Leave("GetSectionHeaders")>>
           \o Steps(<<"SectionsMalloc", "Finalize", "SectionsFree", "OpFree",
                      "ExitAfterProcess">>))

\* Mutant: nobody waits for the kernel.
SIMTPostStepsNoSync == Steps(<<"Finalize", "SectionsFree", "OpFree", "ExitAfterProcess">>)

SIMTPostSteps == Steps(<<"Sync", "Finalize", "SectionsFree", "OpFree", "ExitAfterProcess">>)
SIMTWithArgsArrayPost(skip, sink, memInfo) == Phases(skip, sink, memInfo, SIMTPostSteps)
SIMTWithHostArgsPost(skip, sink, memInfo) == Phases(skip, sink, memInfo, SIMTPostSteps)

KernelLaunchPost(skip, sink, memInfo) ==
    Phases(skip, sink, memInfo,
           Steps(<<"Sync", "CheckAllMemGuard">>) \o <<Leave("GetLastLaunchEvent")>>
           \o Steps(<<"Finalize", "SectionsFree", "OverflowFree", "ExitAfterProcess">>))

\* These two check the guards of a kernel in a model as well, and do nothing
\* for a skipped one.
RtPost(skip, sink, memInfo) ==
    IF skip \/ ~(memInfo \/ sink) THEN <<>>
    ELSE Steps(<<"Sync", "CheckAllMemGuard">>) \o
         IF sink THEN Steps(<<"LaunchDumpTask">>)
         ELSE Steps(<<"GetLaunchEvent", "OpMalloc", "Finalize", "SectionsFree",
                      "OverflowFree", "OpFree", "ExitAfterProcess">>)

KernelLaunchWithFlagV2Post(skip, sink, memInfo) == RtPost(skip, sink, memInfo)
KernelLaunchWithHandleV2Post(skip, sink, memInfo) == RtPost(skip, sink, memInfo)

SanitizerPost(hook, skip, sink, memInfo) ==
    CASE hook = "LaunchKernel"           -> LaunchKernelPost(skip, sink, memInfo)
      [] hook = "LaunchKernelV2"         -> LaunchKernelV2Post(skip, sink, memInfo)
      [] hook = "LaunchKernelWithConfig" -> LaunchKernelWithConfigPost(skip, sink, memInfo)
      [] hook = "WithHostArgs"           -> WithHostArgsPost(skip, sink, memInfo)
      [] hook = "WithArgsArray"          -> WithArgsArrayPost(skip, sink, memInfo)
      [] hook = "SIMTWithArgsArray"      -> SIMTWithArgsArrayPost(skip, sink, memInfo)
      [] hook = "SIMTWithHostArgs"       -> SIMTWithHostArgsPost(skip, sink, memInfo)
      [] hook = "rtKernelLaunch"         -> KernelLaunchPost(skip, sink, memInfo)
      [] hook = "rtKernelLaunchWithFlagV2" ->
             KernelLaunchWithFlagV2Post(skip, sink, memInfo)
      [] hook = "rtKernelLaunchWithHandleV2" ->
             KernelLaunchWithHandleV2Post(skip, sink, memInfo)

\* The end of Post: the runtime's hooks clear the argument description, and all
\* of them free the buffer.
PostEnd(hook) == IF hook \in AclHooks THEN Steps(<<"FreeBuffer">>)
                 ELSE Steps(<<"ClearArgsInfo", "FreeBuffer">>)

=============================================================================
