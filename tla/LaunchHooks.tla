---------------------------- MODULE LaunchHooks ----------------------------
(***************************************************************************)
(* The ten hijacked kernel launch calls, seven of the ACL runtime and      *)
(* three of the lower runtime.  They run the same phases (module           *)
(* ProfLaunch) and differ in a few decisions, which this table records.    *)
(*                                                                         *)
(* Init, of InitParam and the refreshParamFunc_ it installs:               *)
(*   clears    - a refresh also resets memInfo_ and memSize_;              *)
(*   nullArgs  - a refresh sets the arguments to nullptr, not to the       *)
(*               application's.                                            *)
(* Prepare, of PrepareDbiTask:                                             *)
(*   argsFirst - the expanded arguments are in place before RunDBITask is  *)
(*               tried, otherwise they are switched after it succeeded.    *)
(* Instr, of ProfPreForInstrProf:                                          *)
(*   stubArgs  - the arguments funcStub passes: the hook's current ones,   *)
(*               or those of the application (argsInfo_);                  *)
(*   refreshes - the fields are refreshed once more before ProfPre.        *)
(* Call, of Pre and Call:                                                  *)
(*   fallsBack - Call launches the application's kernel and arguments when *)
(*               the hook's arguments are nullptr.                         *)
(* Post, of RunDbiRecordTask, ProfPost and Post:                           *)
(*   checksRet - Post returns at once when the launch failed.              *)
(***************************************************************************)

AclrtLaunchKernelInit == [clears |-> FALSE, nullArgs |-> TRUE]
AclrtLaunchKernelPrepare == [argsFirst |-> FALSE]
AclrtLaunchKernelInstr == [stubArgs |-> "current", refreshes |-> FALSE]
AclrtLaunchKernelCall == [fallsBack |-> TRUE]
AclrtLaunchKernelPost == [checksRet |-> TRUE]

AclrtLaunchKernelV2Init == [clears |-> FALSE, nullArgs |-> TRUE]
AclrtLaunchKernelV2Prepare == [argsFirst |-> FALSE]
AclrtLaunchKernelV2Instr == [stubArgs |-> "current", refreshes |-> FALSE]
AclrtLaunchKernelV2Call == [fallsBack |-> TRUE]
AclrtLaunchKernelV2Post == [checksRet |-> TRUE]

AclrtLaunchKernelWithConfigInit == [clears |-> TRUE, nullArgs |-> FALSE]
AclrtLaunchKernelWithConfigPrepare == [argsFirst |-> TRUE]
AclrtLaunchKernelWithConfigInstr == [stubArgs |-> "current", refreshes |-> FALSE]
AclrtLaunchKernelWithConfigCall == [fallsBack |-> FALSE]
AclrtLaunchKernelWithConfigPost == [checksRet |-> TRUE]

AclrtLaunchKernelWithHostArgsInit == [clears |-> FALSE, nullArgs |-> FALSE]
AclrtLaunchKernelWithHostArgsPrepare == [argsFirst |-> FALSE]
AclrtLaunchKernelWithHostArgsInstr == [stubArgs |-> "current", refreshes |-> FALSE]
AclrtLaunchKernelWithHostArgsCall == [fallsBack |-> FALSE]
AclrtLaunchKernelWithHostArgsPost == [checksRet |-> TRUE]

AclrtLaunchKernelWithArgsArrayInit == [clears |-> TRUE, nullArgs |-> FALSE]
AclrtLaunchKernelWithArgsArrayPrepare == [argsFirst |-> TRUE]
AclrtLaunchKernelWithArgsArrayInstr == [stubArgs |-> "current", refreshes |-> TRUE]
AclrtLaunchKernelWithArgsArrayCall == [fallsBack |-> FALSE]
AclrtLaunchKernelWithArgsArrayPost == [checksRet |-> TRUE]

AclrtLaunchSIMTKernelWithArgsArrayInit == [clears |-> TRUE, nullArgs |-> FALSE]
AclrtLaunchSIMTKernelWithArgsArrayPrepare == [argsFirst |-> TRUE]
AclrtLaunchSIMTKernelWithArgsArrayInstr == [stubArgs |-> "current", refreshes |-> TRUE]
AclrtLaunchSIMTKernelWithArgsArrayCall == [fallsBack |-> FALSE]
AclrtLaunchSIMTKernelWithArgsArrayPost == [checksRet |-> TRUE]

AclrtLaunchSIMTKernelWithHostArgsInit == [clears |-> FALSE, nullArgs |-> FALSE]
AclrtLaunchSIMTKernelWithHostArgsPrepare == [argsFirst |-> FALSE]
AclrtLaunchSIMTKernelWithHostArgsInstr == [stubArgs |-> "current", refreshes |-> TRUE]
AclrtLaunchSIMTKernelWithHostArgsCall == [fallsBack |-> FALSE]
AclrtLaunchSIMTKernelWithHostArgsPost == [checksRet |-> TRUE]

KernelLaunchInit == [clears |-> TRUE, nullArgs |-> FALSE]
KernelLaunchPrepare == [argsFirst |-> TRUE]
KernelLaunchInstr == [stubArgs |-> "current", refreshes |-> FALSE]
KernelLaunchCall == [fallsBack |-> FALSE]
KernelLaunchPost == [checksRet |-> FALSE]

KernelLaunchWithFlagV2Init == [clears |-> TRUE, nullArgs |-> FALSE]
KernelLaunchWithFlagV2Prepare == [argsFirst |-> TRUE]
KernelLaunchWithFlagV2Instr == [stubArgs |-> "original", refreshes |-> FALSE]
KernelLaunchWithFlagV2Call == [fallsBack |-> FALSE]
KernelLaunchWithFlagV2Post == [checksRet |-> FALSE]

KernelLaunchWithHandleV2Init == [clears |-> TRUE, nullArgs |-> FALSE]
KernelLaunchWithHandleV2Prepare == [argsFirst |-> TRUE]
KernelLaunchWithHandleV2Instr == [stubArgs |-> "original", refreshes |-> FALSE]
KernelLaunchWithHandleV2Call == [fallsBack |-> FALSE]
KernelLaunchWithHandleV2Post == [checksRet |-> FALSE]

\* Every hook by its name.
HookTable == [
    AclrtLaunchKernel |->
        [init |-> AclrtLaunchKernelInit, prepare |-> AclrtLaunchKernelPrepare, instr |-> AclrtLaunchKernelInstr,
         call |-> AclrtLaunchKernelCall, post |-> AclrtLaunchKernelPost],
    AclrtLaunchKernelV2 |->
        [init |-> AclrtLaunchKernelV2Init, prepare |-> AclrtLaunchKernelV2Prepare, instr |-> AclrtLaunchKernelV2Instr,
         call |-> AclrtLaunchKernelV2Call, post |-> AclrtLaunchKernelV2Post],
    AclrtLaunchKernelWithConfig |->
        [init |-> AclrtLaunchKernelWithConfigInit, prepare |-> AclrtLaunchKernelWithConfigPrepare, instr |-> AclrtLaunchKernelWithConfigInstr,
         call |-> AclrtLaunchKernelWithConfigCall, post |-> AclrtLaunchKernelWithConfigPost],
    AclrtLaunchKernelWithHostArgs |->
        [init |-> AclrtLaunchKernelWithHostArgsInit, prepare |-> AclrtLaunchKernelWithHostArgsPrepare, instr |-> AclrtLaunchKernelWithHostArgsInstr,
         call |-> AclrtLaunchKernelWithHostArgsCall, post |-> AclrtLaunchKernelWithHostArgsPost],
    AclrtLaunchKernelWithArgsArray |->
        [init |-> AclrtLaunchKernelWithArgsArrayInit, prepare |-> AclrtLaunchKernelWithArgsArrayPrepare, instr |-> AclrtLaunchKernelWithArgsArrayInstr,
         call |-> AclrtLaunchKernelWithArgsArrayCall, post |-> AclrtLaunchKernelWithArgsArrayPost],
    AclrtLaunchSIMTKernelWithArgsArray |->
        [init |-> AclrtLaunchSIMTKernelWithArgsArrayInit, prepare |-> AclrtLaunchSIMTKernelWithArgsArrayPrepare, instr |-> AclrtLaunchSIMTKernelWithArgsArrayInstr,
         call |-> AclrtLaunchSIMTKernelWithArgsArrayCall, post |-> AclrtLaunchSIMTKernelWithArgsArrayPost],
    AclrtLaunchSIMTKernelWithHostArgs |->
        [init |-> AclrtLaunchSIMTKernelWithHostArgsInit, prepare |-> AclrtLaunchSIMTKernelWithHostArgsPrepare, instr |-> AclrtLaunchSIMTKernelWithHostArgsInstr,
         call |-> AclrtLaunchSIMTKernelWithHostArgsCall, post |-> AclrtLaunchSIMTKernelWithHostArgsPost],
    KernelLaunch |->
        [init |-> KernelLaunchInit, prepare |-> KernelLaunchPrepare, instr |-> KernelLaunchInstr,
         call |-> KernelLaunchCall, post |-> KernelLaunchPost],
    KernelLaunchWithFlagV2 |->
        [init |-> KernelLaunchWithFlagV2Init, prepare |-> KernelLaunchWithFlagV2Prepare, instr |-> KernelLaunchWithFlagV2Instr,
         call |-> KernelLaunchWithFlagV2Call, post |-> KernelLaunchWithFlagV2Post],
    KernelLaunchWithHandleV2 |->
        [init |-> KernelLaunchWithHandleV2Init, prepare |-> KernelLaunchWithHandleV2Prepare, instr |-> KernelLaunchWithHandleV2Instr,
         call |-> KernelLaunchWithHandleV2Call, post |-> KernelLaunchWithHandleV2Post]
]

Hooks == DOMAIN HookTable
=============================================================================
