----------------------------- MODULE HookTable -----------------------------
(***************************************************************************)
(* Which runtime calls the tool replaces, how each replacement enters its  *)
(* hook, and what the hook does to the tool's bookkeeping.                 *)
(*                                                                         *)
(* Bindings (BindSanitizer.cpp, BindOpprof.cpp).  A replacement is         *)
(*   layered - a LayerGuard names the call for as long as it lasts;        *)
(*   masked  - it goes straight to the library when a call above it in the *)
(*             thread stands for it;                                       *)
(*   ctor    - it runs the library's constructor if that has not run;      *)
(*   plain   - none of these.                                              *)
(*                                                                         *)
(* Hooks.  What a hook does around the library's function, as the steps it *)
(* takes in order (a step the running tool has no part in is left out):    *)
(*   lib     - the library's function;                                     *)
(*   cache   - a table of the process is updated (sanitizer);              *)
(*   tell    - the record is sent to the tool (sanitizer);                 *)
(*   summary - the device is announced to the tool (sanitizer);            *)
(*   keep    - the backup list of MemoryContext is updated (profiler);     *)
(*   store   - the context of the device asked for notes its number;       *)
(*   local   - the context of the thread's device notes the number asked;  *)
(*   release - the tool frees its own device buffer (sanitizer);           *)
(*   answer  - the hook answers for the library (simulator);               *)
(*   recall  - the answer is read from the thread's context (simulator);   *)
(*   comm    - the communicator is kept for the collector (profiler).      *)
(* onOk says that a failure of the library's function ends the hook.       *)
(***************************************************************************)
EXTENDS Sequences, TLC

\* The runtime functions a layered call stands for.
AclToRuntime ==
    ("aclrtSetDeviceImpl" :> {"rtSetDevice"}) @@
    ("aclrtResetDeviceImpl" :> {"rtDeviceReset"}) @@
    ("aclrtMallocImpl" :> {"rtMalloc"}) @@
    ("aclrtFreeImpl" :> {"rtFree"}) @@
    ("aclrtMemsetImpl" :> {"rtMemset"}) @@
    ("aclrtMemcpyImpl" :> {"rtMemcpy"}) @@
    ("aclrtMapMemImpl" :> {"rtMapMem"}) @@
    ("aclrtUnmapMemImpl" :> {"rtUnmapMem"}) @@
    ("aclrtIpcMemGetExportKeyImpl" :> {"rtIpcSetMemoryName"}) @@
    ("aclrtIpcMemImportByKeyImpl" :> {"rtIpcOpenMemory"}) @@
    ("aclrtIpcMemCloseImpl" :> {"rtIpcDestroyMemoryName", "rtIpcCloseMemory"}) @@
    ("aclrtGetDeviceImpl" :> {"rtGetDevice"}) @@
    ("aclrtCreateContextImpl" :> {"rtCtxCreateEx"}) @@
    ("aclrtQueryDeviceStatusImpl" :> {"rtDeviceStatusQuery"}) @@
    ("aclrtGetDeviceCountImpl" :> {"rtGetDeviceCount"}) @@
    ("aclrtGetDeviceInfoImpl" :> {"rtGetDeviceInfo"}) @@
    ("aclrtGetSocNameImpl" :> {"rtGetSocVersion"})

-----------------------------------------------------------------------------
(* The sanitizer's replacements, in the order of BindSanitizer.cpp. *)

As(kind, names) == [f \in names |-> kind]

SanitizerRtMemory ==
    As("masked", {"rtSetDevice", "rtMalloc", "rtFree", "rtMapMem", "rtUnmapMem",
                  "rtMemset", "rtMemcpy"})

SanitizerRtKernels ==
    As("ctor", {"rtDevBinaryRegister", "rtRegisterAllKernel",
                "AdumpGetDFXInfoAddrForDynamic", "AdumpGetDFXInfoAddrForStatic"}) @@
    As("plain", {"rtFunctionRegister", "rtKernelLaunch", "rtKernelLaunchWithHandleV2",
                 "rtKernelLaunchWithHandle", "rtKernelLaunchWithFlagV2",
                 "rtSetExceptionExtInfo"})

SanitizerRtSharing ==
    As("masked", {"rtIpcSetMemoryName", "rtIpcDestroyMemoryName", "rtIpcOpenMemory",
                  "rtIpcCloseMemory", "rtDeviceReset"}) @@
    As("plain", {"rtModelBindStream", "rtCtxGetOverflowAddr"})

SanitizerAclMemory ==
    As("layered", {"aclrtSetDeviceImpl", "aclrtResetDeviceImpl",
                   "aclrtDeviceEnablePeerAccessImpl", "aclrtDeviceDisablePeerAccessImpl",
                   "aclrtMallocImpl", "aclrtMallocAlign32Impl", "aclrtFreeImpl",
                   "aclrtFreeWithDevSyncImpl", "aclrtMemsetImpl", "aclrtMemcpyImpl",
                   "aclrtMapMemImpl", "aclrtUnmapMemImpl", "aclrtIpcMemGetExportKeyImpl",
                   "aclrtIpcMemImportByKeyImpl", "aclrtIpcMemCloseImpl"})

SanitizerAclKernels ==
    As("layered", {"aclrtLaunchKernelWithHostArgsImpl",
                   "aclrtLaunchSIMTKernelWithHostArgsImpl",
                   "aclrtLaunchSIMTKernelWithArgsArrayImpl",
                   "aclrtLaunchKernelWithArgsArrayImpl"}) @@
    As("ctor", {"aclrtBinaryLoadFromDataImpl"}) @@
    As("plain", {"aclrtBinaryLoadFromFileImpl", "aclrtBinaryLoadImpl",
                 "aclrtCreateBinaryImpl", "aclrtBinaryGetFunctionImpl",
                 "aclrtBinaryGetFunctionByEntryImpl", "aclrtKernelArgsInitImpl",
                 "aclrtRegisterCpuFuncImpl", "aclrtKernelArgsFinalizeImpl",
                 "aclrtKernelArgsAppendImpl", "aclrtKernelArgsParaUpdateImpl",
                 "aclrtKernelArgsAppendPlaceHolderImpl",
                 "aclrtKernelArgsGetPlaceHolderBufferImpl"})

SanitizerAclRest ==
    As("layered", {"aclrtLaunchKernelWithConfigImpl", "aclrtLaunchKernelImpl",
                   "aclrtLaunchKernelV2Impl"}) @@
    As("plain", {"aclrtKernelArgsInitByUserMemImpl", "aclrtMallocWithCfgImpl",
                 "aclrtMallocForTaskSchedulerImpl", "aclmdlRICaptureBeginImpl",
                 "aclmdlRICaptureEndImpl", "aclmdlRIBindStreamImpl",
                 "aclmdlRIUnbindStreamImpl"})

SanitizerBinding == SanitizerRtMemory @@ SanitizerRtKernels @@ SanitizerRtSharing @@
                    SanitizerAclMemory @@ SanitizerAclKernels @@ SanitizerAclRest

-----------------------------------------------------------------------------
(* The profiler's replacements, in the order of BindOpprof.cpp. *)

OpprofRtKernels ==
    As("ctor", {"AdumpGetDFXInfoAddrForDynamic", "AdumpGetDFXInfoAddrForStatic",
                "rtDevBinaryRegister", "rtRegisterAllKernel"}) @@
    As("masked", {"rtMapMem", "rtUnmapMem", "rtSetDevice"}) @@
    As("plain", {"rtFunctionRegister", "rtKernelLaunch", "rtKernelLaunchWithHandle",
                 "rtKernelLaunchWithHandleV2", "rtAicpuKernelLaunchExWithArgs",
                 "rtKernelLaunchWithFlagV2"})

OpprofRtDevice ==
    As("masked", {"rtDeviceReset", "rtCtxCreateEx", "rtMalloc", "rtFree",
                  "rtDeviceStatusQuery", "rtGetDevice", "rtGetDeviceCount",
                  "rtGetDeviceInfo", "rtGetSocVersion"}) @@
    As("plain", {"rtDeviceResetEx", "rtSetDeviceEx", "rtSetDeviceV2", "rtCtxCreate",
                 "rtCtxCreateV2", "rtGetAiCoreCount", "rtSetExceptionExtInfo"})

OpprofAclMemory ==
    As("layered", {"aclrtSetDeviceImpl", "aclrtResetDeviceImpl", "aclrtMallocImpl",
                   "aclrtMallocAlign32Impl", "aclrtFreeImpl", "aclrtFreeWithDevSyncImpl",
                   "aclrtMapMemImpl", "aclrtUnmapMemImpl", "aclrtGetDeviceImpl",
                   "aclrtCreateContextImpl", "aclrtQueryDeviceStatusImpl",
                   "aclrtGetDeviceCountImpl", "aclrtGetDeviceInfoImpl",
                   "aclrtGetSocNameImpl"})

OpprofAclKernels ==
    As("plain", {"aclrtBinaryLoadFromFileImpl", "aclrtBinaryGetFunctionImpl",
                 "aclrtBinaryGetFunctionByEntryImpl", "aclrtRegisterCpuFuncImpl",
                 "aclrtKernelArgsAppendImpl", "aclrtKernelArgsParaUpdateImpl",
                 "aclrtKernelArgsFinalizeImpl", "aclrtKernelArgsAppendPlaceHolderImpl",
                 "aclrtKernelArgsGetPlaceHolderBufferImpl", "aclrtKernelArgsInitImpl",
                 "aclrtKernelArgsInitByUserMemImpl", "aclrtMallocWithCfgImpl",
                 "aclrtMallocForTaskSchedulerImpl"}) @@
    As("layered", {"aclrtLaunchKernelWithConfigImpl", "aclrtLaunchKernelImpl",
                   "aclrtLaunchKernelV2Impl", "aclrtLaunchKernelWithHostArgsImpl"})

OpprofAclRest ==
    As("ctor", {"aclrtBinaryLoadFromDataImpl", "HcclCommInitClusterInfo",
                "HcclCommInitClusterInfoConfig", "HcclCommInitRootInfo",
                "HcclCommInitRootInfoConfig", "MsprofRegisterCallback",
                "MsprofNotifySetDevice"}) @@
    As("layered", {"aclrtLaunchSIMTKernelWithHostArgsImpl",
                   "aclrtLaunchSIMTKernelWithArgsArrayImpl",
                   "aclrtLaunchKernelWithArgsArrayImpl"}) @@
    As("plain", {"aclrtCreateBinaryImpl", "aclrtBinaryLoadImpl"})

OpprofBinding == OpprofRtKernels @@ OpprofRtDevice @@ OpprofAclMemory @@
                 OpprofAclKernels @@ OpprofAclRest

Binding(tool) == IF tool = "sanitizer" THEN SanitizerBinding ELSE OpprofBinding

-----------------------------------------------------------------------------
(* The originals that can be looked up: FunctionLoader::Get finds only names *)
(* a constructor of the preloaded library registered.                        *)

RuntimeOriginCtor ==
    {"rtFree", "rtMalloc", "rtMemset", "rtMemcpy", "rtMemcpyAsync",
     "rtGetVisibleDeviceIdByLogicDeviceId", "rtRegisterAllKernel",
     "rtDevBinaryRegister", "rtDevBinaryUnRegister", "rtFunctionRegister",
     "rtKernelLaunch", "rtKernelLaunchWithHandleV2", "rtKernelLaunchWithFlagV2",
     "rtProfSetProSwitch", "rtStreamSynchronize", "rtCtxGetCurrentDefaultStream",
     "rtKernelGetAddrAndPrefCnt", "rtGetSocVersion", "rtStreamCreate",
     "rtStreamDestroy", "rtGetC2cCtrlAddr", "rtFreeHost", "rtMallocHost",
     "rtStreamSynchronizeWithTimeout", "rtDeviceStatusQuery", "rtGetDevice",
     "rtSetDevice", "rtCallbackLaunch", "rtProcessReport", "rtSubscribeReport",
     "rtUnSubscribeReport", "rtModelBindStream", "rtGetL2CacheOffset",
     "rtDeviceResetForce"}

AscendclImplOriginCtor ==
    {"aclrtSetDeviceImpl", "aclrtGetDeviceImpl", "aclrtResetDeviceForceImpl",
     "aclrtGetLogicDevIdByUserDevIdImpl", "aclrtGetSocNameImpl", "aclrtMallocImpl",
     "aclrtMallocAlign32Impl", "aclrtFreeImpl", "aclrtMemsetImpl",
     "aclrtMemcpyImpl", "aclrtBinaryLoadFromFileImpl", "aclrtCreateBinaryImpl",
     "aclrtBinaryLoadImpl", "aclrtBinaryUnLoadImpl", "aclrtDestroyBinaryImpl",
     "aclrtBinaryGetFunctionImpl", "aclrtBinaryGetFunctionByEntryImpl",
     "aclrtRegisterCpuFuncImpl", "aclrtKernelArgsInitImpl",
     "aclrtKernelArgsInitByUserMemImpl", "aclrtKernelArgsGetMemSizeImpl",
     "aclrtKernelArgsGetHandleMemSizeImpl", "aclrtKernelArgsAppendImpl",
     "aclrtKernelArgsAppendPlaceHolderImpl",
     "aclrtKernelArgsGetPlaceHolderBufferImpl", "aclrtKernelArgsParaUpdateImpl",
     "aclrtKernelArgsFinalizeImpl", "aclrtLaunchKernelWithConfigImpl",
     "aclrtLaunchKernelImpl", "aclrtLaunchKernelV2Impl", "aclrtGetFunctionAddrImpl",
     "aclrtSynchronizeStreamWithTimeoutImpl", "aclrtSynchronizeStreamImpl",
     "aclrtStreamAbortImpl", "aclrtMemcpyAsyncImpl", "aclrtMallocHostImpl",
     "aclrtFreeHostImpl", "aclrtCtxGetCurrentDefaultStreamImpl",
     "aclmdlRICaptureBeginImpl", "aclmdlRICaptureEndImpl", "aclmdlRIDestroyImpl",
     "aclmdlRIExecuteAsyncImpl", "aclrtCmoAsyncImpl",
     "aclrtLaunchKernelWithHostArgsImpl", "aclrtBinaryLoadFromDataImpl",
     "aclrtGetFunctionAttributeImpl", "aclrtLaunchCallbackImpl",
     "aclrtProcessReportImpl", "aclrtSubscribeReportImpl",
     "aclrtGetFunctionNameImpl", "aclrtFunctionGetBinaryImpl",
     "aclrtFunctionGetParamCountImpl", "aclrtFunctionGetParamInfoImpl",
     "aclrtGetFuncBySymbolImpl", "aclrtLaunchKernelWithArgsArrayImpl",
     "aclrtLaunchSIMTKernelWithHostArgsImpl",
     "aclrtLaunchSIMTKernelWithArgsArrayImpl"}

HijackedAscendclImplCtor ==
    {"aclrtSetDeviceImpl", "aclrtResetDeviceImpl",
     "aclrtDeviceEnablePeerAccessImpl", "aclrtDeviceDisablePeerAccessImpl",
     "aclrtMallocImpl", "aclrtMallocAlign32Impl", "aclrtMallocHostImpl",
     "aclrtMallocHostWithCfgImpl", "aclrtFreeImpl", "aclrtFreeWithDevSyncImpl",
     "aclrtFreeHostImpl", "aclrtMemsetImpl", "aclrtMemcpyImpl", "aclrtMapMemImpl",
     "aclrtUnmapMemImpl", "aclrtIpcMemGetExportKeyImpl",
     "aclrtIpcMemImportByKeyImpl", "aclrtIpcMemCloseImpl",
     "aclrtBinaryLoadFromFileImpl", "aclrtBinaryGetFunctionImpl",
     "aclrtKernelArgsInitImpl", "aclrtKernelArgsAppendImpl",
     "aclrtKernelArgsParaUpdateImpl", "aclrtKernelArgsAppendPlaceHolderImpl",
     "aclrtKernelArgsGetPlaceHolderBufferImpl", "aclrtKernelArgsFinalizeImpl",
     "aclrtLaunchKernelImpl", "aclrtLaunchKernelV2Impl",
     "aclrtLaunchKernelWithConfigImpl", "aclrtKernelArgsInitByUserMemImpl",
     "aclrtMallocWithCfgImpl", "aclrtMallocForTaskSchedulerImpl",
     "aclmdlRICaptureBeginImpl", "aclmdlRICaptureEndImpl", "aclmdlRIBindStreamImpl",
     "aclmdlRIUnbindStreamImpl", "aclrtLaunchKernelWithHostArgsImpl",
     "aclrtLaunchSIMTKernelWithHostArgsImpl",
     "aclrtLaunchSIMTKernelWithArgsArrayImpl", "aclrtLaunchKernelWithArgsArrayImpl",
     "aclrtBinaryLoadFromDataImpl", "aclrtCreateBinaryImpl", "aclrtBinaryLoadImpl",
     "aclrtGetFunctionAttributeImpl", "aclrtRegisterCpuFuncImpl"}

SanitizerHijackedCtor ==
    {"rtSetDevice", "rtMalloc", "rtFree", "rtMapMem", "rtUnmapMem", "rtMemset",
     "rtMemcpy", "rtDevBinaryRegister", "rtRegisterAllKernel", "rtFunctionRegister",
     "rtKernelLaunch", "rtKernelLaunchWithHandleV2", "rtKernelLaunchWithFlagV2",
     "rtSetExceptionExtInfo", "rtKernelLaunchWithHandle", "rtIpcSetMemoryName",
     "rtIpcDestroyMemoryName", "rtIpcOpenMemory", "rtIpcCloseMemory",
     "rtDeviceReset", "rtModelBindStream", "rtGetL2CacheOffset",
     "rtCtxGetOverflowAddr", "rtDeviceSetLimit", "AdumpGetDFXInfoAddrForDynamic",
     "AdumpGetDFXInfoAddrForStatic"}

RegisterHccl == {"HcclCommInitRootInfo", "HcclCommInitRootInfoConfig", "HcclCommInitAll",
                 "HcclGetRootInfo", "HcclBarrier"}

RegisterProfApi == {"MsprofRegisterCallback", "MsprofNotifySetDevice",
                    "profSetProfCommand", "MsprofRegisterProfileCallback"}

RegisterAscendDump == {"AdumpGetDFXInfoAddrForDynamic", "AdumpGetDFXInfoAddrForStatic"}

RegisterAscendHal == {"halGetSocVersion"}

RegisterAscendCl ==
    {"aclrtSetDeviceImpl", "aclrtResetDeviceImpl", "aclrtMallocImpl",
     "aclrtMallocAlign32Impl", "aclrtFreeImpl", "aclrtFreeWithDevSyncImpl",
     "aclrtMapMemImpl", "aclrtUnmapMemImpl", "aclrtGetDeviceImpl",
     "aclrtCreateContextImpl", "aclrtQueryDeviceStatusImpl",
     "aclrtGetDeviceCountImpl", "aclrtGetDeviceInfoImpl", "aclrtGetSocNameImpl",
     "aclrtBinaryLoadFromFileImpl", "aclrtBinaryGetFunctionImpl",
     "aclrtLaunchKernelWithConfigImpl", "aclrtLaunchKernelImpl",
     "aclrtLaunchKernelV2Impl", "aclrtKernelArgsAppendImpl",
     "aclrtKernelArgsAppendPlaceHolderImpl",
     "aclrtKernelArgsGetPlaceHolderBufferImpl", "aclrtKernelArgsFinalizeImpl",
     "aclrtKernelArgsInitImpl", "aclrtKernelArgsInitByUserMemImpl",
     "aclrtMallocWithCfgImpl", "aclrtMallocForTaskSchedulerImpl",
     "aclrtKernelArgsParaUpdateImpl", "aclrtBinaryGetFunctionByEntryImpl",
     "aclrtLaunchKernelWithHostArgsImpl", "aclrtBinaryLoadFromDataImpl",
     "aclrtCreateBinaryImpl", "aclrtBinaryLoadImpl",
     "aclrtLaunchSIMTKernelWithHostArgsImpl",
     "aclrtLaunchSIMTKernelWithArgsArrayImpl", "aclrtLaunchKernelWithArgsArrayImpl"}

RegisterRuntime ==
    {"rtKernelLaunch", "rtMalloc", "rtFree", "rtMapMem", "rtUnmapMem",
     "rtKernelLaunchWithHandleV2", "rtKernelLaunchWithFlagV2", "rtFunctionRegister",
     "rtDevBinaryRegister", "rtRegisterAllKernel", "rtSetDevice", "rtDeviceReset",
     "rtSetDeviceEx", "rtSetDeviceV2", "rtCtxCreate", "rtCtxCreateV2",
     "rtCtxCreateEx", "rtGetDevice", "rtGetSocVersion", "rtGetAiCoreCount",
     "rtGetDeviceCount", "rtSetExceptionExtInfo", "rtAicpuKernelLaunchExWithArgs",
     "rtGetDeviceInfo", "rtKernelLaunchWithHandle", "rtDeviceResetEx",
     "rtDeviceStatusQuery"}

\* The originals a hook of the tool finds.
Registered(tool) ==
    RuntimeOriginCtor \cup AscendclImplOriginCtor \cup
    IF tool = "sanitizer" THEN HijackedAscendclImplCtor \cup SanitizerHijackedCtor
    ELSE RegisterRuntime \cup RegisterAscendCl \cup RegisterHccl \cup RegisterProfApi
         \cup RegisterAscendDump \cup RegisterAscendHal

\* The *Origin functions that stand for their function while they run.
LayeredOrigins == AscendclImplOriginCtor \ {"aclrtGetSocNameImpl", "aclrtCreateBinaryImpl"}

-----------------------------------------------------------------------------
(* The hooks themselves, one definition per source file. *)

Hook(op, onOk, steps) == [op |-> op, onOk |-> onOk, steps |-> steps]

\* Memory.  An allocation is recorded once it succeeded, a release before it
\* happens, an access before it happens.
AclrtMalloc == Hook("alloc", TRUE, <<"lib", "cache", "tell", "keep">>)
AclrtMallocAlign32 == Hook("alloc", TRUE, <<"lib", "cache", "tell", "keep">>)
AclrtMallocWithCfg == Hook("alloc", TRUE, <<"lib", "cache", "tell", "keep">>)
AclrtMallocForTaskScheduler == Hook("alloc", TRUE, <<"lib", "cache", "tell", "keep">>)
RtMalloc == Hook("alloc", TRUE, <<"lib", "cache", "tell", "keep">>)
AclrtFree == Hook("free", FALSE, <<"cache", "tell", "keep", "lib">>)
AclrtFreeWithDevSync == Hook("free", FALSE, <<"cache", "tell", "keep", "lib">>)
RtFree == Hook("free", FALSE, <<"cache", "tell", "keep", "lib">>)
AclrtMapMem == Hook("map", TRUE, <<"lib", "tell", "keep">>)
RtMapMem == Hook("map", FALSE, <<"lib", "tell", "keep">>)
AclrtUnmapMem == Hook("unmap", FALSE, <<"tell", "keep", "lib">>)
RtUnmapMem == Hook("unmap", FALSE, <<"tell", "keep", "lib">>)
AclrtMemcpy == Hook("access", FALSE, <<"tell", "lib">>)
RtMemcpy == Hook("access", FALSE, <<"tell", "lib">>)
AclrtMemset == Hook("access", FALSE, <<"tell", "lib">>)
RtMemset == Hook("access", FALSE, <<"tell", "lib">>)

\* Devices and contexts.
AclrtSetDevice == Hook("setDevice", TRUE, <<"lib", "store", "summary">>)
RtSetDevice == Hook("setDevice", FALSE, <<"lib", "store", "summary">>)
SetDeviceEx == Hook("setDevice", FALSE, <<"local", "lib">>)
SetDeviceV2 == Hook("setDevice", FALSE, <<"local", "lib">>)
AclrtResetDevice ==
    Hook("reset", TRUE, <<"release", "lib", "summary", "cache", "tell">>)
RtDeviceReset ==
    Hook("reset", TRUE, <<"release", "lib", "summary", "cache", "tell">>)
DeviceResetEx ==
    Hook("reset", TRUE, <<"release", "lib", "summary", "cache", "tell">>)
EnablePeerAccess == Hook("enable", TRUE, <<"lib", "cache", "tell">>)
DisablePeerAccess == Hook("disable", TRUE, <<"lib", "cache", "tell">>)
AclrtCreateContext == Hook("context", FALSE, <<"lib", "local">>)
CtxCreate == Hook("context", FALSE, <<"local", "lib">>)
CtxCreateEx == Hook("context", FALSE, <<"local", "lib">>)
CtxCreateV2 == Hook("context", FALSE, <<"local", "lib">>)
AclrtGetDevice == Hook("query", FALSE, <<"lib", "recall">>)
RtGetDevice == Hook("query", FALSE, <<"lib", "recall">>)
AclrtQueryDeviceStatus == Hook("status", FALSE, <<"lib">>)
DeviceStatusQuery == Hook("status", FALSE, <<"lib">>)
AclrtGetDeviceCount == Hook("query", FALSE, <<"answer", "lib">>)
RtGetDeviceCount == Hook("query", FALSE, <<"answer", "lib">>)
AclrtGetDeviceInfo == Hook("status", FALSE, <<"answer", "lib">>)
RtGetDeviceInfo == Hook("status", FALSE, <<"answer", "lib">>)
AclrtGetSocName == Hook("query", FALSE, <<"answer", "lib">>)
RtGetSocVersion == Hook("query", FALSE, <<"answer", "lib">>)
GetAiCoreCount == Hook("query", FALSE, <<"answer", "lib">>)

\* Memory shared between processes.  The acl hooks remember who shares and who
\* was given a block; the runtime's hooks tell what they are asked.
IpcMemGetExportKey == Hook("export", TRUE, <<"lib", "cache", "tell">>)
IpcMemImportByKey == Hook("import", FALSE, <<"lib", "cache", "tell">>)
IpcMemClose == Hook("close", FALSE, <<"lib", "cache", "tell">>)
IpcSetMemoryName == Hook("export", TRUE, <<"lib", "tell">>)
IpcOpenMemory == Hook("import", TRUE, <<"lib", "tell">>)
IpcCloseMemory == Hook("unmapKey", TRUE, <<"lib", "tell">>)
IpcDestroyMemoryName == Hook("destroyKey", TRUE, <<"lib", "tell">>)

\* Communicators: the hook keeps what the caller's variable holds, made or not.
HcclCommInitClusterInfo == Hook("comm", FALSE, <<"lib", "comm">>)
HcclCommInitClusterInfoConfig == Hook("comm", FALSE, <<"lib", "comm">>)
HcclCommInitRootInfo == Hook("comm", FALSE, <<"lib", "comm">>)
HcclCommInitRootInfoConfig == Hook("comm", FALSE, <<"lib", "comm">>)

HookOf ==
    [HcclCommInitClusterInfo |-> HcclCommInitClusterInfo,
     HcclCommInitClusterInfoConfig |-> HcclCommInitClusterInfoConfig,
     HcclCommInitRootInfo |-> HcclCommInitRootInfo,
     HcclCommInitRootInfoConfig |-> HcclCommInitRootInfoConfig,
     aclrtMallocImpl |-> AclrtMalloc, aclrtMallocAlign32Impl |-> AclrtMallocAlign32,
     aclrtMallocWithCfgImpl |-> AclrtMallocWithCfg,
     aclrtMallocForTaskSchedulerImpl |-> AclrtMallocForTaskScheduler,
     rtMalloc |-> RtMalloc, aclrtFreeImpl |-> AclrtFree,
     aclrtFreeWithDevSyncImpl |-> AclrtFreeWithDevSync, rtFree |-> RtFree,
     aclrtMapMemImpl |-> AclrtMapMem, rtMapMem |-> RtMapMem,
     aclrtUnmapMemImpl |-> AclrtUnmapMem, rtUnmapMem |-> RtUnmapMem,
     aclrtMemcpyImpl |-> AclrtMemcpy, rtMemcpy |-> RtMemcpy,
     aclrtMemsetImpl |-> AclrtMemset, rtMemset |-> RtMemset,
     aclrtSetDeviceImpl |-> AclrtSetDevice, rtSetDevice |-> RtSetDevice,
     rtSetDeviceEx |-> SetDeviceEx, rtSetDeviceV2 |-> SetDeviceV2,
     aclrtResetDeviceImpl |-> AclrtResetDevice, rtDeviceReset |-> RtDeviceReset,
     rtDeviceResetEx |-> DeviceResetEx,
     aclrtDeviceEnablePeerAccessImpl |-> EnablePeerAccess,
     aclrtDeviceDisablePeerAccessImpl |-> DisablePeerAccess,
     aclrtCreateContextImpl |-> AclrtCreateContext, rtCtxCreate |-> CtxCreate,
     rtCtxCreateEx |-> CtxCreateEx, rtCtxCreateV2 |-> CtxCreateV2,
     aclrtGetDeviceImpl |-> AclrtGetDevice, rtGetDevice |-> RtGetDevice,
     aclrtQueryDeviceStatusImpl |-> AclrtQueryDeviceStatus,
     rtDeviceStatusQuery |-> DeviceStatusQuery,
     aclrtGetDeviceCountImpl |-> AclrtGetDeviceCount,
     rtGetDeviceCount |-> RtGetDeviceCount, aclrtGetDeviceInfoImpl |-> AclrtGetDeviceInfo,
     rtGetDeviceInfo |-> RtGetDeviceInfo, aclrtGetSocNameImpl |-> AclrtGetSocName,
     rtGetSocVersion |-> RtGetSocVersion, rtGetAiCoreCount |-> GetAiCoreCount,
     aclrtIpcMemGetExportKeyImpl |-> IpcMemGetExportKey,
     aclrtIpcMemImportByKeyImpl |-> IpcMemImportByKey,
     aclrtIpcMemCloseImpl |-> IpcMemClose, rtIpcSetMemoryName |-> IpcSetMemoryName,
     rtIpcOpenMemory |-> IpcOpenMemory, rtIpcCloseMemory |-> IpcCloseMemory,
     rtIpcDestroyMemoryName |-> IpcDestroyMemoryName]

=============================================================================
