---------------------------- MODULE MCHostCalls ----------------------------
(***************************************************************************)
(* HostCalls on two threads.  The library may call every function a layer  *)
(* masks, and their like also in the calls no layer stands for: those with *)
(* a guard that the table does not know and those without a guard.         *)
(***************************************************************************)
EXTENDS HostCalls

MCLibraryCalls ==
    AclToRuntime @@
    [f \in {"aclrtMallocAlign32Impl", "aclrtMallocWithCfgImpl",
            "aclrtMallocForTaskSchedulerImpl"} |-> {"rtMalloc"}] @@
    ("aclrtFreeWithDevSyncImpl" :> {"rtFree"}) @@
    [f \in {"rtSetDeviceEx", "rtSetDeviceV2"} |-> {"rtSetDevice"}] @@
    [f \in {"rtCtxCreate", "rtCtxCreateV2"} |-> {"rtCtxCreateEx"}] @@
    ("rtDeviceResetEx" :> {"rtDeviceReset"})
Symmetry == Permutations(Threads) \cup Permutations(Addrs) \cup Permutations(Keys)

=============================================================================
