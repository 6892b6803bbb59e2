---------------------------- MODULE MCProfLaunch ----------------------------
(* Settings and kernels for the model checking of ProfLaunch.               *)
EXTENDS ProfLaunch, TLC

\* Kernel replay with several kinds of instrumentation together, application
\* replay with at most one (IsNeedRunOriginLaunch compares dbiFlag for
\* equality).
MCConfigs ==
    [mode : {"kernel"}, warm : {2}, evict : {TRUE}, flags : {{}}]
    \cup [mode : {"kernel"}, warm : {0}, evict : {FALSE},
          flags : {{"BB"}, {"TIMELINE", "BB"}, {"START", "MEMORY_CHART", "WARP"}}]
    \cup [mode : {"kernel"}, warm : {1}, evict : {FALSE},
          flags : {{"START", "TIMELINE", "BB", "OPERAND_RECORD"}}]
    \cup [mode : {"application"}, warm : {1}, evict : {TRUE},
          flags : {{}} \cup {{t} : t \in Tasks}]

MCKernels ==
    {[simt |-> FALSE, fused |-> "no"], [simt |-> TRUE, fused |-> "no"],
     [simt |-> FALSE, fused |-> "lccl"], [simt |-> FALSE, fused |-> "mc2"]}

\* Every value of every trait, in the combinations that the properties tell apart.
MCHooks ==
    {"AclrtLaunchKernel", "AclrtLaunchKernelWithArgsArray",
     "AclrtLaunchSIMTKernelWithHostArgs", "KernelLaunch", "KernelLaunchWithFlagV2"}

\* No definition tells one block from another.
MCSymmetry == Permutations(Sections)
=============================================================================
