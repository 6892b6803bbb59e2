------------------------- MODULE MCKernelRegistry --------------------------
(* Model-checking instance of KernelRegistry.                              *)
EXTENDS KernelRegistry, TLC

Symmetry == Permutations(Threads) \cup Permutations(Handles) \cup Permutations(Kernels)
=============================================================================
