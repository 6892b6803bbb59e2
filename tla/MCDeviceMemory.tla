--------------------------- MODULE MCDeviceMemory ---------------------------
(* Symmetry for the model checking of DeviceMemory.                         *)
EXTENDS DeviceMemory, TLC

Symmetry ==
    Permutations(Threads) \cup Permutations(Blocks) \cup Permutations(Devices)
=============================================================================
