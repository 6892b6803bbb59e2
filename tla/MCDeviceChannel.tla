-------------------------- MODULE MCDeviceChannel --------------------------
(* Model-checking instance of DeviceChannel.                               *)
EXTENDS DeviceChannel, TLC

\* Host threads are interchangeable, and so are devices.
Symmetry == Permutations(HostThreads) \cup Permutations(Devices)
=============================================================================
