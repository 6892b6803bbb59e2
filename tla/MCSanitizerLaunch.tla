------------------------- MODULE MCSanitizerLaunch -------------------------
(* Instances of SanitizerLaunch: one thread that launches every kind of    *)
(* kernel with a failing call, and two threads whose launches overlap.     *)
EXTENDS SanitizerLaunch

CONSTANTS t1, t2

Kind(skip, sink, static, wrapped) ==
    [skip |-> skip, sink |-> sink, static |-> static, wrapped |-> wrapped]

MCKinds == {k \in [skip : BOOLEAN, sink : BOOLEAN, static : BOOLEAN, wrapped : BOOLEAN] :
               k.wrapped => k.static}

Plain == Kind(FALSE, FALSE, FALSE, FALSE)
Sink == Kind(FALSE, TRUE, FALSE, FALSE)
Skipped == Kind(TRUE, FALSE, FALSE, FALSE)
Compiled == Kind(FALSE, FALSE, TRUE, TRUE)

MCScenarios ==
    { [threads |-> {t1}, hooks |-> Hooks, kinds |-> MCKinds, launches |-> 2, fails |-> 1,
       interrupts |-> FALSE],
      [threads |-> {t1}, hooks |-> {"LaunchKernel", "LaunchKernelV2"},
       kinds |-> {Plain, Skipped, Compiled}, launches |-> 3, fails |-> 2,
       interrupts |-> FALSE],
      [threads |-> {t1, t2}, hooks |-> {"LaunchKernel", "WithHostArgs", "SIMTWithArgsArray"},
       kinds |-> {Plain, Sink}, launches |-> 2, fails |-> 0, interrupts |-> TRUE],
      [threads |-> {t1, t2}, hooks |-> {"rtKernelLaunch", "rtKernelLaunchWithFlagV2"},
       kinds |-> {Plain, Sink}, launches |-> 2, fails |-> 0, interrupts |-> FALSE] }
ThreadSymmetry == Permutations(Threads)
=============================================================================
