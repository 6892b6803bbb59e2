--------------------------- MODULE MCOnlineMemory ---------------------------
(* Model-checking instance of OnlineMemory: an allocation; a heap in its   *)
(* middle and one behind it that ends with the allocation; regions that    *)
(* touch each other and the borders of the first heap, and lie outside the *)
(* second when declared for it; one of them in a call or both.             *)
EXTENDS OnlineMemory, TLC

Rng(a, l) == [addr |-> a, len |-> l]
MCAllocs == {Rng(1, 8)}
MCHeaps == {Rng(3, 4), Rng(7, 2)}
MCRegions == {Rng(3, 2), Rng(5, 2)}
MCBatches == {<<Rng(3, 2)>>, <<Rng(5, 2)>>, <<Rng(3, 2), Rng(5, 2)>>}
ThreadSymmetry == Permutations(Threads)
=============================================================================
