---------------------------- MODULE MCProfRounds ----------------------------
(***************************************************************************)
(* All three chips: two devices with a launch each, and two launches on a  *)
(* device; and on one device MSTX ranges of one to three kernels.          *)
(***************************************************************************)
EXTENDS ProfRounds

Cfg(chip, sets, aic, aiv, l2) ==
    [chip |-> chip, sets |-> sets, aic |-> aic, aiv |-> aiv, l2 |-> l2,
     pcSampling |-> FALSE, timeline |-> FALSE, app |-> FALSE, first |-> 0]

First == CHOOSE d \in Devices : TRUE

\* n launches on the first device, m on every other.
Launches(n, m) == [d \in Devices |-> IF d = First THEN n ELSE m]

Setup(c, launches, fused, signal) ==
    [settings |-> c, launches |-> launches, simt |-> ~fused, mc2 |-> fused, signal |-> signal,
     range |-> FALSE]

MCSetups ==
    {Setup([Cfg("A5", 1, TRUE, TRUE, FALSE) EXCEPT !.pcSampling = TRUE, !.timeline = TRUE],
           Launches(2, 0), FALSE, FALSE),
     Setup([Cfg("A5", 1, TRUE, TRUE, FALSE) EXCEPT !.pcSampling = TRUE],
           Launches(1, 1), FALSE, FALSE),
     Setup(Cfg("910B", 1, TRUE, TRUE, FALSE), Launches(1, 1), FALSE, FALSE),
     Setup(Cfg("910B", 1, TRUE, FALSE, TRUE), Launches(2, 0), FALSE, FALSE),
     Setup(Cfg("910B", 2, TRUE, TRUE, TRUE), Launches(2, 0), TRUE, TRUE)}
    \cup {Setup([Cfg("910B", 2, TRUE, TRUE, l2) EXCEPT !.app = TRUE, !.first = 1],
                Launches(2, 0), TRUE, FALSE) : l2 \in BOOLEAN}
    \cup {Setup(Cfg("310P", 2, TRUE, aiv, TRUE), Launches(2, 0), FALSE, FALSE) :
            aiv \in BOOLEAN}
    \cup {Setup(Cfg("310P", 1, FALSE, TRUE, FALSE), Launches(2, 0), FALSE, FALSE)}
    \cup {[Setup([Cfg("A5", 1, TRUE, TRUE, FALSE) EXCEPT !.timeline = TRUE], Launches(3, 0), FALSE, FALSE)
             EXCEPT !.range = TRUE]}
    \cup {[Setup(Cfg("910B", sets, sets > 0, FALSE, FALSE), Launches(4, 0), FALSE, FALSE)
             EXCEPT !.range = TRUE] : sets \in 0 .. 2}
=============================================================================
