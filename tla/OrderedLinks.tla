---------------------------- MODULE OrderedLinks ----------------------------
(***************************************************************************)
(* What the tool relies on when it merges the streams of one process: on   *)
(* each device link packets begin in increasing order number, and a number *)
(* begins on one link of the process only.  Nothing is promised about the  *)
(* order in which different links begin their packets.                     *)
(***************************************************************************)
EXTENDS Naturals

CONSTANTS
    Processes,   \* the processes that open links
    Links,       \* the device links of a process
    Numbers      \* the order numbers there are

VARIABLE begun   \* per process, the <<link, number>> pairs begun so far

Init == begun = [p \in Processes |-> {}]

Begin(p, l, n) ==
    /\ \A b \in begun[p] : b[2] # n
    /\ \A b \in begun[p] : b[1] = l => b[2] < n
    /\ begun' = [begun EXCEPT ![p] = @ \cup {<<l, n>>}]

Next == \E p \in Processes, l \in Links, n \in Numbers : Begin(p, l, n)

Spec == Init /\ [][Next]_begun
=============================================================================
