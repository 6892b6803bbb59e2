---------------------------- MODULE MCLaunchData ----------------------------
(* Model-checking instance of LaunchData.                                   *)
EXTENDS LaunchData

(* Cache sizes: out of bounds (0, 8193), too small for the SIMT heads       *)
(* (1, 16), the smallest with them (17), the last without and the first     *)
(* with shadow memory (39, 40), the default (100) and one whose shares are  *)
(* not whole (150).                                                         *)
MCInputs ==
    [arch : {"plain", "c220", "c310"}, cacheSize : {0, 1, 16, 17, 39, 40, 100, 150, 8193},
     checkBlockId : {-1, 0, 1, 3}, blockDim : {1, 2, 4}, hostNum : {0, 1, 5}, peerNum : {0, 3}]

(* Blocks of arguments: m pointers, k placeholders (and the overflow        *)
(* pointer), t pointers behind them, a last scalar of one unit, the slot of *)
(* a statically instrumented kernel, then the placeholders' data, each      *)
(* starting where pointers may.                                             *)
Aligned(n) == ((n + 1) \div 2) * 2

Shapes ==
    {s \in [m : 0..2, k : 0..2, t : 0..1, scalar : BOOLEAN, overflow : BOOLEAN,
            slot : BOOLEAN, lens : {<<1, 2>>, <<2, 1>>, <<3, 3>>}, swapped : BOOLEAN] :
        /\ s.m + s.k + s.t + (IF s.scalar THEN 1 ELSE 0) > 0
        /\ s.k = 0 => ~s.overflow /\ s.lens = <<1, 2>>
        /\ s.swapped => s.k = 2}

Block(s, api, tl, tiling, stub, known, table) ==
    LET over == IF s.overflow THEN 2 ELSE 0
        nptr == s.m + s.k + s.t
        head == 2 * nptr + over + (IF s.scalar THEN 1 ELSE 0)
        start == Aligned(head) + (IF s.slot THEN 2 ELSE 0)
        first == IF s.swapped THEN start + Aligned(s.lens[2]) ELSE start
        second == IF s.swapped THEN start ELSE start + Aligned(s.lens[1])
        data == <<first, second>>
        ends == {data[i] + s.lens[i] : i \in 1..s.k} \cup {IF s.slot THEN start ELSE head}
    IN [api |-> api, tool |-> tl, tiling |-> tiling, stub |-> stub, slot |-> s.slot,
        size |-> CHOOSE e \in ends : \A x \in ends : x <= e,
        overflow |-> s.overflow, table |-> table, reads |-> Aligned(head),
        declared |-> IF stub /\ known THEN Aligned(head) + 2 ELSE 0,
        holders |-> [i \in 1..s.k |-> [addr |-> 2 * (s.m + i - 1), data |-> data[i], len |-> s.lens[i]]],
        params |-> {[off |-> 2 * i, len |-> 2] : i \in 0..(s.m - 1)}
            \cup {[off |-> 2 * (s.m + s.k) + 2 * i, len |-> 2] : i \in 0..(s.t - 1 + over \div 2)}
            \cup (IF s.scalar THEN {[off |-> head - 1, len |-> 1]} ELSE {})]

\* Parameters packed one after the other: pointers, and scalars of one unit.
Arrays ==
    {Block([m |-> m, k |-> 0, t |-> 0, scalar |-> c, overflow |-> FALSE, slot |-> stub,
            lens |-> <<1, 2>>, swapped |-> FALSE], "array", tl, FALSE, stub, FALSE, FALSE) :
        m \in 1..2, c \in BOOLEAN, stub \in BOOLEAN, tl \in {"prof", "san"}}

MCForms ==
    {Block(s, "host", tl, FALSE, FALSE, FALSE, FALSE) : s \in {x \in Shapes : ~x.slot}, tl \in {"prof", "san"}}
    \cup {Block(s, "host", "san", FALSE, TRUE, known, table) : s \in Shapes, known \in BOOLEAN, table \in BOOLEAN}
    \cup {Block(s, api, tl, FALSE, FALSE, FALSE, FALSE) :
            s \in {x \in Shapes : x.k = 0 /\ ~x.slot}, api \in {"device", "flat"}, tl \in {"prof", "san"}}
    \cup {Block(s, "ex", "prof", tiling, FALSE, FALSE, FALSE) :
            s \in {x \in Shapes : ~x.slot /\ ~x.swapped}, tiling \in BOOLEAN}
    \cup {f \in Arrays : f.stub => f.tool = "san"}
=============================================================================
