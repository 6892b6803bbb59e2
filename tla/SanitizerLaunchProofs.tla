----------------------- MODULE SanitizerLaunchProofs -----------------------
(***************************************************************************)
(* Theorems about SanitizerLaunch, for any threads, kinds of kernel,       *)
(* scenarios, numbers of launches and failures.                            *)
(***************************************************************************)
EXTENDS SanitizerLaunchInv, TLAPS, FiniteSetTheorems

-----------------------------------------------------------------------------
(* Scripts: what is in them, and in which order. *)

LEMMA RankNat == \A h, c : Rank(h, c) \in Nat
BY DEF Rank

LEMMA StepType ==
    \A c \in CallNames : /\ Go(c) \in StepT /\ Go(c).call = c /\ Go(c).onFail = "go"
                      /\ Leave(c) \in StepT /\ Leave(c).call = c /\ Leave(c).onFail = "leave"
                      /\ Undo(c) \in StepT /\ Undo(c).call = c /\ Undo(c).onFail = "undo"
BY DEF Go, Leave, Undo, StepT

\* The rest of a script.
LEMMA TailScript ==
    ASSUME NEW h, NEW s \in Seq(StepT), s # <<>>, Sorted(h, s), Modes(h, s)
    PROVE  /\ Tail(s) \in Seq(StepT) /\ Sorted(h, Tail(s)) /\ Modes(h, Tail(s))
           /\ s[1] \in StepT /\ s[1].call \in CallsIn(s)
           /\ CallsIn(Tail(s)) = CallsIn(s) \ {s[1].call}
           /\ \A c \in CallsIn(Tail(s)) : Rank(h, s[1].call) <= Rank(h, c)
<1>1. Tail(s) \in Seq(StepT) /\ DOMAIN s = 1..Len(s) /\ Len(s) > 0 /\ s[1] \in StepT
  OBVIOUS
<1>2. DOMAIN Tail(s) = 1..(Len(s) - 1) /\ \A i \in DOMAIN Tail(s) : Tail(s)[i] = s[i + 1]
  OBVIOUS
<1>3. Sorted(h, Tail(s))
  BY <1>1, <1>2 DEF Sorted
<1>4. Modes(h, Tail(s))
  BY <1>1, <1>2 DEF Modes
<1>5. s[1].call \in CallsIn(s)
  BY <1>1 DEF CallsIn
<1>6. ASSUME NEW c \in CallsIn(Tail(s))
      PROVE  c \in CallsIn(s) /\ c # s[1].call /\ Rank(h, s[1].call) <= Rank(h, c)
  <2>1. PICK i \in DOMAIN Tail(s) : c = Tail(s)[i].call
    BY DEF CallsIn
  <2>2. i + 1 \in DOMAIN s /\ c = s[i + 1].call /\ 1 < i + 1 /\ 1 \in DOMAIN s
    BY <2>1, <1>1, <1>2
  <2> QED BY <2>2 DEF CallsIn, Sorted
<1>7. ASSUME NEW c \in CallsIn(s), c # s[1].call PROVE c \in CallsIn(Tail(s))
  <2>1. PICK i \in DOMAIN s : c = s[i].call
    BY DEF CallsIn
  <2>2. i # 1 /\ i - 1 \in DOMAIN Tail(s) /\ Tail(s)[i - 1] = s[i]
    BY <2>1, <1>1, <1>2, <1>7
  <2> QED BY <2>1, <2>2 DEF CallsIn
<1> QED BY <1>1, <1>3, <1>4, <1>5, <1>6, <1>7

LEMMA EmptyScript == \A h : Script(h, <<>>, {})
BY DEF Script, Sorted, Modes, CallsIn

LEMMA ConcatScript ==
    ASSUME NEW h, NEW a, NEW b, NEW A, NEW B, Script(h, a, A), Script(h, b, B),
           \A x \in A, y \in B : x # y /\ Rank(h, x) <= Rank(h, y)
    PROVE  Script(h, a \o b, A \cup B)
<1> DEFINE s == a \o b
<1>1. /\ a \in Seq(StepT) /\ b \in Seq(StepT) /\ s \in Seq(StepT) /\ Len(s) = Len(a) + Len(b)
      /\ DOMAIN s = 1..Len(s) /\ DOMAIN a = 1..Len(a) /\ DOMAIN b = 1..Len(b)
      /\ Len(a) \in Nat /\ Len(b) \in Nat
  BY DEF Script
<1>2. \A i \in DOMAIN s : IF i <= Len(a) THEN i \in DOMAIN a /\ s[i] = a[i]
                          ELSE i - Len(a) \in DOMAIN b /\ s[i] = b[i - Len(a)]
  BY <1>1
<1>3. \A i \in DOMAIN a : i \in DOMAIN s /\ s[i] = a[i] /\ a[i].call \in A
  BY <1>1 DEF Script, CallsIn
<1>4. \A i \in DOMAIN b : i + Len(a) \in DOMAIN s /\ s[i + Len(a)] = b[i] /\ b[i].call \in B
  BY <1>1 DEF Script, CallsIn
<1> HIDE DEF s
<1>5. Sorted(h, s)
  <2> SUFFICES ASSUME NEW i \in DOMAIN s, NEW j \in DOMAIN s, i < j
               PROVE  s[i].call # s[j].call /\ Rank(h, s[i].call) <= Rank(h, s[j].call)
    BY DEF Sorted
  <2>1. CASE j <= Len(a)
    BY <2>1, <1>1, <1>2 DEF Script, Sorted
  <2>2. CASE i > Len(a)
    <3>1. i - Len(a) \in DOMAIN b /\ j - Len(a) \in DOMAIN b /\ i - Len(a) < j - Len(a)
          /\ s[i] = b[i - Len(a)] /\ s[j] = b[j - Len(a)]
      BY <2>2, <1>1, <1>2
    <3> QED BY <3>1 DEF Script, Sorted
  <2>3. CASE i <= Len(a) /\ j > Len(a)
    BY <2>3, <1>1, <1>2, <1>3, <1>4
  <2> QED BY <2>1, <2>2, <2>3, <1>1
<1>6. Modes(h, s)
  BY <1>1, <1>2 DEF Script, Modes
<1>7. CallsIn(s) \subseteq A \cup B
  BY <1>1, <1>2, <1>3, <1>4 DEF CallsIn
<1>8. A \subseteq CallsIn(s)
  BY <1>3 DEF Script, CallsIn
<1>9. B \subseteq CallsIn(s)
  BY <1>4 DEF Script, CallsIn
<1> QED BY <1>1, <1>5, <1>6, <1>7, <1>8, <1>9 DEF Script, s

LEMMA StepsScript ==
    ASSUME NEW h, NEW q \in Seq(CallNames), Rising(h, q), \A i \in DOMAIN q : Calm(q[i])
    PROVE  Script(h, Steps(q), {q[i] : i \in DOMAIN q})
<1>1. DOMAIN q = 1..Len(q) /\ Len(q) \in Nat /\ \A i \in DOMAIN q : q[i] \in CallNames
  OBVIOUS
<1>2. /\ DOMAIN Steps(q) = DOMAIN q
      /\ \A i \in DOMAIN q : /\ Steps(q)[i] \in StepT /\ Steps(q)[i].call = q[i]
                             /\ Steps(q)[i].onFail = "go"
  BY <1>1, StepType DEF Steps
<1>3. Steps(q) \in [1..Len(q) -> StepT]
  BY <1>1, StepType DEF Steps
<1>4. Steps(q) \in Seq(StepT)
  BY <1>3, <1>1
<1>5. Sorted(h, Steps(q))
  BY <1>2 DEF Sorted, Rising
<1>6. Modes(h, Steps(q))
  BY <1>2 DEF Modes, Calm
<1>7. CallsIn(Steps(q)) = {q[i] : i \in DOMAIN q}
  BY <1>2 DEF CallsIn
<1> QED BY <1>4, <1>5, <1>6, <1>7 DEF Script

\* The ranks, spelled out.
LEMMA Ranks ==
    ASSUME NEW h
    PROVE  /\ Rank(h, "RunDBITask") = IF h \in InstrumentsFirst THEN 4 ELSE 11
           /\ Rank(h, "OuterInit") = 1 /\ Rank(h, "CreateContext") = 1
           /\ Rank(h, "AddLaunchEvent") = 1 /\ Rank(h, "SetSkipKernelFlag") = 1
           /\ Rank(h, "Sync") = 1 /\ Rank(h, "ResetMemoryInit") = 1
           /\ Rank(h, "ClearArgsInfo") = 1 /\ Rank(h, "OuterFinalize") = 1
           /\ Rank(h, "UpdateOpMemInfo") = 2 /\ Rank(h, "GetLaunchId") = 2
           /\ Rank(h, "ReportKernelSummary") = 2 /\ Rank(h, "CheckAllMemGuard") = 2
           /\ Rank(h, "FreeBuffer") = 2 /\ Rank(h, "ParseMetaData") = 3
           /\ Rank(h, "Clone") = 3 /\ Rank(h, "LaunchDumpTask") = 3
           /\ Rank(h, "ArchiveMemInfo") = 4 /\ Rank(h, "MakeInstrumented") = 4
           /\ Rank(h, "GetLastLaunchEvent") = 5 /\ Rank(h, "GetLaunchEvent") = 5
           /\ Rank(h, "GetDevBinary") = 6 /\ Rank(h, "GetSectionHeaders") = 7
           /\ Rank(h, "SectionsMalloc") = 7 /\ Rank(h, "OpMalloc") = 7
           /\ Rank(h, "OverflowMalloc") = 7 /\ Rank(h, "Init") = 8
           /\ Rank(h, "ExpandArgs") = 9 /\ Rank(h, "Commit") = 11
           /\ Rank(h, "FillAllMemGuard") = 11 /\ Rank(h, "Finalize") = 12
           /\ Rank(h, "SectionsFree") = 13 /\ Rank(h, "OpFree") = 13
           /\ Rank(h, "OverflowFree") = 13 /\ Rank(h, "ExitAfterProcess") = 14
BY DEF Rank, Events, Late, Withdrawals

LEMMA RtInitScript ==
    ASSUME NEW h
    PROVE  Script(h, Steps(<<"AddLaunchEvent", "GetLaunchId", "ParseMetaData",
             "ArchiveMemInfo">>), {"AddLaunchEvent", "GetLaunchId", "ParseMetaData",
                 "ArchiveMemInfo"})
<1> DEFINE q == <<"AddLaunchEvent", "GetLaunchId", "ParseMetaData", "ArchiveMemInfo">>
<1>1. /\ DOMAIN q = 1..4 /\ Len(q) = 4
      /\ q[1] = "AddLaunchEvent" /\ q[2] = "GetLaunchId" /\ q[3] = "ParseMetaData"
            /\ q[4] = "ArchiveMemInfo"
  OBVIOUS
<1>2. q \in Seq(CallNames)
  BY DEF CallNames, Late, Withdrawals, Events
<1> HIDE DEF q
<1>3. 1..4 = {1, 2, 3, 4}
  OBVIOUS
<1>4. Rising(h, q)
  BY <1>1, <1>3, Ranks DEF Rising
<1>5. \A i \in DOMAIN q : Calm(q[i])
  BY <1>1, <1>3 DEF Calm
<1>6. {q[i] : i \in DOMAIN q} = {"AddLaunchEvent", "GetLaunchId", "ParseMetaData",
        "ArchiveMemInfo"}
  BY <1>1, <1>3
<1>7. Script(h, Steps(q), {q[i] : i \in DOMAIN q})
  BY <1>2, <1>4, <1>5, StepsScript
<1> QED BY <1>6, <1>7 DEF q

LEMMA DescribeScript ==
    ASSUME NEW h
    PROVE  Script(h, Steps(<<"UpdateOpMemInfo", "ArchiveMemInfo">>), {"UpdateOpMemInfo",
             "ArchiveMemInfo"})
<1> DEFINE q == <<"UpdateOpMemInfo", "ArchiveMemInfo">>
<1>1. /\ DOMAIN q = 1..2 /\ Len(q) = 2
      /\ q[1] = "UpdateOpMemInfo" /\ q[2] = "ArchiveMemInfo"
  OBVIOUS
<1>2. q \in Seq(CallNames)
  BY DEF CallNames, Late, Withdrawals, Events
<1> HIDE DEF q
<1>3. 1..2 = {1, 2}
  OBVIOUS
<1>4. Rising(h, q)
  BY <1>1, <1>3, Ranks DEF Rising
<1>5. \A i \in DOMAIN q : Calm(q[i])
  BY <1>1, <1>3 DEF Calm
<1>6. {q[i] : i \in DOMAIN q} = {"UpdateOpMemInfo", "ArchiveMemInfo"}
  BY <1>1, <1>3
<1>7. Script(h, Steps(q), {q[i] : i \in DOMAIN q})
  BY <1>2, <1>4, <1>5, StepsScript
<1> QED BY <1>6, <1>7 DEF q

LEMMA EndScript ==
    ASSUME NEW h
    PROVE  Script(h, Steps(<<"ClearArgsInfo", "FreeBuffer">>), {"ClearArgsInfo", "FreeBuffer"})
<1> DEFINE q == <<"ClearArgsInfo", "FreeBuffer">>
<1>1. /\ DOMAIN q = 1..2 /\ Len(q) = 2
      /\ q[1] = "ClearArgsInfo" /\ q[2] = "FreeBuffer"
  OBVIOUS
<1>2. q \in Seq(CallNames)
  BY DEF CallNames, Late, Withdrawals, Events
<1> HIDE DEF q
<1>3. 1..2 = {1, 2}
  OBVIOUS
<1>4. Rising(h, q)
  BY <1>1, <1>3, Ranks DEF Rising
<1>5. \A i \in DOMAIN q : Calm(q[i])
  BY <1>1, <1>3 DEF Calm
<1>6. {q[i] : i \in DOMAIN q} = {"ClearArgsInfo", "FreeBuffer"}
  BY <1>1, <1>3
<1>7. Script(h, Steps(q), {q[i] : i \in DOMAIN q})
  BY <1>2, <1>4, <1>5, StepsScript
<1> QED BY <1>6, <1>7 DEF q

LEMMA WaitScript ==
    ASSUME NEW h
    PROVE  Script(h, Steps(<<"Sync", "CheckAllMemGuard">>), {"Sync", "CheckAllMemGuard"})
<1> DEFINE q == <<"Sync", "CheckAllMemGuard">>
<1>1. /\ DOMAIN q = 1..2 /\ Len(q) = 2
      /\ q[1] = "Sync" /\ q[2] = "CheckAllMemGuard"
  OBVIOUS
<1>2. q \in Seq(CallNames)
  BY DEF CallNames, Late, Withdrawals, Events
<1> HIDE DEF q
<1>3. 1..2 = {1, 2}
  OBVIOUS
<1>4. Rising(h, q)
  BY <1>1, <1>3, Ranks DEF Rising
<1>5. \A i \in DOMAIN q : Calm(q[i])
  BY <1>1, <1>3 DEF Calm
<1>6. {q[i] : i \in DOMAIN q} = {"Sync", "CheckAllMemGuard"}
  BY <1>1, <1>3
<1>7. Script(h, Steps(q), {q[i] : i \in DOMAIN q})
  BY <1>2, <1>4, <1>5, StepsScript
<1> QED BY <1>6, <1>7 DEF q

LEMMA WaitTensorsScript ==
    ASSUME NEW h PROVE Script(h, Steps(<<"Sync", "OpMalloc">>), {"Sync", "OpMalloc"})
<1> DEFINE q == <<"Sync", "OpMalloc">>
<1>1. /\ DOMAIN q = 1..2 /\ Len(q) = 2
      /\ q[1] = "Sync" /\ q[2] = "OpMalloc"
  OBVIOUS
<1>2. q \in Seq(CallNames)
  BY DEF CallNames, Late, Withdrawals, Events
<1> HIDE DEF q
<1>3. 1..2 = {1, 2}
  OBVIOUS
<1>4. Rising(h, q)
  BY <1>1, <1>3, Ranks DEF Rising
<1>5. \A i \in DOMAIN q : Calm(q[i])
  BY <1>1, <1>3 DEF Calm
<1>6. {q[i] : i \in DOMAIN q} = {"Sync", "OpMalloc"}
  BY <1>1, <1>3
<1>7. Script(h, Steps(q), {q[i] : i \in DOMAIN q})
  BY <1>2, <1>4, <1>5, StepsScript
<1> QED BY <1>6, <1>7 DEF q

LEMMA GuardedTail ==
    ASSUME NEW h
    PROVE  Script(h, Steps(<<"SectionsMalloc", "Finalize", "SectionsFree", "ExitAfterProcess">>),
             {"SectionsMalloc", "Finalize", "SectionsFree", "ExitAfterProcess"})
<1> DEFINE q == <<"SectionsMalloc", "Finalize", "SectionsFree", "ExitAfterProcess">>
<1>1. /\ DOMAIN q = 1..4 /\ Len(q) = 4
      /\ q[1] = "SectionsMalloc" /\ q[2] = "Finalize" /\ q[3] = "SectionsFree"
            /\ q[4] = "ExitAfterProcess"
  OBVIOUS
<1>2. q \in Seq(CallNames)
  BY DEF CallNames, Late, Withdrawals, Events
<1> HIDE DEF q
<1>3. 1..4 = {1, 2, 3, 4}
  OBVIOUS
<1>4. Rising(h, q)
  BY <1>1, <1>3, Ranks DEF Rising
<1>5. \A i \in DOMAIN q : Calm(q[i])
  BY <1>1, <1>3 DEF Calm
<1>6. {q[i] : i \in DOMAIN q} = {"SectionsMalloc", "Finalize", "SectionsFree", "ExitAfterProcess"}
  BY <1>1, <1>3
<1>7. Script(h, Steps(q), {q[i] : i \in DOMAIN q})
  BY <1>2, <1>4, <1>5, StepsScript
<1> QED BY <1>6, <1>7 DEF q

LEMMA RtTail ==
    ASSUME NEW h
    PROVE  Script(h, Steps(<<"Finalize", "SectionsFree", "OverflowFree", "ExitAfterProcess">>),
             {"Finalize", "SectionsFree", "OverflowFree", "ExitAfterProcess"})
<1> DEFINE q == <<"Finalize", "SectionsFree", "OverflowFree", "ExitAfterProcess">>
<1>1. /\ DOMAIN q = 1..4 /\ Len(q) = 4
      /\ q[1] = "Finalize" /\ q[2] = "SectionsFree" /\ q[3] = "OverflowFree"
            /\ q[4] = "ExitAfterProcess"
  OBVIOUS
<1>2. q \in Seq(CallNames)
  BY DEF CallNames, Late, Withdrawals, Events
<1> HIDE DEF q
<1>3. 1..4 = {1, 2, 3, 4}
  OBVIOUS
<1>4. Rising(h, q)
  BY <1>1, <1>3, Ranks DEF Rising
<1>5. \A i \in DOMAIN q : Calm(q[i])
  BY <1>1, <1>3 DEF Calm
<1>6. {q[i] : i \in DOMAIN q} = {"Finalize", "SectionsFree", "OverflowFree", "ExitAfterProcess"}
  BY <1>1, <1>3
<1>7. Script(h, Steps(q), {q[i] : i \in DOMAIN q})
  BY <1>2, <1>4, <1>5, StepsScript
<1> QED BY <1>6, <1>7 DEF q

LEMMA ArgsArrayTail ==
    ASSUME NEW h
    PROVE  Script(h, Steps(<<"SectionsMalloc", "Finalize", "SectionsFree", "OpFree",
             "ExitAfterProcess">>), {"SectionsMalloc", "Finalize", "SectionsFree", "OpFree",
                 "ExitAfterProcess"})
<1> DEFINE q == <<"SectionsMalloc", "Finalize", "SectionsFree", "OpFree", "ExitAfterProcess">>
<1>1. /\ DOMAIN q = 1..5 /\ Len(q) = 5
      /\ q[1] = "SectionsMalloc" /\ q[2] = "Finalize" /\ q[3] = "SectionsFree"
            /\ q[4] = "OpFree" /\ q[5] = "ExitAfterProcess"
  OBVIOUS
<1>2. q \in Seq(CallNames)
  BY DEF CallNames, Late, Withdrawals, Events
<1> HIDE DEF q
<1>3. 1..5 = {1, 2, 3, 4, 5}
  OBVIOUS
<1>4. Rising(h, q)
  BY <1>1, <1>3, Ranks DEF Rising
<1>5. \A i \in DOMAIN q : Calm(q[i])
  BY <1>1, <1>3 DEF Calm
<1>6. {q[i] : i \in DOMAIN q} = {"SectionsMalloc", "Finalize", "SectionsFree", "OpFree",
        "ExitAfterProcess"}
  BY <1>1, <1>3
<1>7. Script(h, Steps(q), {q[i] : i \in DOMAIN q})
  BY <1>2, <1>4, <1>5, StepsScript
<1> QED BY <1>6, <1>7 DEF q

LEMMA SimtTail ==
    ASSUME NEW h
    PROVE  Script(h, Steps(<<"Sync", "Finalize", "SectionsFree", "OpFree", "ExitAfterProcess">>),
             {"Sync", "Finalize", "SectionsFree", "OpFree", "ExitAfterProcess"})
<1> DEFINE q == <<"Sync", "Finalize", "SectionsFree", "OpFree", "ExitAfterProcess">>
<1>1. /\ DOMAIN q = 1..5 /\ Len(q) = 5
      /\ q[1] = "Sync" /\ q[2] = "Finalize" /\ q[3] = "SectionsFree" /\ q[4] = "OpFree"
            /\ q[5] = "ExitAfterProcess"
  OBVIOUS
<1>2. q \in Seq(CallNames)
  BY DEF CallNames, Late, Withdrawals, Events
<1> HIDE DEF q
<1>3. 1..5 = {1, 2, 3, 4, 5}
  OBVIOUS
<1>4. Rising(h, q)
  BY <1>1, <1>3, Ranks DEF Rising
<1>5. \A i \in DOMAIN q : Calm(q[i])
  BY <1>1, <1>3 DEF Calm
<1>6. {q[i] : i \in DOMAIN q} = {"Sync", "Finalize", "SectionsFree", "OpFree", "ExitAfterProcess"}
  BY <1>1, <1>3
<1>7. Script(h, Steps(q), {q[i] : i \in DOMAIN q})
  BY <1>2, <1>4, <1>5, StepsScript
<1> QED BY <1>6, <1>7 DEF q

LEMMA HostArgsTail ==
    ASSUME NEW h
    PROVE  Script(h, Steps(<<"Sync", "SectionsMalloc", "OpMalloc", "Finalize", "SectionsFree",
             "OpFree", "ExitAfterProcess">>), {"Sync", "SectionsMalloc", "OpMalloc", "Finalize",
                 "SectionsFree", "OpFree", "ExitAfterProcess"})
<1> DEFINE q == <<"Sync", "SectionsMalloc", "OpMalloc", "Finalize", "SectionsFree", "OpFree",
      "ExitAfterProcess">>
<1>1. /\ DOMAIN q = 1..7 /\ Len(q) = 7
      /\ q[1] = "Sync" /\ q[2] = "SectionsMalloc" /\ q[3] = "OpMalloc" /\ q[4] = "Finalize"
            /\ q[5] = "SectionsFree" /\ q[6] = "OpFree" /\ q[7] = "ExitAfterProcess"
  OBVIOUS
<1>2. q \in Seq(CallNames)
  BY DEF CallNames, Late, Withdrawals, Events
<1> HIDE DEF q
<1>3. 1..7 = {1, 2, 3, 4, 5, 6, 7}
  OBVIOUS
<1>4. Rising(h, q)
  BY <1>1, <1>3, Ranks DEF Rising
<1>5. \A i \in DOMAIN q : Calm(q[i])
  BY <1>1, <1>3 DEF Calm
<1>6. {q[i] : i \in DOMAIN q} = {"Sync", "SectionsMalloc", "OpMalloc", "Finalize",
        "SectionsFree", "OpFree", "ExitAfterProcess"}
  BY <1>1, <1>3
<1>7. Script(h, Steps(q), {q[i] : i \in DOMAIN q})
  BY <1>2, <1>4, <1>5, StepsScript
<1> QED BY <1>6, <1>7 DEF q

LEMMA TwoRtTail ==
    ASSUME NEW h
    PROVE  Script(h, Steps(<<"GetLaunchEvent", "OpMalloc", "Finalize", "SectionsFree",
             "OverflowFree", "OpFree", "ExitAfterProcess">>), {"GetLaunchEvent", "OpMalloc",
                 "Finalize", "SectionsFree", "OverflowFree", "OpFree", "ExitAfterProcess"})
<1> DEFINE q == <<"GetLaunchEvent", "OpMalloc", "Finalize", "SectionsFree", "OverflowFree",
      "OpFree", "ExitAfterProcess">>
<1>1. /\ DOMAIN q = 1..7 /\ Len(q) = 7
      /\ q[1] = "GetLaunchEvent" /\ q[2] = "OpMalloc" /\ q[3] = "Finalize"
            /\ q[4] = "SectionsFree" /\ q[5] = "OverflowFree" /\ q[6] = "OpFree"
                  /\ q[7] = "ExitAfterProcess"
  OBVIOUS
<1>2. q \in Seq(CallNames)
  BY DEF CallNames, Late, Withdrawals, Events
<1> HIDE DEF q
<1>3. 1..7 = {1, 2, 3, 4, 5, 6, 7}
  OBVIOUS
<1>4. Rising(h, q)
  BY <1>1, <1>3, Ranks DEF Rising
<1>5. \A i \in DOMAIN q : Calm(q[i])
  BY <1>1, <1>3 DEF Calm
<1>6. {q[i] : i \in DOMAIN q} = {"GetLaunchEvent", "OpMalloc", "Finalize", "SectionsFree",
        "OverflowFree", "OpFree", "ExitAfterProcess"}
  BY <1>1, <1>3
<1>7. Script(h, Steps(q), {q[i] : i \in DOMAIN q})
  BY <1>2, <1>4, <1>5, StepsScript
<1> QED BY <1>6, <1>7 DEF q

LEMMA GuardedMaking ==
    ASSUME NEW h, h \in Guarded
    PROVE  Script(h, <<Leave("Init"), Leave("ExpandArgs"), Go("RunDBITask"),
             Go("FillAllMemGuard")>>,
                  {"Init", "ExpandArgs", "RunDBITask", "FillAllMemGuard"})
<1> DEFINE s == <<Leave("Init"), Leave("ExpandArgs"), Go("RunDBITask"), Go("FillAllMemGuard")>>
<1>1. /\ DOMAIN s = 1..4 /\ Len(s) = 4
      /\ s[1].call = "Init" /\ s[1].onFail = "leave"
      /\ s[2].call = "ExpandArgs" /\ s[2].onFail = "leave"
      /\ s[3].call = "RunDBITask" /\ s[3].onFail = "go"
      /\ s[4].call = "FillAllMemGuard" /\ s[4].onFail = "go"
  BY DEF Go, Leave, Undo
<1>2. s \in Seq(StepT)
  BY StepType DEF CallNames, Late, Withdrawals, Events
<1> HIDE DEF s
<1>3. 1..4 = {1, 2, 3, 4}
  OBVIOUS
<1>4. Sorted(h, s)
  BY <1>1, <1>3, Ranks DEF Sorted, Guarded, InstrumentsFirst, RtHooks
<1>5. Modes(h, s)
  BY <1>1, <1>3 DEF Modes, InitMode, RtHooks, Guarded, InstrumentsFirst
<1>6. CallsIn(s) = {"Init", "ExpandArgs", "RunDBITask", "FillAllMemGuard"}
  BY <1>1, <1>3 DEF CallsIn
<1> QED BY <1>2, <1>4, <1>5, <1>6 DEF Script, s

LEMMA ArgsArrayMaking ==
    ASSUME NEW h, h = "WithArgsArray"
    PROVE  Script(h, <<Leave("Init"), Leave("ExpandArgs"), Go("RunDBITask")>>,
                  {"Init", "ExpandArgs", "RunDBITask"})
<1> DEFINE s == <<Leave("Init"), Leave("ExpandArgs"), Go("RunDBITask")>>
<1>1. /\ DOMAIN s = 1..3 /\ Len(s) = 3
      /\ s[1].call = "Init" /\ s[1].onFail = "leave"
      /\ s[2].call = "ExpandArgs" /\ s[2].onFail = "leave"
      /\ s[3].call = "RunDBITask" /\ s[3].onFail = "go"
  BY DEF Go, Leave, Undo
<1>2. s \in Seq(StepT)
  BY StepType DEF CallNames, Late, Withdrawals, Events
<1> HIDE DEF s
<1>3. 1..3 = {1, 2, 3}
  OBVIOUS
<1>4. Sorted(h, s)
  BY <1>1, <1>3, Ranks DEF Sorted, InstrumentsFirst, RtHooks
<1>5. Modes(h, s)
  BY <1>1, <1>3 DEF Modes, InitMode, RtHooks, InstrumentsFirst
<1>6. CallsIn(s) = {"Init", "ExpandArgs", "RunDBITask"}
  BY <1>1, <1>3 DEF CallsIn
<1> QED BY <1>2, <1>4, <1>5, <1>6 DEF Script, s

LEMMA HostArgsMaking ==
    ASSUME NEW h, h = "WithHostArgs"
    PROVE  Script(h, <<Go("MakeInstrumented"), Undo("Init"), Undo("ExpandArgs"), Go("Commit")>>,
                  {"MakeInstrumented", "Init", "ExpandArgs", "Commit"})
<1> DEFINE s == <<Go("MakeInstrumented"), Undo("Init"), Undo("ExpandArgs"), Go("Commit")>>
<1>1. /\ DOMAIN s = 1..4 /\ Len(s) = 4
      /\ s[1].call = "MakeInstrumented" /\ s[1].onFail = "go"
      /\ s[2].call = "Init" /\ s[2].onFail = "undo"
      /\ s[3].call = "ExpandArgs" /\ s[3].onFail = "undo"
      /\ s[4].call = "Commit" /\ s[4].onFail = "go"
  BY DEF Go, Leave, Undo
<1>2. s \in Seq(StepT)
  BY StepType DEF CallNames, Late, Withdrawals, Events
<1> HIDE DEF s
<1>3. 1..4 = {1, 2, 3, 4}
  OBVIOUS
<1>4. Sorted(h, s)
  BY <1>1, <1>3, Ranks DEF Sorted
<1>5. Modes(h, s)
  BY <1>1, <1>3 DEF Modes, InitMode, RtHooks
<1>6. CallsIn(s) = {"MakeInstrumented", "Init", "ExpandArgs", "Commit"}
  BY <1>1, <1>3 DEF CallsIn
<1> QED BY <1>2, <1>4, <1>5, <1>6 DEF Script, s

LEMMA SimtArrayMaking ==
    ASSUME NEW h, h = "SIMTWithArgsArray"
    PROVE  Script(h, <<Leave("Clone"), Go("RunDBITask"), Go("SectionsMalloc"), Go("OpMalloc"),
             Leave("Init"), Leave("ExpandArgs")>>,
                  {"Clone", "RunDBITask", "SectionsMalloc", "OpMalloc", "Init", "ExpandArgs"})
<1> DEFINE s == <<Leave("Clone"), Go("RunDBITask"), Go("SectionsMalloc"), Go("OpMalloc"),
      Leave("Init"), Leave("ExpandArgs")>>
<1>1. /\ DOMAIN s = 1..6 /\ Len(s) = 6
      /\ s[1].call = "Clone" /\ s[1].onFail = "leave"
      /\ s[2].call = "RunDBITask" /\ s[2].onFail = "go"
      /\ s[3].call = "SectionsMalloc" /\ s[3].onFail = "go"
      /\ s[4].call = "OpMalloc" /\ s[4].onFail = "go"
      /\ s[5].call = "Init" /\ s[5].onFail = "leave"
      /\ s[6].call = "ExpandArgs" /\ s[6].onFail = "leave"
  BY DEF Go, Leave, Undo
<1>2. s \in Seq(StepT)
  BY StepType DEF CallNames, Late, Withdrawals, Events
<1> HIDE DEF s
<1>3. 1..6 = {1, 2, 3, 4, 5, 6}
  OBVIOUS
<1>4. Sorted(h, s)
  BY <1>1, <1>3, Ranks DEF Sorted, InstrumentsFirst, RtHooks
<1>5. Modes(h, s)
  BY <1>1, <1>3 DEF Modes, InitMode, RtHooks, InstrumentsFirst
<1>6. CallsIn(s) = {"Clone", "RunDBITask", "SectionsMalloc", "OpMalloc", "Init", "ExpandArgs"}
  BY <1>1, <1>3 DEF CallsIn
<1> QED BY <1>2, <1>4, <1>5, <1>6 DEF Script, s

LEMMA SimtHostMaking ==
    ASSUME NEW h, h = "SIMTWithHostArgs"
    PROVE  Script(h, <<Go("RunDBITask"), Go("SectionsMalloc"), Go("OpMalloc"), Leave("Init"),
             Leave("ExpandArgs")>>,
                  {"RunDBITask", "SectionsMalloc", "OpMalloc", "Init", "ExpandArgs"})
<1> DEFINE s == <<Go("RunDBITask"), Go("SectionsMalloc"), Go("OpMalloc"), Leave("Init"),
      Leave("ExpandArgs")>>
<1>1. /\ DOMAIN s = 1..5 /\ Len(s) = 5
      /\ s[1].call = "RunDBITask" /\ s[1].onFail = "go"
      /\ s[2].call = "SectionsMalloc" /\ s[2].onFail = "go"
      /\ s[3].call = "OpMalloc" /\ s[3].onFail = "go"
      /\ s[4].call = "Init" /\ s[4].onFail = "leave"
      /\ s[5].call = "ExpandArgs" /\ s[5].onFail = "leave"
  BY DEF Go, Leave, Undo
<1>2. s \in Seq(StepT)
  BY StepType DEF CallNames, Late, Withdrawals, Events
<1> HIDE DEF s
<1>3. 1..5 = {1, 2, 3, 4, 5}
  OBVIOUS
<1>4. Sorted(h, s)
  BY <1>1, <1>3, Ranks DEF Sorted, InstrumentsFirst, RtHooks
<1>5. Modes(h, s)
  BY <1>1, <1>3 DEF Modes, InitMode, RtHooks, InstrumentsFirst
<1>6. CallsIn(s) = {"RunDBITask", "SectionsMalloc", "OpMalloc", "Init", "ExpandArgs"}
  BY <1>1, <1>3 DEF CallsIn
<1> QED BY <1>2, <1>4, <1>5, <1>6 DEF Script, s

LEMMA RtTellingLast ==
    ASSUME NEW h, h \in RtHooks
    PROVE  Script(h, <<Go("RunDBITask"), Leave("GetLastLaunchEvent"), Leave("GetDevBinary"),
             Go("SectionsMalloc"), Go("OverflowMalloc")>>,
                  {"RunDBITask", "GetLastLaunchEvent", "GetDevBinary", "SectionsMalloc",
                      "OverflowMalloc"})
<1> DEFINE s == <<Go("RunDBITask"), Leave("GetLastLaunchEvent"), Leave("GetDevBinary"),
      Go("SectionsMalloc"), Go("OverflowMalloc")>>
<1>1. /\ DOMAIN s = 1..5 /\ Len(s) = 5
      /\ s[1].call = "RunDBITask" /\ s[1].onFail = "go"
      /\ s[2].call = "GetLastLaunchEvent" /\ s[2].onFail = "leave"
      /\ s[3].call = "GetDevBinary" /\ s[3].onFail = "leave"
      /\ s[4].call = "SectionsMalloc" /\ s[4].onFail = "go"
      /\ s[5].call = "OverflowMalloc" /\ s[5].onFail = "go"
  BY DEF Go, Leave, Undo
<1>2. s \in Seq(StepT)
  BY StepType DEF CallNames, Late, Withdrawals, Events
<1> HIDE DEF s
<1>3. 1..5 = {1, 2, 3, 4, 5}
  OBVIOUS
<1>4. Sorted(h, s)
  BY <1>1, <1>3, Ranks DEF Sorted, InstrumentsFirst, RtHooks
<1>5. Modes(h, s)
  BY <1>1, <1>3 DEF Modes, InitMode, RtHooks, InstrumentsFirst
<1>6. CallsIn(s) = {"RunDBITask", "GetLastLaunchEvent", "GetDevBinary", "SectionsMalloc",
        "OverflowMalloc"}
  BY <1>1, <1>3 DEF CallsIn
<1> QED BY <1>2, <1>4, <1>5, <1>6 DEF Script, s

LEMMA RtTellingOwn ==
    ASSUME NEW h, h \in RtHooks
    PROVE  Script(h, <<Go("RunDBITask"), Leave("GetLaunchEvent"), Leave("GetDevBinary"),
             Go("SectionsMalloc"), Go("OverflowMalloc")>>,
                  {"RunDBITask", "GetLaunchEvent", "GetDevBinary", "SectionsMalloc",
                      "OverflowMalloc"})
<1> DEFINE s == <<Go("RunDBITask"), Leave("GetLaunchEvent"), Leave("GetDevBinary"),
      Go("SectionsMalloc"), Go("OverflowMalloc")>>
<1>1. /\ DOMAIN s = 1..5 /\ Len(s) = 5
      /\ s[1].call = "RunDBITask" /\ s[1].onFail = "go"
      /\ s[2].call = "GetLaunchEvent" /\ s[2].onFail = "leave"
      /\ s[3].call = "GetDevBinary" /\ s[3].onFail = "leave"
      /\ s[4].call = "SectionsMalloc" /\ s[4].onFail = "go"
      /\ s[5].call = "OverflowMalloc" /\ s[5].onFail = "go"
  BY DEF Go, Leave, Undo
<1>2. s \in Seq(StepT)
  BY StepType DEF CallNames, Late, Withdrawals, Events
<1> HIDE DEF s
<1>3. 1..5 = {1, 2, 3, 4, 5}
  OBVIOUS
<1>4. Sorted(h, s)
  BY <1>1, <1>3, Ranks DEF Sorted, InstrumentsFirst, RtHooks
<1>5. Modes(h, s)
  BY <1>1, <1>3 DEF Modes, InitMode, RtHooks, InstrumentsFirst
<1>6. CallsIn(s) = {"RunDBITask", "GetLaunchEvent", "GetDevBinary", "SectionsMalloc",
        "OverflowMalloc"}
  BY <1>1, <1>3 DEF CallsIn
<1> QED BY <1>2, <1>4, <1>5, <1>6 DEF Script, s

LEMMA RtMaking ==
    ASSUME NEW h, h \in RtHooks
    PROVE  Script(h, <<Go("Init"), Go("ExpandArgs"), Go("FillAllMemGuard")>>,
                  {"Init", "ExpandArgs", "FillAllMemGuard"})
<1> DEFINE s == <<Go("Init"), Go("ExpandArgs"), Go("FillAllMemGuard")>>
<1>1. /\ DOMAIN s = 1..3 /\ Len(s) = 3
      /\ s[1].call = "Init" /\ s[1].onFail = "go"
      /\ s[2].call = "ExpandArgs" /\ s[2].onFail = "go"
      /\ s[3].call = "FillAllMemGuard" /\ s[3].onFail = "go"
  BY DEF Go, Leave, Undo
<1>2. s \in Seq(StepT)
  BY StepType DEF CallNames, Late, Withdrawals, Events
<1> HIDE DEF s
<1>3. 1..3 = {1, 2, 3}
  OBVIOUS
<1>4. Sorted(h, s)
  BY <1>1, <1>3, Ranks DEF Sorted, RtHooks
<1>5. Modes(h, s)
  BY <1>1, <1>3 DEF Modes, InitMode, RtHooks
<1>6. CallsIn(s) = {"Init", "ExpandArgs", "FillAllMemGuard"}
  BY <1>1, <1>3 DEF CallsIn
<1> QED BY <1>2, <1>4, <1>5, <1>6 DEF Script, s

LEMMA StepScript ==
    ASSUME NEW h, NEW c \in CallNames, Calm(c)
    PROVE  Script(h, Steps(<<c>>), {c})
<1> DEFINE q == <<c>>
<1>1. q \in Seq(CallNames) /\ DOMAIN q = {1} /\ q[1] = c
  OBVIOUS
<1>2. Rising(h, q) /\ \A i \in DOMAIN q : Calm(q[i])
  BY <1>1 DEF Rising
<1>3. {q[i] : i \in DOMAIN q} = {c}
  BY <1>1
<1> QED BY <1>1, <1>2, <1>3, StepsScript

LEMMA LeaveScript ==
    ASSUME NEW h, NEW c \in {"CreateContext", "GetSectionHeaders", "GetLastLaunchEvent"}
    PROVE  Script(h, <<Leave(c)>>, {c})
<1> DEFINE s == <<Leave(c)>>
<1>1. c \in CallNames
  BY DEF CallNames, Late, Events
<1>2. s \in Seq(StepT) /\ DOMAIN s = {1} /\ s[1].call = c /\ s[1].onFail = "leave"
  BY <1>1, StepType
<1> HIDE DEF s
<1>3. Sorted(h, s) /\ Modes(h, s) /\ CallsIn(s) = {c}
  BY <1>2 DEF Sorted, Modes, CallsIn
<1> QED BY <1>2, <1>3 DEF Script, s

\* InitParam.
LEMMA InitScript == ASSUME NEW h \in Hooks PROVE Script(h, InitParam(h), InitCalls(h))
<1>1. CASE h \in AclHooks
  <2>1. \A x \in {"CreateContext"}, y \in {"UpdateOpMemInfo", "ArchiveMemInfo"} :
           x # y /\ Rank(h, x) <= Rank(h, y)
    BY Ranks
  <2>2. Script(h, AclInitParam, {"CreateContext"} \cup {"UpdateOpMemInfo", "ArchiveMemInfo"})
    BY <2>1, LeaveScript, DescribeScript, ConcatScript DEF AclInitParam
  <2> QED BY <2>2, <1>1 DEF InitParam, InitCalls
<1>2. CASE h \notin AclHooks
  BY <1>2, RtInitScript DEF InitParam, RtInitParam, InitCalls
<1> QED BY <1>1, <1>2

LEMMA Singles ==
    ASSUME NEW h
    PROVE  /\ Script(h, Announce, {"ReportKernelSummary"})
           /\ Script(h, Steps(<<"SetSkipKernelFlag">>), {"SetSkipKernelFlag"})
           /\ Script(h, Steps(<<"ResetMemoryInit">>), {"ResetMemoryInit"})
           /\ Script(h, Steps(<<"LaunchDumpTask">>), {"LaunchDumpTask"})
           /\ Script(h, Steps(<<"OuterInit">>), {"OuterInit"})
           /\ Script(h, Steps(<<"OuterFinalize">>), {"OuterFinalize"})
           /\ Script(h, Steps(<<"FreeBuffer">>), {"FreeBuffer"})
           /\ Script(h, <<>>, {})
BY StepScript, EmptyScript DEF CallNames, Calm, Announce

\* SanitizerPre, hook by hook.
LEMMA LaunchKernelV2PreScript ==
    ASSUME NEW skip \in BOOLEAN, NEW sink \in BOOLEAN
    PROVE  Script("LaunchKernelV2", LaunchKernelV2Pre(skip, sink), PreCalls("LaunchKernelV2",
             skip, sink))
<1> DEFINE h == "LaunchKernelV2"
<1>1. Script(h, Announce, {"ReportKernelSummary"}) /\ Script(h, <<>>, {})
  BY Singles
<1>2. CASE skip \/ sink
  BY <1>1, <1>2 DEF LaunchKernelV2Pre, PreCalls, RtHooks
<1>3. CASE ~skip /\ ~sink
  <2>3. \A x \in {"ReportKernelSummary"}, y \in {"Init", "ExpandArgs", "RunDBITask",
          "FillAllMemGuard"} :
           x # y /\ Rank(h, x) <= Rank(h, y)
    BY Ranks DEF InstrumentsFirst, RtHooks
  <2>1. Script(h, LaunchKernelV2Pre(skip, sink), {"ReportKernelSummary"} \cup {"Init",
          "ExpandArgs", "RunDBITask", "FillAllMemGuard"})
    BY <1>1, <1>3, <2>3, GuardedMaking, ConcatScript DEF LaunchKernelV2Pre, Guarded
  <2>2. PreCalls(h, skip, sink) = {"ReportKernelSummary"} \cup {"Init", "ExpandArgs",
          "RunDBITask", "FillAllMemGuard"}
    BY <1>3 DEF PreCalls, Making, SimtHooks, RtHooks
  <2> QED BY <2>1, <2>2
<1> QED BY <1>2, <1>3

LEMMA LaunchKernelWithConfigPreScript ==
    ASSUME NEW skip \in BOOLEAN, NEW sink \in BOOLEAN
    PROVE  Script("LaunchKernelWithConfig", LaunchKernelWithConfigPre(skip, sink),
             PreCalls("LaunchKernelWithConfig", skip, sink))
<1> DEFINE h == "LaunchKernelWithConfig"
<1>1. Script(h, Announce, {"ReportKernelSummary"}) /\ Script(h, <<>>, {})
  BY Singles
<1>2. CASE skip \/ sink
  BY <1>1, <1>2 DEF LaunchKernelWithConfigPre, PreCalls, RtHooks
<1>3. CASE ~skip /\ ~sink
  <2>3. \A x \in {"ReportKernelSummary"}, y \in {"Init", "ExpandArgs", "RunDBITask",
          "FillAllMemGuard"} :
           x # y /\ Rank(h, x) <= Rank(h, y)
    BY Ranks DEF InstrumentsFirst, RtHooks
  <2>1. Script(h, LaunchKernelWithConfigPre(skip, sink), {"ReportKernelSummary"} \cup {"Init",
          "ExpandArgs", "RunDBITask", "FillAllMemGuard"})
    BY <1>1, <1>3, <2>3, GuardedMaking, ConcatScript DEF LaunchKernelWithConfigPre, Guarded
  <2>2. PreCalls(h, skip, sink) = {"ReportKernelSummary"} \cup {"Init", "ExpandArgs",
          "RunDBITask", "FillAllMemGuard"}
    BY <1>3 DEF PreCalls, Making, SimtHooks, RtHooks
  <2> QED BY <2>1, <2>2
<1> QED BY <1>2, <1>3

LEMMA WithHostArgsPreScript ==
    ASSUME NEW skip \in BOOLEAN, NEW sink \in BOOLEAN
    PROVE  Script("WithHostArgs", WithHostArgsPre(skip, sink), PreCalls("WithHostArgs", skip,
             sink))
<1> DEFINE h == "WithHostArgs"
<1>1. Script(h, Announce, {"ReportKernelSummary"}) /\ Script(h, <<>>, {})
  BY Singles
<1>2. CASE skip \/ sink
  BY <1>1, <1>2 DEF WithHostArgsPre, PreCalls, RtHooks
<1>3. CASE ~skip /\ ~sink
  BY Ranks, <1>1, <1>3, HostArgsMaking, ConcatScript DEF InstrumentsFirst, RtHooks,
     WithHostArgsPre, PreCalls, Making, SimtHooks
<1> QED BY <1>2, <1>3

LEMMA WithArgsArrayPreScript ==
    ASSUME NEW skip \in BOOLEAN, NEW sink \in BOOLEAN
    PROVE  Script("WithArgsArray", WithArgsArrayPre(skip, sink), PreCalls("WithArgsArray", skip,
             sink))
<1> DEFINE h == "WithArgsArray"
<1>1. Script(h, Announce, {"ReportKernelSummary"}) /\ Script(h, <<>>, {})
  BY Singles
<1>2. CASE skip \/ sink
  BY <1>1, <1>2 DEF WithArgsArrayPre, PreCalls, RtHooks
<1>3. CASE ~skip /\ ~sink
  BY Ranks, <1>1, <1>3, ArgsArrayMaking, ConcatScript DEF InstrumentsFirst, RtHooks,
     WithArgsArrayPre, PreCalls, Making, SimtHooks
<1> QED BY <1>2, <1>3

LEMMA SIMTWithArgsArrayPreScript ==
    ASSUME NEW skip \in BOOLEAN, NEW sink \in BOOLEAN
    PROVE  Script("SIMTWithArgsArray", SIMTWithArgsArrayPre(skip, sink),
             PreCalls("SIMTWithArgsArray", skip, sink))
<1> DEFINE h == "SIMTWithArgsArray"
<1>1. Script(h, Announce, {"ReportKernelSummary"}) /\ Script(h, <<>>, {})
  BY Singles
<1>2. CASE skip \/ sink
  BY <1>1, <1>2 DEF SIMTWithArgsArrayPre, PreCalls, RtHooks
<1>3. CASE ~skip /\ ~sink
  BY Ranks, <1>1, <1>3, SimtArrayMaking, ConcatScript DEF InstrumentsFirst, RtHooks,
     SIMTWithArgsArrayPre, PreCalls, Making, SimtHooks
<1> QED BY <1>2, <1>3

LEMMA SIMTWithHostArgsPreScript ==
    ASSUME NEW skip \in BOOLEAN, NEW sink \in BOOLEAN
    PROVE  Script("SIMTWithHostArgs", SIMTWithHostArgsPre(skip, sink),
             PreCalls("SIMTWithHostArgs", skip, sink))
<1> DEFINE h == "SIMTWithHostArgs"
<1>1. Script(h, Announce, {"ReportKernelSummary"}) /\ Script(h, <<>>, {})
  BY Singles
<1>2. CASE skip \/ sink
  BY <1>1, <1>2 DEF SIMTWithHostArgsPre, PreCalls, RtHooks
<1>3. CASE ~skip /\ ~sink
  BY Ranks, <1>1, <1>3, SimtHostMaking, ConcatScript DEF InstrumentsFirst, RtHooks,
     SIMTWithHostArgsPre, PreCalls, Making, SimtHooks
<1> QED BY <1>2, <1>3

LEMMA LaunchKernelPreScript ==
    ASSUME NEW skip \in BOOLEAN, NEW sink \in BOOLEAN
    PROVE  Script("LaunchKernel", LaunchKernelPre(skip, sink), PreCalls("LaunchKernel", skip,
             sink))
<1> DEFINE h == "LaunchKernel"
           making == {"Init", "ExpandArgs", "RunDBITask", "FillAllMemGuard"}
           rest == IF skip THEN making ELSE {"ReportKernelSummary"} \cup making
<1>1. Script(h, <<Leave("Init"), Leave("ExpandArgs"), Go("RunDBITask"), Go("FillAllMemGuard")>>,
             making)
  BY GuardedMaking DEF Guarded
<1>2. Script(h, (IF skip THEN <<>> ELSE Announce)
                \o <<Leave("Init"), Leave("ExpandArgs"), Go("RunDBITask"), Go("FillAllMemGuard")>>,
             rest)
  <2>1. CASE skip
    BY <1>1, Singles, ConcatScript, <2>1
  <2>2. CASE ~skip
    <3>1. \A x \in {"ReportKernelSummary"}, y \in making : x # y /\ Rank(h, x) <= Rank(h, y)
      BY Ranks DEF InstrumentsFirst, RtHooks
    <3>2. Script(h, Announce \o <<Leave("Init"), Leave("ExpandArgs"), Go("RunDBITask"),
                                  Go("FillAllMemGuard")>>, {"ReportKernelSummary"} \cup making)
      BY <1>1, <3>1, Singles, ConcatScript
    <3> QED BY <3>2, <2>2
  <2> QED BY <2>1, <2>2
<1>3. CASE sink /\ ~skip
  BY <1>3, Singles, ConcatScript DEF LaunchKernelPre, PreCalls
<1>4. CASE ~(sink /\ ~skip)
  <2>3. \A x \in {"SetSkipKernelFlag"}, y \in rest : x # y /\ Rank(h, x) <= Rank(h, y)
    BY Ranks DEF InstrumentsFirst, RtHooks
  <2>1. Script(h, LaunchKernelPre(skip, sink), {"SetSkipKernelFlag"} \cup rest)
    BY <1>4, <1>2, <2>3, Singles, ConcatScript DEF LaunchKernelPre
  <2>2. {"SetSkipKernelFlag"} \cup rest = PreCalls(h, skip, sink)
    BY <1>4 DEF PreCalls, Making, RtHooks, SimtHooks
  <2> QED BY <2>1, <2>2
<1> QED BY <1>3, <1>4

LEMMA RtPreScript ==
    ASSUME NEW h \in RtHooks, NEW skip \in BOOLEAN, NEW sink \in BOOLEAN,
           NEW event, event = IF h = "rtKernelLaunchWithFlagV2" THEN "GetLaunchEvent"
                              ELSE "GetLastLaunchEvent"
    PROVE  Script(h, RtPre(skip, sink, event), PreCalls(h, skip, sink))
<1> DEFINE making == {"Init", "ExpandArgs", "FillAllMemGuard"}
           telling == {"RunDBITask", event, "GetDevBinary", "SectionsMalloc", "OverflowMalloc"}
           rest == IF skip THEN making ELSE {"ReportKernelSummary"} \cup telling \cup making
           a == <<Go("RunDBITask"), Leave(event), Leave("GetDevBinary"),
                  Go("SectionsMalloc"), Go("OverflowMalloc")>>
           b == <<Go("Init"), Go("ExpandArgs"), Go("FillAllMemGuard")>>
<1>1. Script(h, a, telling) /\ Script(h, b, making)
  BY RtTellingLast, RtTellingOwn, RtMaking
<1> HIDE DEF a, b
<1>0. h \in InstrumentsFirst
  BY DEF InstrumentsFirst
<1>2. Script(h, (IF skip THEN <<>> ELSE Announce \o a) \o b, rest)
  <2>1. CASE skip
    BY <1>1, Singles, ConcatScript, <2>1
  <2>2. CASE ~skip
    <3>1. /\ \A x \in {"ReportKernelSummary"}, y \in telling :
                x # y /\ Rank(h, x) <= Rank(h, y)
          /\ \A x \in {"ReportKernelSummary"} \cup telling, y \in making :
                x # y /\ Rank(h, x) <= Rank(h, y)
      BY <1>0, Ranks
    <3>2. Script(h, Announce \o a, {"ReportKernelSummary"} \cup telling)
      BY <3>1, <1>1, Singles, ConcatScript
    <3>3. Script(h, (Announce \o a) \o b, ({"ReportKernelSummary"} \cup telling) \cup making)
      BY <3>1, <3>2, <1>1, ConcatScript
    <3> QED BY <3>3, <2>2
  <2> QED BY <2>1, <2>2
<1>3. CASE sink /\ ~skip
  BY <1>3, Singles, ConcatScript DEF RtPre, PreCalls
<1>4. CASE ~(sink /\ ~skip)
  <2>1. RtPre(skip, sink, event)
          = Steps(<<"SetSkipKernelFlag">>) \o ((IF skip THEN <<>> ELSE Announce \o a) \o b)
    BY <1>4 DEF RtPre, a, b
  <2>4. \A x \in {"SetSkipKernelFlag"}, y \in rest : x # y /\ Rank(h, x) <= Rank(h, y)
    BY <1>0, Ranks
  <2> HIDE DEF rest, making, telling
  <2> DEFINE c == (IF skip THEN <<>> ELSE Announce \o a) \o b
  <2>5. Script(h, c, rest)
    BY <1>2
  <2> HIDE DEF c
  <2>6. Script(h, Steps(<<"SetSkipKernelFlag">>) \o c, {"SetSkipKernelFlag"} \cup rest)
    BY <2>4, <2>5, Singles, ConcatScript
  <2>2. Script(h, RtPre(skip, sink, event), {"SetSkipKernelFlag"} \cup rest)
    BY <2>1, <2>6 DEF c
  <2>3. {"SetSkipKernelFlag"} \cup rest = PreCalls(h, skip, sink)
    BY <1>4 DEF PreCalls, Making, RtHooks, SimtHooks, rest, making, telling
  <2> QED BY <2>2, <2>3
<1> QED BY <1>3, <1>4

LEMMA PreScript ==
    ASSUME NEW h \in Hooks, NEW skip \in BOOLEAN, NEW sink \in BOOLEAN
    PROVE  Script(h, SanitizerPre(h, skip, sink), PreCalls(h, skip, sink))
BY RtPreScript, LaunchKernelPreScript, LaunchKernelV2PreScript, LaunchKernelWithConfigPreScript,
   WithHostArgsPreScript, WithArgsArrayPreScript, SIMTWithArgsArrayPreScript,
   SIMTWithHostArgsPreScript DEF Hooks, AclHooks, RtHooks, SanitizerPre, KernelLaunchPre,
   KernelLaunchWithFlagV2Pre, KernelLaunchWithHandleV2Pre

\* SanitizerPost.
LEMMA CatWhen ==
    ASSUME NEW h, NEW a, NEW b, NEW A, NEW B, NEW N, Script(h, a, A), Script(h, b, B),
           \A x \in A, y \in B : x # y /\ Rank(h, x) <= Rank(h, y), N = A \cup B
    PROVE  Script(h, a \o b, N)
BY ConcatScript

LEMMA GuardedPostScript ==
    ASSUME NEW h
    PROVE  Script(h, GuardedPost, {"Sync", "CheckAllMemGuard", "GetSectionHeaders", "SectionsMalloc",
                                   "Finalize", "SectionsFree", "ExitAfterProcess"})
<1>1. \A x \in {"Sync", "CheckAllMemGuard"}, y \in {"GetSectionHeaders"} :
         x # y /\ Rank(h, x) <= Rank(h, y)
  BY Ranks
<1>2. Script(h, Steps(<<"Sync", "CheckAllMemGuard">>) \o <<Leave("GetSectionHeaders")>>,
             {"Sync", "CheckAllMemGuard", "GetSectionHeaders"})
  BY <1>1, WaitScript, LeaveScript, CatWhen
<1>3. \A x \in {"Sync", "CheckAllMemGuard", "GetSectionHeaders"},
        y \in {"SectionsMalloc", "Finalize", "SectionsFree", "ExitAfterProcess"} :
         x # y /\ Rank(h, x) <= Rank(h, y)
  BY Ranks
<1> QED BY <1>2, <1>3, GuardedTail, CatWhen DEF GuardedPost

LEMMA ArgsArrayPostScript ==
    ASSUME NEW h
    PROVE  Script(h, Steps(<<"Sync", "OpMalloc">>) \o <<Leave("GetSectionHeaders")>>
                     \o Steps(<<"SectionsMalloc", "Finalize", "SectionsFree", "OpFree",
                                "ExitAfterProcess">>),
                  {"Sync", "OpMalloc", "GetSectionHeaders", "SectionsMalloc", "Finalize",
                   "SectionsFree", "OpFree", "ExitAfterProcess"})
<1>1. \A x \in {"Sync", "OpMalloc"}, y \in {"GetSectionHeaders"} :
         x # y /\ Rank(h, x) <= Rank(h, y)
  BY Ranks
<1>2. Script(h, Steps(<<"Sync", "OpMalloc">>) \o <<Leave("GetSectionHeaders")>>,
             {"Sync", "OpMalloc", "GetSectionHeaders"})
  BY <1>1, WaitTensorsScript, LeaveScript, CatWhen
<1>3. \A x \in {"Sync", "OpMalloc", "GetSectionHeaders"},
        y \in {"SectionsMalloc", "Finalize", "SectionsFree", "OpFree", "ExitAfterProcess"} :
         x # y /\ Rank(h, x) <= Rank(h, y)
  BY Ranks
<1> QED BY <1>2, <1>3, ArgsArrayTail, CatWhen

LEMMA RtLaunchPostScript ==
    ASSUME NEW h
    PROVE  Script(h, Steps(<<"Sync", "CheckAllMemGuard">>) \o <<Leave("GetLastLaunchEvent")>>
                     \o Steps(<<"Finalize", "SectionsFree", "OverflowFree", "ExitAfterProcess">>),
                  {"Sync", "CheckAllMemGuard", "GetLastLaunchEvent", "Finalize", "SectionsFree",
                   "OverflowFree", "ExitAfterProcess"})
<1>1. \A x \in {"Sync", "CheckAllMemGuard"}, y \in {"GetLastLaunchEvent"} :
         x # y /\ Rank(h, x) <= Rank(h, y)
  BY Ranks
<1>2. Script(h, Steps(<<"Sync", "CheckAllMemGuard">>) \o <<Leave("GetLastLaunchEvent")>>,
             {"Sync", "CheckAllMemGuard", "GetLastLaunchEvent"})
  BY <1>1, WaitScript, LeaveScript, CatWhen
<1>3. \A x \in {"Sync", "CheckAllMemGuard", "GetLastLaunchEvent"},
        y \in {"Finalize", "SectionsFree", "OverflowFree", "ExitAfterProcess"} :
         x # y /\ Rank(h, x) <= Rank(h, y)
  BY Ranks
<1> QED BY <1>2, <1>3, RtTail, CatWhen

LEMMA PhasesScript ==
    ASSUME NEW h \in Hooks \ TwoRt, NEW skip \in BOOLEAN, NEW sink \in BOOLEAN,
           NEW memInfo \in BOOLEAN, NEW checked, NEW N, Script(h, checked, N),
           ~skip /\ ~sink /\ memInfo => N = PostCalls(h, skip, sink, memInfo)
    PROVE  Script(h, Phases(skip, sink, memInfo, checked), PostCalls(h, skip, sink, memInfo))
<1>1. CASE skip
  BY <1>1, Singles DEF Phases, PostCalls
<1>2. CASE ~skip /\ sink
  BY <1>2, Singles DEF PostCalls, Phases
<1>3. CASE ~skip /\ ~sink /\ memInfo
  BY <1>3 DEF Phases
<1>4. CASE ~skip /\ ~sink /\ ~memInfo
  BY <1>4, Singles DEF Phases, PostCalls
<1> QED BY <1>1, <1>2, <1>3, <1>4

LEMMA TwoRtPostScript ==
    ASSUME NEW h \in TwoRt, NEW skip \in BOOLEAN, NEW sink \in BOOLEAN, NEW memInfo \in BOOLEAN
    PROVE  Script(h, RtPost(skip, sink, memInfo), PostCalls(h, skip, sink, memInfo))
<1> DEFINE checked == {"GetLaunchEvent", "OpMalloc", "Finalize", "SectionsFree", "OverflowFree",
                       "OpFree", "ExitAfterProcess"}
<1>2. CASE skip \/ ~(memInfo \/ sink)
  BY <1>2, Singles DEF RtPost, PostCalls
<1>3. CASE ~skip /\ sink
  <2>1. PostCalls(h, skip, sink, memInfo) = {"Sync", "CheckAllMemGuard"} \cup {"LaunchDumpTask"}
    BY <1>3 DEF PostCalls
  <2>2. RtPost(skip, sink, memInfo)
          = Steps(<<"Sync", "CheckAllMemGuard">>) \o Steps(<<"LaunchDumpTask">>)
    BY <1>3 DEF RtPost
  <2>3. \A x \in {"Sync", "CheckAllMemGuard"}, y \in {"LaunchDumpTask"} :
           x # y /\ Rank(h, x) <= Rank(h, y)
    BY Ranks
  <2>4. Script(h, Steps(<<"Sync", "CheckAllMemGuard">>) \o Steps(<<"LaunchDumpTask">>),
               {"Sync", "CheckAllMemGuard"} \cup {"LaunchDumpTask"})
    BY <2>3, Singles, WaitScript, ConcatScript
  <2> QED BY <2>1, <2>2, <2>4
<1>4. CASE ~skip /\ ~sink /\ memInfo
  <2> DEFINE tail == Steps(<<"GetLaunchEvent", "OpMalloc", "Finalize", "SectionsFree",
                             "OverflowFree", "OpFree", "ExitAfterProcess">>)
  <2>1. PostCalls(h, skip, sink, memInfo) = {"Sync", "CheckAllMemGuard"} \cup checked
    BY <1>4 DEF PostCalls, TwoRt, Guarded, RtHooks, AclHooks, SimtHooks
  <2>2. RtPost(skip, sink, memInfo) = Steps(<<"Sync", "CheckAllMemGuard">>) \o tail
    BY <1>4 DEF RtPost
  <2>3. \A x \in {"Sync", "CheckAllMemGuard"}, y \in checked : x # y /\ Rank(h, x) <= Rank(h, y)
    BY Ranks
  <2>4. Script(h, tail, checked)
    BY TwoRtTail
  <2> HIDE DEF tail, checked
  <2>5. Script(h, Steps(<<"Sync", "CheckAllMemGuard">>) \o tail,
               {"Sync", "CheckAllMemGuard"} \cup checked)
    BY <2>3, <2>4, WaitScript, ConcatScript
  <2> QED BY <2>1, <2>2, <2>5
<1> QED BY <1>2, <1>3, <1>4

LEMMA PostScript ==
    ASSUME NEW h \in Hooks, NEW skip \in BOOLEAN, NEW sink \in BOOLEAN, NEW memInfo \in BOOLEAN
    PROVE  Script(h, SanitizerPost(h, skip, sink, memInfo), PostCalls(h, skip, sink, memInfo))
<1>1. CASE h \in Guarded
  <2>1. ~skip /\ ~sink /\ memInfo => PostCalls(h, skip, sink, memInfo)
           = {"Sync", "CheckAllMemGuard", "GetSectionHeaders", "SectionsMalloc", "Finalize",
              "SectionsFree", "ExitAfterProcess"}
    BY <1>1 DEF PostCalls, Guarded, TwoRt, RtHooks, AclHooks, SimtHooks
  <2>2. Script(h, Phases(skip, sink, memInfo, GuardedPost), PostCalls(h, skip, sink, memInfo))
    BY <2>1, <1>1, GuardedPostScript, PhasesScript DEF Guarded, TwoRt
  <2> QED BY <2>2, <1>1 DEF SanitizerPost, Guarded, LaunchKernelPost, LaunchKernelV2Post,
              LaunchKernelWithConfigPost
<1>2. CASE h = "WithHostArgs"
  <2>1. ~skip /\ ~sink /\ memInfo => PostCalls(h, skip, sink, memInfo)
           = {"Sync", "SectionsMalloc", "OpMalloc", "Finalize", "SectionsFree", "OpFree",
              "ExitAfterProcess"}
    BY <1>2 DEF PostCalls, Guarded, TwoRt, RtHooks, AclHooks, SimtHooks
  <2> QED BY <2>1, <1>2, HostArgsTail, PhasesScript DEF TwoRt, SanitizerPost, WithHostArgsPost
<1>3. CASE h = "WithArgsArray"
  <2>1. ~skip /\ ~sink /\ memInfo => PostCalls(h, skip, sink, memInfo)
           = {"Sync", "OpMalloc", "GetSectionHeaders", "SectionsMalloc", "Finalize",
              "SectionsFree", "OpFree", "ExitAfterProcess"}
    BY <1>3 DEF PostCalls, Guarded, TwoRt, RtHooks, AclHooks, SimtHooks
  <2> QED BY <2>1, <1>3, ArgsArrayPostScript, PhasesScript
          DEF TwoRt, SanitizerPost, WithArgsArrayPost
<1>4. CASE h \in SimtHooks
  <2>1. ~skip /\ ~sink /\ memInfo => PostCalls(h, skip, sink, memInfo)
           = {"Sync", "Finalize", "SectionsFree", "OpFree", "ExitAfterProcess"}
    BY <1>4 DEF PostCalls, Guarded, TwoRt, RtHooks, AclHooks, SimtHooks
  <2>2. Script(h, Phases(skip, sink, memInfo, SIMTPostSteps), PostCalls(h, skip, sink, memInfo))
    BY <2>1, <1>4, SimtTail, PhasesScript DEF SimtHooks, TwoRt, SIMTPostSteps
  <2> QED BY <2>2, <1>4 DEF SanitizerPost, SimtHooks, SIMTWithArgsArrayPost, SIMTWithHostArgsPost
<1>5. CASE h = "rtKernelLaunch"
  <2>1. ~skip /\ ~sink /\ memInfo => PostCalls(h, skip, sink, memInfo)
           = {"Sync", "CheckAllMemGuard", "GetLastLaunchEvent", "Finalize", "SectionsFree",
              "OverflowFree", "ExitAfterProcess"}
    BY <1>5 DEF PostCalls, Guarded, TwoRt, RtHooks, AclHooks, SimtHooks
  <2> QED BY <2>1, <1>5, RtLaunchPostScript, PhasesScript
          DEF TwoRt, SanitizerPost, KernelLaunchPost
<1>6. CASE h \in TwoRt
  BY <1>6, TwoRtPostScript
     DEF TwoRt, SanitizerPost, KernelLaunchWithFlagV2Post, KernelLaunchWithHandleV2Post
<1> QED BY <1>1, <1>2, <1>3, <1>4, <1>5, <1>6
        DEF Hooks, AclHooks, RtHooks, TwoRt, Guarded, SimtHooks

LEMMA PostEndScript ==
    ASSUME NEW h \in Hooks
    PROVE  \E N : N \subseteq {"ClearArgsInfo", "FreeBuffer"} /\ Script(h, PostEnd(h), N)
BY Singles, EndScript DEF PostEnd

-----------------------------------------------------------------------------
(* What a step does to the frame of its call. *)

LEMMA NoCallFrame == NoCall \notin FrameT
BY DEF NoCall, FrameT

LEMMA StepOf ==
    ASSUME NEW f \in FrameT, f.todo # <<>>
    PROVE  /\ Step(f) \in FrameT /\ Quiet(f, Step(f)) /\ Step(f).failed = f.failed
           /\ Step(f).todo = Tail(f.todo)
<1>1. f.todo \in Seq(StepT)
  BY DEF FrameT
<1>2. Tail(f.todo) \in Seq(StepT)
  BY <1>1
<1>3. Step(f) \in FrameT
  BY <1>2 DEF Step, FrameT
<1>4. Quiet(f, Step(f)) /\ Step(f).failed = f.failed /\ Step(f).todo = Tail(f.todo)
  BY DEF Step, FrameT, Quiet, SameCall, SameBuffer, SameCourse, SameLookup
<1> QED BY <1>3, <1>4

\* A step that fails: the rest of the phase is left out unless the hook goes on.
LEMMA FailingOf ==
    ASSUME NEW f \in FrameT, f.todo # <<>>
    PROVE  /\ Failing(f) \in FrameT /\ Failing(f).failed /\ Failing(f).todo # <<>>
           /\ Failing(f).todo[1] = f.todo[1]
           /\ SameCall(f, Failing(f)) /\ SameBuffer(f, Failing(f)) /\ SameLookup(f, Failing(f))
           /\ Failing(f).running = f.running /\ Failing(f).ok = f.ok
           /\ f.todo[1].onFail = "go" => Failing(f).todo = f.todo /\ Failing(f).tracked = f.tracked
           /\ f.todo[1].onFail # "go" =>
                 /\ Tail(Failing(f).todo) = <<>>
                 /\ Failing(f).tracked = (f.tracked /\ f.phase # "init")
<1>1. f.todo \in Seq(StepT) /\ f.todo[1] \in StepT
  BY DEF FrameT
<1>2. CASE f.todo[1].onFail = "go"
  <2>1. Failing(f) = [f EXCEPT !.failed = TRUE]
    BY <1>2 DEF Failing
  <2> HIDE DEF Failing
  <2>2. Failing(f) \in FrameT
    BY <2>1 DEF FrameT
  <2> QED BY <2>1, <2>2, <1>2 DEF FrameT, SameCall, SameBuffer, SameLookup
<1>3. CASE f.todo[1].onFail # "go"
  <2> DEFINE s == <<f.todo[1]>>
             b == f.tracked /\ f.phase # "init"
  <2>1. Failing(f) = [f EXCEPT !.failed = TRUE, !.todo = s, !.tracked = b]
    BY <1>3 DEF Failing, FrameT
  <2>2. s \in Seq(StepT) /\ s # <<>> /\ s[1] = f.todo[1] /\ Tail(s) = <<>>
    BY <1>1
  <2>4. b \in BOOLEAN
    BY DEF FrameT
  <2> HIDE DEF s
  <2>3. Failing(f) \in FrameT
    BY <2>1, <2>2, <2>4 DEF FrameT
  <2>5. Failing(f).todo = s /\ Failing(f).tracked = b
    BY <2>1 DEF FrameT
  <2> HIDE DEF b
  <2>6. /\ Failing(f).failed
        /\ SameCall(f, Failing(f)) /\ SameBuffer(f, Failing(f)) /\ SameLookup(f, Failing(f))
        /\ Failing(f).running = f.running /\ Failing(f).ok = f.ok
    BY <2>1 DEF FrameT, SameCall, SameBuffer, SameLookup
  <2> QED BY <2>2, <2>3, <2>5, <2>6, <1>3 DEF b
<1> QED BY <1>2, <1>3

LEMMA EmptyPending == CallsIn(<<>>) = {}
BY DEF CallsIn

LEMMA WorksOf ==
    ASSUME NEW f \in FrameT, NEW g \in FrameT, ScriptInv(f), f.todo # <<>>, SameCall(f, g),
           f.failed => g.failed,
           f.phase \in {"pre", "post"} => g.sink = f.sink,
           f.phase = "post" => g.mem = f.mem,
           \/ g.todo = Tail(f.todo)
           \/ g.todo = <<>> /\ g.failed /\ f.todo[1].onFail # "go"
    PROVE  Works(f, g)
<1>1. f.todo \in Seq(StepT)
  BY DEF FrameT
<1>2. PhaseCalls(g) = PhaseCalls(f)
  BY DEF SameCall, PhaseCalls, FrameT
<1>3. /\ f.todo[1] \in StepT /\ f.todo[1].call \in Pending(f)
      /\ Sorted(f.hook, Tail(f.todo)) /\ Modes(f.hook, Tail(f.todo))
      /\ CallsIn(Tail(f.todo)) = CallsIn(f.todo) \ {f.todo[1].call}
      /\ \A c \in CallsIn(Tail(f.todo)) : Rank(f.hook, f.todo[1].call) <= Rank(f.hook, c)
  BY <1>1, TailScript DEF ScriptInv, Pending
<1>4. \A c \in Pending(f) : Rank(f.hook, f.todo[1].call) <= Rank(f.hook, c)
  BY <1>3, RankNat DEF Pending
<1>5. CASE g.todo = Tail(f.todo)
  BY <1>2, <1>3, <1>5, <1>4 DEF ScriptInv, Pending, SameCall, Works
<1>6. CASE g.todo = <<>> /\ g.failed /\ f.todo[1].onFail # "go"
  BY <1>6, EmptyScript, EmptyPending, <1>3, <1>4 DEF ScriptInv, Pending, Script, Works
<1> QED BY <1>5, <1>6

\* The call of a thread whose turn it is.
LEMMA AtFacts ==
    ASSUME NEW t \in Threads, Types, CallInv, call[t] # NoCall
    PROVE  call[t] \in FrameT /\ ScriptInv(call[t]) /\ FrameInv(call[t])
BY DEF Types, CallInv

LEMMA RunsOf ==
    ASSUME NEW t \in Threads, Types, CallInv, ~dead, call[t] # NoCall, call[t].todo # <<>>,
           NEW x \in FrameT, x.todo = call[t].todo, SameCall(call[t], x),
           call[t].failed => x.failed,
           call[t].phase \in {"pre", "post"} => x.sink = call[t].sink,
           call[t].phase = "post" => x.mem = call[t].mem,
           Set(t, x)
    PROVE  \E g : /\ Runs(t, g) /\ Quiet(x, g) /\ g.failed = x.failed
                  /\ Pending(g) = Pending(call[t]) \ {call[t].todo[1].call}
<1> DEFINE f == call[t]
           g == Step(x)
<1>1. f \in FrameT /\ ScriptInv(f) /\ FrameInv(f) /\ call \in [Threads -> FrameT \cup {NoCall}]
  BY AtFacts DEF Types
<1>2. g \in FrameT /\ Quiet(x, g) /\ g.failed = x.failed /\ g.todo = Tail(f.todo)
  BY StepOf
<1>3. call' = [call EXCEPT ![t] = g] /\ call'[t] = g
  BY <1>1 DEF Set
<1> HIDE DEF g
<1>4. Works(f, g)
  BY <1>2, <1>1, WorksOf DEF SameCall, Quiet, SameLookup, SameBuffer
<1>6. f.todo \in Seq(StepT)
  BY <1>1 DEF FrameT
<1>5. Pending(g) = Pending(f) \ {f.todo[1].call}
  BY <1>1, <1>2, <1>6, TailScript DEF ScriptInv, Pending
<1> QED BY <1>1, <1>2, <1>3, <1>4, <1>5 DEF Runs

LEMMA RunsFailing ==
    ASSUME NEW t \in Threads, Types, CallInv, ~dead, call[t] # NoCall, call[t].todo # <<>>,
           NEW x \in FrameT, x.todo = call[t].todo, SameCall(call[t], x),
           call[t].phase \in {"pre", "post"} => x.sink = call[t].sink,
           call[t].phase = "post" => x.mem = call[t].mem,
           Set(t, Failing(x))
    PROVE  \E g : /\ Runs(t, g) /\ SameCall(x, g) /\ SameBuffer(x, g) /\ SameLookup(x, g)
                  /\ g.failed /\ g.running = x.running /\ g.ok = x.ok
                  /\ call[t].todo[1].onFail = "go" =>
                        /\ g.tracked = x.tracked
                        /\ Pending(g) = Pending(call[t]) \ {call[t].todo[1].call}
                  /\ call[t].todo[1].onFail # "go" =>
                        g.tracked = (x.tracked /\ x.phase # "init") /\ Pending(g) = {}
<1> DEFINE f == call[t]
           y == Failing(x)
           g == Step(y)
<1>1. f \in FrameT /\ ScriptInv(f) /\ FrameInv(f) /\ call \in [Threads -> FrameT \cup {NoCall}]
  BY AtFacts DEF Types
<1>2. /\ y \in FrameT /\ y.failed /\ y.todo # <<>>
      /\ SameCall(x, y) /\ SameBuffer(x, y) /\ SameLookup(x, y)
      /\ y.running = x.running /\ y.ok = x.ok
      /\ f.todo[1].onFail = "go" => y.todo = f.todo /\ y.tracked = x.tracked
      /\ f.todo[1].onFail # "go" =>
            Tail(y.todo) = <<>> /\ y.tracked = (x.tracked /\ x.phase # "init")
  BY FailingOf
<1>0. call' = [call EXCEPT ![t] = g]
  BY DEF Set
<1> HIDE DEF y
<1>3. g \in FrameT /\ Quiet(y, g) /\ g.failed = y.failed /\ g.todo = Tail(y.todo)
  BY <1>2, StepOf
<1>4. call'[t] = g
  BY <1>0, <1>1
<1> HIDE DEF g
<1>5. SameCall(x, g) /\ SameBuffer(x, g) /\ SameLookup(x, g) /\ g.running = x.running /\ g.ok = x.ok
      /\ g.tracked = y.tracked
  BY <1>2, <1>3 DEF Quiet, SameCall, SameBuffer, SameLookup, SameCourse
<1>6. SameCall(f, g)
  BY <1>5 DEF SameCall
<1>7. g.sink = x.sink /\ g.mem = x.mem
  BY <1>5 DEF SameLookup, SameBuffer
<1>8. g.todo = Tail(f.todo) \/ (g.todo = <<>> /\ g.failed /\ f.todo[1].onFail # "go")
  BY <1>2, <1>3
<1>9. Works(f, g)
  BY <1>1, <1>2, <1>3, <1>6, <1>7, <1>8, WorksOf
<1>12. f.todo \in Seq(StepT)
  BY <1>1 DEF FrameT
<1>10. f.todo[1].onFail = "go" => Pending(g) = Pending(f) \ {f.todo[1].call}
  BY <1>1, <1>2, <1>3, <1>12, TailScript DEF ScriptInv, Pending
<1>11. f.todo[1].onFail # "go" => Pending(g) = {}
  BY <1>2, <1>3, EmptyPending DEF Pending
<1> QED BY <1>0, <1>1, <1>2, <1>3, <1>4, <1>5, <1>9, <1>10, <1>11 DEF Runs

LEMMA QuietStep ==
    ASSUME NEW t \in Threads, Types, CallInv, NEW c, At(t, c), Set(t, call[t])
    PROVE  NextCall(t) = c /\ \E g : MakesQuietly(t, g)
BY AtFacts, RunsOf DEF At, NextCall, SameCall, MakesQuietly, Makes

LEMMA GivesStep ==
    ASSUME NEW t \in Threads, Types, CallInv, NEW c, At(t, c), Set(t, Failing(call[t]))
    PROVE  NextCall(t) = c /\ \E g : Gives(t, g)
<1>1. ~dead /\ call[t] # NoCall /\ call[t].todo # <<>> /\ NextCall(t) = c
  BY DEF At, NextCall
<1>2. call[t] \in FrameT
  BY <1>1, AtFacts
<1>3. SameCall(call[t], call[t])
  BY DEF SameCall
<1>4. PICK g : /\ Runs(t, g) /\ SameCall(call[t], g) /\ SameBuffer(call[t], g)
               /\ SameLookup(call[t], g)
               /\ g.failed /\ g.running = call[t].running /\ g.ok = call[t].ok
               /\ Mode(t) = "go" =>
                     g.tracked = call[t].tracked /\ Pending(g) = Pending(call[t]) \ {NextCall(t)}
               /\ Mode(t) # "go" =>
                     g.tracked = (call[t].tracked /\ call[t].phase # "init") /\ Pending(g) = {}
  BY <1>1, <1>2, <1>3, RunsFailing DEF NextCall, Mode
<1> QED BY <1>1, <1>4 DEF Gives

\* A step that changes the frame to x before it is taken off.
LEMMA MakesStep ==
    ASSUME NEW t \in Threads, Types, CallInv, NEW c, At(t, c),
           NEW x \in FrameT, x.todo = call[t].todo, SameCall(call[t], x),
           x.failed = call[t].failed,
           call[t].phase \in {"pre", "post"} => x.sink = call[t].sink,
           call[t].phase = "post" => x.mem = call[t].mem,
           Set(t, x)
    PROVE  NextCall(t) = c /\ \E g : Makes(t, g) /\ Quiet(x, g)
BY RunsOf DEF At, NextCall, Makes

-----------------------------------------------------------------------------
(* The frame under each action. *)

LEMMA CreateContextFrame ==
    ASSUME NEW t \in Threads, Types, CallInv, CreateContext(t)
    PROVE  /\ NextCall(t) = "CreateContext"
           /\ \E g : \/ Gives(t, g) /\ dev' = dev
                     \/ /\ Makes(t, g) /\ SameBuffer(call[t], g) /\ SameCourse(call[t], g)
                        /\ g.sections = call[t].sections /\ g.sink = call[t].sink
                        /\ g.event = g.id /\ g.pc = g.id /\ dev' = Entered(call[t])
<1> DEFINE f == call[t]
           x == [f EXCEPT !.event = f.id, !.pc = f.id]
<1>1. At(t, "CreateContext")
  BY DEF CreateContext
<1>2. f \in FrameT
  BY <1>1, AtFacts DEF At
<1>3. CASE Set(t, Failing(f)) /\ dev' = dev
  BY <1>1, <1>3, GivesStep
<1>4. CASE Set(t, x) /\ dev' = Entered(f)
  <2>1. x \in FrameT
    BY <1>2 DEF FrameT
  <2>2. /\ x.todo = f.todo /\ SameCall(f, x) /\ x.failed = f.failed /\ x.sink = f.sink
        /\ x.mem = f.mem /\ SameBuffer(f, x) /\ SameCourse(f, x) /\ x.sections = f.sections
        /\ x.event = f.id /\ x.pc = f.id /\ x.id = f.id
    BY <1>2 DEF FrameT, SameCall, SameBuffer, SameCourse
  <2> HIDE DEF x
  <2>3. PICK g : Makes(t, g) /\ Quiet(x, g)
    BY <1>1, <1>4, <2>1, <2>2, MakesStep
  <2>4. /\ SameBuffer(f, g) /\ SameCourse(f, g) /\ g.sections = f.sections /\ g.sink = f.sink
        /\ g.event = g.id /\ g.pc = g.id
    BY <2>2, <2>3 DEF Quiet, SameCall, SameBuffer, SameCourse, SameLookup
  <2>5. NextCall(t) = "CreateContext"
    BY <1>1 DEF At, NextCall
  <2> QED BY <2>3, <2>4, <2>5, <1>4
<1> QED BY <1>3, <1>4 DEF CreateContext

LEMMA LastOfNat == Types => LastOf("rt") \in Nat /\ LastOf("acl") \in Nat
<1> SUFFICES ASSUME Types, NEW a \in {"acl", "rt"} PROVE LastOf(a) \in Nat
  OBVIOUS
<1>1. dev[a].launches \in Seq(Nat)
  BY DEF Types, DevT
<1> QED BY <1>1 DEF LastOf, Last, None

\* In which phase a call is made.
LEMMA PhaseOf ==
    ASSUME NEW f \in FrameT, NEW c \in PhaseCalls(f)
    PROVE  /\ c = "OuterInit" => f.phase = "open"
           /\ c \in {"CreateContext", "AddLaunchEvent", "GetLaunchId", "UpdateOpMemInfo",
                     "ParseMetaData", "ArchiveMemInfo"} => f.phase = "init"
           /\ c \in {"SetSkipKernelFlag", "ReportKernelSummary", "Clone", "RunDBITask",
                     "MakeInstrumented", "GetDevBinary", "OverflowMalloc", "Init", "ExpandArgs",
                     "Commit", "FillAllMemGuard"} => f.phase = "pre"
           /\ c \in {"SectionsMalloc", "OpMalloc"} \cup Events => f.phase \in {"pre", "post"}
           /\ c \in {"Sync", "CheckAllMemGuard", "ResetMemoryInit", "LaunchDumpTask",
                     "GetSectionHeaders", "Finalize", "ExitAfterProcess"} \cup Withdrawals
                 => f.phase = "post"
           /\ c \in {"ClearArgsInfo", "FreeBuffer"} => f.phase = "end"
           /\ c = "OuterFinalize" => f.phase = "close"
<1>1. PreCalls(f.hook, f.skip, f.sink) \subseteq
         {"SetSkipKernelFlag", "ReportKernelSummary", "Clone", "RunDBITask", "MakeInstrumented",
          "GetDevBinary", "OverflowMalloc", "Init", "ExpandArgs", "Commit", "FillAllMemGuard",
          "SectionsMalloc", "OpMalloc", "GetLastLaunchEvent", "GetLaunchEvent"}
  BY DEF PreCalls, Making
<1>2. PostCalls(f.hook, f.skip, f.sink, f.mem # None) \subseteq
         {"Sync", "CheckAllMemGuard", "ResetMemoryInit", "LaunchDumpTask", "GetSectionHeaders",
          "Finalize", "ExitAfterProcess", "SectionsFree", "OpFree", "OverflowFree",
          "SectionsMalloc", "OpMalloc", "GetLastLaunchEvent", "GetLaunchEvent"}
  BY DEF PostCalls
<1>3. InitCalls(f.hook) \subseteq {"CreateContext", "AddLaunchEvent", "GetLaunchId",
         "UpdateOpMemInfo", "ParseMetaData", "ArchiveMemInfo"}
  BY DEF InitCalls
<1>4. f.phase \in {"open", "init", "pre", "post", "end", "close"}
  BY DEF FrameT
<1>5. \/ f.phase = "open" /\ c \in {"OuterInit"}
      \/ f.phase = "init" /\ c \in InitCalls(f.hook)
      \/ f.phase = "pre" /\ c \in PreCalls(f.hook, f.skip, f.sink)
      \/ f.phase = "post" /\ c \in PostCalls(f.hook, f.skip, f.sink, f.mem # None)
      \/ f.phase = "end" /\ c \in {"ClearArgsInfo", "FreeBuffer"}
      \/ f.phase = "close" /\ c \in {"OuterFinalize"}
  BY <1>4 DEF PhaseCalls
<1> QED BY <1>1, <1>2, <1>3, <1>5 DEF Events, Withdrawals

\* The phase a thread is in when its turn comes to make call c.
LEMMA PhaseAt ==
    ASSUME NEW t \in Threads, Types, CallInv, NEW c, At(t, c)
    PROVE  call[t] \in FrameT /\ c \in PhaseCalls(call[t]) /\ NextCall(t) = c
BY AtFacts, TailScript DEF At, FrameT, ScriptInv, Pending, NextCall

LEMMA QuietFrame ==
    ASSUME NEW t \in Threads, Types, CallInv, QuietActions(t)
    PROVE  \E g : MakesQuietly(t, g)
BY QuietStep DEF QuietActions, UpdateOpMemInfo, ArchiveMemInfo, SetSkipKernelFlag,
   ResetMemoryInit, FreeBuffer, ReportKernelSummary, SectionsFree, OpMalloc, OpFree, Overflow,
   ClearArgsInfo, ExitAfterProcess

LEMMA AddLaunchEventFrame ==
    ASSUME NEW t \in Threads, Types, CallInv, AddLaunchEvent(t)
    PROVE  /\ NextCall(t) = "AddLaunchEvent"
           /\ \E g :
                \/ /\ Gives(t, g) /\ dev' = dev
                \/ /\ MakesQuietly(t, g) /\ dev' = Entered(call[t])
<1> DEFINE f == call[t]
<1>1. At(t, "AddLaunchEvent")
  BY DEF AddLaunchEvent
<1>2. f \in FrameT /\ NextCall(t) = "AddLaunchEvent"
  BY <1>1, AtFacts DEF At, NextCall
<1>3. CASE Set(t, Failing(f)) /\ dev' = dev
  BY <1>1, <1>2, <1>3, GivesStep
<1>4. CASE Set(t, f) /\ dev' = Entered(call[t])
  BY <1>1, <1>2, <1>4, QuietStep
<1> QED BY <1>3, <1>4 DEF AddLaunchEvent

LEMMA GetLaunchIdFrame ==
    ASSUME NEW t \in Threads, Types, CallInv, GetLaunchId(t)
    PROVE  /\ NextCall(t) = "GetLaunchId"
           /\ \E g :
                /\ Makes(t, g) /\ SameBuffer(call[t], g) /\ SameCourse(call[t], g)
                /\ g.pc = call[t].pc /\ g.sections = call[t].sections /\ g.sink = call[t].sink
                /\ g.event = LastOf("rt")
<1> DEFINE f == call[t]
           x == [f EXCEPT !.event = LastOf("rt")]
<1>1. At(t, "GetLaunchId")
  BY DEF GetLaunchId
<1>2. f \in FrameT /\ NextCall(t) = "GetLaunchId"
  BY <1>1, AtFacts DEF At, NextCall
<1>5. CASE Set(t, x)
  <2>1. x \in FrameT
    BY <1>2, LastOfNat DEF FrameT
  <2>2. /\ x.todo = f.todo /\ SameCall(f, x) /\ x.failed = f.failed /\ SameBuffer(f, x)
        /\ SameCourse(f, x) /\ x.pc = f.pc /\ x.sections = f.sections /\ x.sink = f.sink
        /\ x.event = LastOf("rt")
    BY <1>2 DEF FrameT, SameCall, SameBuffer, SameCourse, SameLookup
  <2> HIDE DEF x
  <2>6. x.sink = f.sink /\ x.mem = f.mem
    BY <2>2 DEF SameLookup, SameBuffer
  <2>3. PICK g : Makes(t, g) /\ Quiet(x, g)
    BY <1>1, <1>5, <2>1, <2>2, <2>6, MakesStep
  <2>4. /\ SameBuffer(f, g) /\ SameCourse(f, g) /\ g.pc = f.pc /\ g.sections = f.sections
        /\ g.sink = f.sink /\ g.event = LastOf("rt")
    BY <2>2, <2>3 DEF Quiet, SameCall, SameBuffer, SameCourse, SameLookup
  <2> QED BY <2>3, <2>4, <1>2, <1>5
<1> QED BY <1>5 DEF GetLaunchId

LEMMA ParseMetaDataFrame ==
    ASSUME NEW t \in Threads, Types, CallInv, ParseMetaData(t)
    PROVE  /\ NextCall(t) = "ParseMetaData"
           /\ \E g :
                /\ Makes(t, g) /\ SameBuffer(call[t], g) /\ SameCourse(call[t], g)
                /\ g.event = call[t].event /\ g.pc = call[t].pc /\ g.sections = call[t].sections
                /\ g.sink = Sees(Looked(call[t]), "sink")
<1> DEFINE f == call[t]
           x == [f EXCEPT !.sink = Sees(Looked(f), "sink")]
<1>1. At(t, "ParseMetaData")
  BY DEF ParseMetaData
<1>2. f \in FrameT /\ NextCall(t) = "ParseMetaData"
  BY <1>1, AtFacts DEF At, NextCall
<1>5. CASE Set(t, x)
  <2>0. Sees(Looked(f), "sink") \in BOOLEAN
    BY DEF Sees
  <2>1. x \in FrameT
    BY <1>2, <2>0 DEF FrameT, Looked
  <2>2. /\ x.todo = f.todo /\ SameCall(f, x) /\ x.failed = f.failed /\ SameBuffer(f, x)
        /\ SameCourse(f, x) /\ x.event = f.event /\ x.pc = f.pc /\ x.sections = f.sections
        /\ x.sink = Sees(Looked(f), "sink")
    BY <1>2 DEF FrameT, SameCall, SameBuffer, SameCourse, SameLookup
  <2> HIDE DEF x
  <2>6. f.phase \notin {"pre", "post"}
    BY <1>1, <1>2, PhaseAt, PhaseOf
  <2>3. PICK g : Makes(t, g) /\ Quiet(x, g)
    BY <1>1, <1>5, <2>1, <2>2, <2>6, MakesStep
  <2>4. /\ SameBuffer(f, g) /\ SameCourse(f, g) /\ g.event = f.event /\ g.pc = f.pc
        /\ g.sections = f.sections /\ g.sink = Sees(Looked(f), "sink")
    BY <2>2, <2>3 DEF Quiet, SameCall, SameBuffer, SameCourse, SameLookup
  <2> QED BY <2>3, <2>4, <1>2, <1>5
<1> QED BY <1>5 DEF ParseMetaData, Looked

LEMMA RunDBITaskFrame ==
    ASSUME NEW t \in Threads, Types, CallInv, RunDBITask(t)
    PROVE  /\ NextCall(t) = "RunDBITask"
           /\ \E g :
                \/ /\ Gives(t, g) /\ Enabled(t, Instrumentable(call[t]))
                \/ /\ MakesQuietly(t, g)
                \/ /\ Makes(t, g) /\ g.mem = call[t].mem /\ g.arg = call[t].arg
                   /\ g.made = call[t].made /\ g.abort = call[t].abort
                   /\ g.stale = call[t].stale /\ SameCourse(call[t], g)
                   /\ SameLookup(call[t], g) /\ g.inst = TRUE
                   /\ g.kernel = Instrumentable(call[t]) /\ Enabled(t, Instrumentable(call[t]))
<1> DEFINE f == call[t]
           x == [f EXCEPT !.inst = TRUE, !.kernel = Instrumentable(f)]
<1>1. At(t, "RunDBITask")
  BY DEF RunDBITask
<1>2. f \in FrameT /\ NextCall(t) = "RunDBITask"
  BY <1>1, AtFacts DEF At, NextCall
<1>3. CASE Set(t, Failing(f)) /\ Enabled(t, Instrumentable(call[t]))
  BY <1>1, <1>2, <1>3, GivesStep
<1>4. CASE Set(t, f)
  BY <1>1, <1>2, <1>4, QuietStep
<1>5. CASE Set(t, x) /\ Enabled(t, Instrumentable(call[t]))
  <2>1. x \in FrameT
    BY <1>2, LastOfNat DEF FrameT, Instrumentable
  <2>2. /\ x.todo = f.todo /\ SameCall(f, x) /\ x.failed = f.failed /\ x.mem = f.mem
        /\ x.arg = f.arg /\ x.made = f.made /\ x.abort = f.abort /\ x.stale = f.stale
        /\ SameCourse(f, x) /\ SameLookup(f, x) /\ x.inst = TRUE /\ x.kernel = Instrumentable(f)
    BY <1>2 DEF FrameT, SameCall, SameBuffer, SameCourse, SameLookup
  <2> HIDE DEF x
  <2>6. x.sink = f.sink /\ x.mem = f.mem
    BY <2>2 DEF SameLookup, SameBuffer
  <2>3. PICK g : Makes(t, g) /\ Quiet(x, g)
    BY <1>1, <1>5, <2>1, <2>2, <2>6, MakesStep
  <2>4. /\ g.mem = f.mem /\ g.arg = f.arg /\ g.made = f.made /\ g.abort = f.abort
        /\ g.stale = f.stale /\ SameCourse(f, g) /\ SameLookup(f, g) /\ g.inst = TRUE
        /\ g.kernel = Instrumentable(f)
    BY <2>2, <2>3 DEF Quiet, SameCall, SameBuffer, SameCourse, SameLookup
  <2> QED BY <2>3, <2>4, <1>2, <1>5
<1> QED BY <1>3, <1>4, <1>5 DEF RunDBITask, Instrumentable

LEMMA MakeInstrumentedFrame ==
    ASSUME NEW t \in Threads, Types, CallInv, MakeInstrumented(t)
    PROVE  /\ NextCall(t) = "MakeInstrumented"
           /\ \E g :
                \/ /\ Gives(t, g) /\ Enabled(t, call[t].id)
                \/ /\ MakesQuietly(t, g)
                \/ /\ Makes(t, g) /\ g.mem = call[t].mem /\ g.arg = call[t].arg
                   /\ g.inst = call[t].inst /\ g.kernel = call[t].kernel
                   /\ g.abort = call[t].abort /\ g.stale = call[t].stale
                   /\ SameCourse(call[t], g) /\ SameLookup(call[t], g) /\ g.made = g.id
                   /\ Enabled(t, call[t].id)
<1> DEFINE f == call[t]
           x == [f EXCEPT !.made = f.id]
<1>1. At(t, "MakeInstrumented")
  BY DEF MakeInstrumented
<1>2. f \in FrameT /\ NextCall(t) = "MakeInstrumented"
  BY <1>1, AtFacts DEF At, NextCall
<1>3. CASE Set(t, Failing(f)) /\ Enabled(t, call[t].id)
  BY <1>1, <1>2, <1>3, GivesStep
<1>4. CASE Set(t, f)
  BY <1>1, <1>2, <1>4, QuietStep
<1>5. CASE Set(t, x) /\ Enabled(t, call[t].id)
  <2>1. x \in FrameT
    BY <1>2 DEF FrameT
  <2>2. /\ x.todo = f.todo /\ SameCall(f, x) /\ x.failed = f.failed /\ x.mem = f.mem
        /\ x.arg = f.arg /\ x.inst = f.inst /\ x.kernel = f.kernel /\ x.abort = f.abort
        /\ x.stale = f.stale /\ SameCourse(f, x) /\ SameLookup(f, x) /\ x.made = f.id
    BY <1>2 DEF FrameT, SameCall, SameBuffer, SameCourse, SameLookup
  <2> HIDE DEF x
  <2>6. x.sink = f.sink /\ x.mem = f.mem
    BY <2>2 DEF SameLookup, SameBuffer
  <2>3. PICK g : Makes(t, g) /\ Quiet(x, g)
    BY <1>1, <1>5, <2>1, <2>2, <2>6, MakesStep
  <2>4. /\ g.mem = f.mem /\ g.arg = f.arg /\ g.inst = f.inst /\ g.kernel = f.kernel
        /\ g.abort = f.abort /\ g.stale = f.stale /\ SameCourse(f, g) /\ SameLookup(f, g)
        /\ g.made = g.id
    BY <2>2, <2>3 DEF Quiet, SameCall, SameBuffer, SameCourse, SameLookup
  <2> QED BY <2>3, <2>4, <1>2, <1>5
<1> QED BY <1>3, <1>4, <1>5 DEF MakeInstrumented

LEMMA CommitFrame ==
    ASSUME NEW t \in Threads, Types, CallInv, Commit(t)
    PROVE  /\ NextCall(t) = "Commit"
           /\ \E g :
                \/ /\ MakesQuietly(t, g) /\ call[t].made = None
                \/ /\ Makes(t, g) /\ g.mem = call[t].mem /\ g.arg = call[t].arg
                   /\ g.made = call[t].made /\ g.kernel = call[t].kernel
                   /\ g.abort = call[t].abort /\ g.stale = call[t].stale
                   /\ SameCourse(call[t], g) /\ SameLookup(call[t], g) /\ g.inst = TRUE
                   /\ call[t].made # None
<1> DEFINE f == call[t]
           x == [f EXCEPT !.inst = TRUE]
<1>1. At(t, "Commit")
  BY DEF Commit
<1>2. f \in FrameT /\ NextCall(t) = "Commit"
  BY <1>1, AtFacts DEF At, NextCall
<1>4. CASE Set(t, f) /\ call[t].made = None
  BY <1>1, <1>2, <1>4, QuietStep
<1>5. CASE Set(t, x) /\ call[t].made # None
  <2>1. x \in FrameT
    BY <1>2 DEF FrameT
  <2>2. /\ x.todo = f.todo /\ SameCall(f, x) /\ x.failed = f.failed /\ x.mem = f.mem
        /\ x.arg = f.arg /\ x.made = f.made /\ x.kernel = f.kernel /\ x.abort = f.abort
        /\ x.stale = f.stale /\ SameCourse(f, x) /\ SameLookup(f, x) /\ x.inst = TRUE
    BY <1>2 DEF FrameT, SameCall, SameBuffer, SameCourse, SameLookup
  <2> HIDE DEF x
  <2>6. x.sink = f.sink /\ x.mem = f.mem
    BY <2>2 DEF SameLookup, SameBuffer
  <2>3. PICK g : Makes(t, g) /\ Quiet(x, g)
    BY <1>1, <1>5, <2>1, <2>2, <2>6, MakesStep
  <2>4. /\ g.mem = f.mem /\ g.arg = f.arg /\ g.made = f.made /\ g.kernel = f.kernel
        /\ g.abort = f.abort /\ g.stale = f.stale /\ SameCourse(f, g) /\ SameLookup(f, g)
        /\ g.inst = TRUE
    BY <2>2, <2>3 DEF Quiet, SameCall, SameBuffer, SameCourse, SameLookup
  <2> QED BY <2>3, <2>4, <1>2, <1>5
<1> QED BY <1>4, <1>5 DEF Commit

LEMMA CloneFrame ==
    ASSUME NEW t \in Threads, Types, CallInv, Clone(t)
    PROVE  /\ NextCall(t) = "Clone"
           /\ \E g :
                \/ /\ Gives(t, g)
                \/ /\ MakesQuietly(t, g)
<1> DEFINE f == call[t]
<1>1. At(t, "Clone")
  BY DEF Clone
<1>2. f \in FrameT /\ NextCall(t) = "Clone"
  BY <1>1, AtFacts DEF At, NextCall
<1>3. CASE Set(t, Failing(f))
  BY <1>1, <1>2, <1>3, GivesStep
<1>4. CASE Set(t, f)
  BY <1>1, <1>2, <1>4, QuietStep
<1> QED BY <1>3, <1>4 DEF Clone

LEMMA GetBinaryFrame ==
    ASSUME NEW t \in Threads, Types, CallInv, GetBinary(t)
    PROVE  /\ NextCall(t) \in {"GetDevBinary", "GetSectionHeaders"}
           /\ \E g :
                \/ /\ Gives(t, g)
                \/ /\ MakesQuietly(t, g)
<1> DEFINE f == call[t]
<1>1. At(t, "GetDevBinary") \/ At(t, "GetSectionHeaders")
  BY DEF GetBinary
<1>2. f \in FrameT /\ NextCall(t) \in {"GetDevBinary", "GetSectionHeaders"}
  BY <1>1, AtFacts DEF At, NextCall
<1>3. CASE Set(t, Failing(f))
  BY <1>1, <1>2, <1>3, GivesStep
<1>4. CASE Set(t, f)
  BY <1>1, <1>2, <1>4, QuietStep
<1> QED BY <1>3, <1>4 DEF GetBinary

LEMMA SectionsMallocFrame ==
    ASSUME NEW t \in Threads, Types, CallInv, SectionsMalloc(t)
    PROVE  /\ NextCall(t) = "SectionsMalloc"
           /\ \E g :
                /\ Makes(t, g) /\ SameBuffer(call[t], g) /\ SameCourse(call[t], g)
                /\ g.event = call[t].event /\ g.pc = call[t].pc /\ g.sink = call[t].sink
                /\ g.sections = TRUE
<1> DEFINE f == call[t]
           x == [f EXCEPT !.sections = TRUE]
<1>1. At(t, "SectionsMalloc")
  BY DEF SectionsMalloc
<1>2. f \in FrameT /\ NextCall(t) = "SectionsMalloc"
  BY <1>1, AtFacts DEF At, NextCall
<1>5. CASE Set(t, x)
  <2>1. x \in FrameT
    BY <1>2 DEF FrameT
  <2>2. /\ x.todo = f.todo /\ SameCall(f, x) /\ x.failed = f.failed /\ SameBuffer(f, x)
        /\ SameCourse(f, x) /\ x.event = f.event /\ x.pc = f.pc /\ x.sink = f.sink
        /\ x.sections = TRUE
    BY <1>2 DEF FrameT, SameCall, SameBuffer, SameCourse, SameLookup
  <2> HIDE DEF x
  <2>6. x.sink = f.sink /\ x.mem = f.mem
    BY <2>2 DEF SameLookup, SameBuffer
  <2>3. PICK g : Makes(t, g) /\ Quiet(x, g)
    BY <1>1, <1>5, <2>1, <2>2, <2>6, MakesStep
  <2>4. /\ SameBuffer(f, g) /\ SameCourse(f, g) /\ g.event = f.event /\ g.pc = f.pc
        /\ g.sink = f.sink /\ g.sections = TRUE
    BY <2>2, <2>3 DEF Quiet, SameCall, SameBuffer, SameCourse, SameLookup
  <2> QED BY <2>3, <2>4, <1>2, <1>5
<1> QED BY <1>5 DEF SectionsMalloc

LEMMA LaunchDumpTaskFrame ==
    ASSUME NEW t \in Threads, Types, CallInv, LaunchDumpTask(t)
    PROVE  /\ NextCall(t) = "LaunchDumpTask"
           /\ \E g :
                /\ Makes(t, g) /\ SameBuffer(call[t], g) /\ g.ok = call[t].ok
                /\ g.tracked = call[t].tracked /\ SameLookup(call[t], g) /\ g.running = FALSE
<1> DEFINE f == call[t]
           x == [f EXCEPT !.running = FALSE]
<1>1. At(t, "LaunchDumpTask")
  BY DEF LaunchDumpTask
<1>2. f \in FrameT /\ NextCall(t) = "LaunchDumpTask"
  BY <1>1, AtFacts DEF At, NextCall
<1>5. CASE Set(t, x)
  <2>1. x \in FrameT
    BY <1>2 DEF FrameT
  <2>2. /\ x.todo = f.todo /\ SameCall(f, x) /\ x.failed = f.failed /\ SameBuffer(f, x)
        /\ x.ok = f.ok /\ x.tracked = f.tracked /\ SameLookup(f, x) /\ x.running = FALSE
    BY <1>2 DEF FrameT, SameCall, SameBuffer, SameCourse, SameLookup
  <2> HIDE DEF x
  <2>6. x.sink = f.sink /\ x.mem = f.mem
    BY <2>2 DEF SameLookup, SameBuffer
  <2>3. PICK g : Makes(t, g) /\ Quiet(x, g)
    BY <1>1, <1>5, <2>1, <2>2, <2>6, MakesStep
  <2>4. /\ SameBuffer(f, g) /\ g.ok = f.ok /\ g.tracked = f.tracked /\ SameLookup(f, g)
        /\ g.running = FALSE
    BY <2>2, <2>3 DEF Quiet, SameCall, SameBuffer, SameCourse, SameLookup
  <2> QED BY <2>3, <2>4, <1>2, <1>5
<1> QED BY <1>5 DEF LaunchDumpTask

LEMMA SyncFrame ==
    ASSUME NEW t \in Threads, Types, CallInv, Sync(t)
    PROVE  /\ NextCall(t) = "Sync"
           /\ \E g :
                /\ Makes(t, g) /\ SameBuffer(call[t], g) /\ g.ok = call[t].ok
                /\ g.tracked = call[t].tracked /\ SameLookup(call[t], g) /\ g.running = FALSE
<1> DEFINE f == call[t]
           x == [f EXCEPT !.running = FALSE]
<1>1. At(t, "Sync")
  BY DEF Sync
<1>2. f \in FrameT /\ NextCall(t) = "Sync"
  BY <1>1, AtFacts DEF At, NextCall
<1>5. CASE Set(t, x)
  <2>1. x \in FrameT
    BY <1>2 DEF FrameT
  <2>2. /\ x.todo = f.todo /\ SameCall(f, x) /\ x.failed = f.failed /\ SameBuffer(f, x)
        /\ x.ok = f.ok /\ x.tracked = f.tracked /\ SameLookup(f, x) /\ x.running = FALSE
    BY <1>2 DEF FrameT, SameCall, SameBuffer, SameCourse, SameLookup
  <2> HIDE DEF x
  <2>6. x.sink = f.sink /\ x.mem = f.mem
    BY <2>2 DEF SameLookup, SameBuffer
  <2>3. PICK g : Makes(t, g) /\ Quiet(x, g)
    BY <1>1, <1>5, <2>1, <2>2, <2>6, MakesStep
  <2>4. /\ SameBuffer(f, g) /\ g.ok = f.ok /\ g.tracked = f.tracked /\ SameLookup(f, g)
        /\ g.running = FALSE
    BY <2>2, <2>3 DEF Quiet, SameCall, SameBuffer, SameCourse, SameLookup
  <2> QED BY <2>3, <2>4, <1>2, <1>5
<1> QED BY <1>5 DEF Sync

LEMMA GuardsFrame ==
    ASSUME NEW t \in Threads, Types, CallInv, Guards(t)
    PROVE  \E g : MakesQuietly(t, g)
<1> DEFINE f == call[t]
           b == f.filled \/ At(t, "FillAllMemGuard")
           x == [f EXCEPT !.filled = b]
<1>1. At(t, "FillAllMemGuard") \/ At(t, "CheckAllMemGuard")
  BY DEF Guards
<1>2. f \in FrameT
  BY <1>1, AtFacts DEF At
<1>3. b \in BOOLEAN
  OBVIOUS
<1>4. Set(t, x)
  BY <1>2 DEF Guards, FrameT
<1> HIDE DEF b
<1>5. x \in FrameT
  BY <1>2, <1>3 DEF FrameT
<1>6. x.todo = f.todo /\ x.failed = f.failed /\ Quiet(f, x)
  BY <1>2 DEF FrameT, Quiet, SameCall, SameBuffer, SameCourse, SameLookup
<1> HIDE DEF x
<1>7. SameCall(f, x) /\ x.sink = f.sink /\ x.mem = f.mem
  BY <1>6 DEF Quiet, SameBuffer, SameLookup
<1>8. PICK g : Makes(t, g) /\ Quiet(x, g)
  BY <1>1, <1>4, <1>5, <1>6, <1>7, MakesStep
<1>9. Quiet(f, g)
  BY <1>6, <1>8 DEF Quiet, SameCall, SameBuffer, SameCourse, SameLookup
<1> QED BY <1>8, <1>9 DEF MakesQuietly

LEMMA GetEventFrame ==
    ASSUME NEW t \in Threads, Types, CallInv, GetEvent(t)
    PROVE  /\ NextCall(t) \in Events
           /\ \E g : \/ Gives(t, g) /\ Wanted(t) = None /\ Mode(t) = "leave"
                     \/ /\ Makes(t, g) /\ SameBuffer(call[t], g) /\ SameCourse(call[t], g)
                        /\ g.event = call[t].event /\ g.sections = call[t].sections
                        /\ g.sink = call[t].sink /\ g.pc = Wanted(t)
<1> DEFINE f == call[t]
           e == Wanted(t)
           x == [f EXCEPT !.pc = e]
<1>1. At(t, "GetLastLaunchEvent") \/ At(t, "GetLaunchEvent")
  BY DEF GetEvent
<1>2. f \in FrameT /\ NextCall(t) \in Events
  BY <1>1, AtFacts DEF At, NextCall, Events
<1>3. e = IF At(t, "GetLaunchEvent") THEN f.event ELSE LastOf("rt")
  BY <1>1 DEF Wanted, At, NextCall
<1>4. e \in Nat
  BY <1>2, LastOfNat DEF Wanted, FrameT
<1>5. IF e = None /\ Mode(t) = "leave" THEN Set(t, Failing(f)) ELSE Set(t, x)
  BY <1>3 DEF GetEvent, Mode
<1> HIDE DEF e
<1>6. CASE e = None /\ Mode(t) = "leave"
  BY <1>5, <1>6, <1>1, GivesStep, <1>2 DEF e
<1>7. CASE ~(e = None /\ Mode(t) = "leave")
  <2>0. Set(t, x)
    BY <1>5, <1>7
  <2>1. x \in FrameT
    BY <1>2, <1>4 DEF FrameT
  <2>2. /\ x.todo = f.todo /\ SameCall(f, x) /\ x.failed = f.failed /\ SameBuffer(f, x)
        /\ SameCourse(f, x) /\ x.event = f.event /\ x.sections = f.sections
        /\ x.sink = f.sink /\ x.pc = e
    BY <1>2 DEF FrameT, SameCall, SameBuffer, SameCourse
  <2> HIDE DEF x
  <2>3. x.mem = f.mem
    BY <2>2 DEF SameBuffer
  <2>4. PICK g : Makes(t, g) /\ Quiet(x, g)
    BY <1>1, <2>0, <2>1, <2>2, <2>3, MakesStep
  <2>5. /\ SameBuffer(f, g) /\ SameCourse(f, g) /\ g.event = f.event
        /\ g.sections = f.sections /\ g.sink = f.sink /\ g.pc = e
    BY <2>2, <2>4 DEF Quiet, SameCall, SameBuffer, SameCourse, SameLookup
  <2> QED BY <2>4, <2>5, <1>2 DEF e
<1> QED BY <1>6, <1>7

LEMMA FinalizeFrame ==
    ASSUME NEW t \in Threads, Types, CallInv, Finalize(t)
    PROVE  /\ NextCall(t) \in {"Finalize", "OuterFinalize"} /\ Finalized(t, Given(t), call[t].id)
           /\ \E g : /\ Runs(t, g) /\ Quiet(call[t], g)
                     /\ Pending(g) = Pending(call[t]) \ {NextCall(t)}
                     /\ g.failed = call[t].failed \/ Sends(t, Given(t))
<1> DEFINE f == call[t]
           x == [f EXCEPT !.failed = TRUE]
<1>1. At(t, "Finalize") \/ At(t, "OuterFinalize")
  BY DEF Finalize
<1>2. f \in FrameT /\ NextCall(t) \in {"Finalize", "OuterFinalize"} /\ ~dead /\ f # NoCall
      /\ f.todo # <<>>
  BY <1>1, AtFacts DEF At, NextCall
<1>3. Finalized(t, Given(t), call[t].id)
  BY DEF Finalize, Given, NextCall
<1>4. CASE Set(t, f)
  BY <1>1, <1>2, <1>3, <1>4, QuietStep DEF MakesQuietly, Makes
<1>5. CASE Set(t, x) /\ Sends(t, Given(t))
  <2>1. x \in FrameT
    BY <1>2 DEF FrameT
  <2>2. x.todo = f.todo /\ x.failed /\ Quiet(f, x)
    BY <1>2 DEF FrameT, Quiet, SameCall, SameBuffer, SameCourse, SameLookup
  <2> HIDE DEF x
  <2>3. SameCall(f, x) /\ x.sink = f.sink /\ x.mem = f.mem
    BY <2>2 DEF Quiet, SameBuffer, SameLookup
  <2>4. PICK g : Runs(t, g) /\ Quiet(x, g) /\ Pending(g) = Pending(f) \ {NextCall(t)}
    BY <1>2, <1>5, <2>1, <2>2, <2>3, RunsOf DEF NextCall
  <2>5. Quiet(f, g)
    BY <2>2, <2>4 DEF Quiet, SameCall, SameBuffer, SameCourse, SameLookup
  <2> QED BY <2>4, <2>5, <1>2, <1>3, <1>5
<1>6. Set(t, f) \/ (Set(t, x) /\ Sends(t, Given(t)))
  BY DEF Finalize, Given, NextCall
<1> QED BY <1>4, <1>5, <1>6

-----------------------------------------------------------------------------
(* The record buffer. *)

LEMMA FreedSeq ==
    ASSUME NEW m \in MgrT, NEW b \in Seq(BufT)
    PROVE  /\ Freed(m, b) \in Seq(BufT) /\ Len(Freed(m, b)) = Len(b)
           /\ \A i \in DOMAIN b : Freed(m, b)[i].heads = b[i].heads
<1>1. DOMAIN b = 1..Len(b) /\ Len(b) \in Nat /\ \A i \in DOMAIN b : b[i] \in BufT
  OBVIOUS
<1>2. CASE m.ptr = None
  BY <1>1, <1>2 DEF Freed
<1>3. CASE m.ptr # None
  <2> DEFINE c == [b EXCEPT ![m.ptr].live = FALSE]
  <2>1. DOMAIN c = 1..Len(b) /\ \A i \in 1..Len(b) : c[i] \in BufT /\ c[i].heads = b[i].heads
    BY <1>1 DEF BufT
  <2>2. c \in [1..Len(b) -> BufT]
    BY <2>1
  <2>3. c \in Seq(BufT) /\ Len(c) = Len(b)
    BY <2>2, <1>1
  <2> QED BY <2>1, <2>3, <1>1, <1>3 DEF Freed
<1> QED BY <1>2, <1>3

\* What MallocMemory returns is held, and is a buffer of its own if it is new.
LEMMA MallocHeld ==
    ASSUME NEW m \in MgrT, NEW b \in Seq(BufT), Held(m, b), NEW size \in {1, 2},
           NEW got, got = MallocMemory(m, b, size)
    PROVE  /\ got.mgr \in MgrT /\ got.bufs \in Seq(BufT) /\ Held(got.mgr, got.bufs)
           /\ got.mgr.ptr # None /\ got.mgr.ptr \in DOMAIN got.bufs /\ got.mgr.skip = m.skip
           /\ got.mgr.init => m.init
           /\ \A i \in DOMAIN got.bufs :
                 got.bufs[i].heads = None \/ (i \in DOMAIN b /\ got.bufs[i].heads = b[i].heads)
<1>1. CASE m.size >= size
  BY <1>1 DEF MallocMemory, Held, MgrT, None
<1>2. CASE ~(m.size >= size)
  <2> DEFINE c == Freed(m, b)
             e == [live |-> TRUE, heads |-> None, size |-> size]
             n == [m EXCEPT !.ptr = Len(b) + 1, !.size = size, !.init = FALSE]
  <2>1. got.mgr = n /\ got.bufs = Append(c, e)
    BY <1>2 DEF MallocMemory
  <2>2. c \in Seq(BufT) /\ Len(c) = Len(b) /\ Len(b) \in Nat /\ DOMAIN b = 1..Len(b)
        /\ \A i \in DOMAIN b : c[i].heads = b[i].heads
    BY FreedSeq
  <2>3. e \in BufT
    BY DEF BufT, None
  <2>9. size \in Nat /\ Len(b) + 1 \in Nat
    BY <2>2
  <2>4. /\ n \in MgrT /\ n.ptr = Len(b) + 1 /\ n.size = size /\ ~n.init /\ n.skip = m.skip
    BY <2>9 DEF MgrT
  <2> HIDE DEF c, n
  <2>5. /\ Append(c, e) \in Seq(BufT) /\ DOMAIN Append(c, e) = 1..(Len(b) + 1)
        /\ Append(c, e)[Len(b) + 1] = e
        /\ \A i \in 1..Len(b) : Append(c, e)[i] = c[i]
    BY <2>2, <2>3
  <2>6. e.live /\ e.heads = None
    OBVIOUS
  <2> HIDE DEF e
  <2>7. \A i \in DOMAIN got.bufs :
           got.bufs[i].heads = None \/ (i \in DOMAIN b /\ got.bufs[i].heads = b[i].heads)
    BY <2>1, <2>2, <2>5, <2>6
  <2>8. n.ptr # None /\ n.ptr \in 1..(Len(b) + 1)
    BY <2>2, <2>4 DEF None
  <2> QED BY <2>1, <2>4, <2>5, <2>6, <2>7, <2>8 DEF Held
<1> QED BY <1>1, <1>2

LEMMA FreeHeld ==
    ASSUME NEW m \in MgrT, NEW b \in Seq(BufT)
    PROVE  /\ FreeMgr(m) \in MgrT /\ FreeMgr(m).ptr = None /\ FreeMgr(m).skip = m.skip
           /\ FreeMgr(m).init = m.init
           /\ Freed(m, b) \in Seq(BufT) /\ FreedHeld(m, b)
           /\ \A i \in DOMAIN Freed(m, b) : i \in DOMAIN b /\ Freed(m, b)[i].heads = b[i].heads
<1>1. FreeMgr(m) \in MgrT /\ FreeMgr(m).ptr = None /\ FreeMgr(m).size = 0
      /\ FreeMgr(m).skip = m.skip /\ FreeMgr(m).init = m.init
  BY DEF FreeMgr, MgrT, None
<1>2. DOMAIN Freed(m, b) = DOMAIN b
  BY FreedSeq
<1> QED BY <1>1, <1>2, FreedSeq DEF FreedHeld, Held

LEMMA SkipOutcome ==
    ASSUME NEW m \in MgrT, NEW b \in Seq(BufT), Held(m, b), NEW id \in Nat, m.skip
    PROVE  OutcomeWell(m, b, id, SkipKernelProcess(m, b)) /\ SkipKernelProcess(m, b).ptr # None
<1> DEFINE got == MallocMemory(m, b, 1)
           o == SkipKernelProcess(m, b)
<1>1. o.ptr = got.mgr.ptr /\ o.mgr = got.mgr /\ o.bufs = got.bufs
  BY DEF SkipKernelProcess, Outcome
<1> HIDE DEF got, o
<1>2. /\ got.mgr \in MgrT /\ got.bufs \in Seq(BufT) /\ Held(got.mgr, got.bufs)
      /\ got.mgr.ptr # None /\ got.mgr.skip = m.skip /\ (got.mgr.init => m.init)
      /\ \A i \in DOMAIN got.bufs :
            got.bufs[i].heads = None \/ (i \in DOMAIN b /\ got.bufs[i].heads = b[i].heads)
  BY MallocHeld DEF got
<1>3. got.mgr.ptr \in Nat
  BY <1>2 DEF MgrT
<1>4. OutcomeWell(m, b, id, o) /\ o.ptr # None
  BY <1>1, <1>2, <1>3 DEF OutcomeWell
<1> QED BY <1>4 DEF o

LEMMA HeadsOutcome ==
    ASSUME NEW m \in MgrT, NEW b \in Seq(BufT), Held(m, b), NEW id \in Nat, ~m.skip
    PROVE  OutcomeWell(m, b, id, BlockHeadsH2D(m, b, id)) /\ BlockHeadsH2D(m, b, id).ptr # None
<1> DEFINE got == MallocMemory(m, b, 2)
           n == [got.mgr EXCEPT !.init = TRUE]
           c == [got.bufs EXCEPT ![got.mgr.ptr].heads = id]
<1>1. BlockHeadsH2D(m, b, id) = [ptr |-> got.mgr.ptr, mgr |-> n, bufs |-> c]
  BY DEF BlockHeadsH2D, Outcome
<1> HIDE DEF got
<1>2. /\ got.mgr \in MgrT /\ got.bufs \in Seq(BufT) /\ Held(got.mgr, got.bufs)
      /\ got.mgr.ptr # None /\ got.mgr.ptr \in DOMAIN got.bufs /\ got.mgr.skip = m.skip
      /\ \A i \in DOMAIN got.bufs :
            got.bufs[i].heads = None \/ (i \in DOMAIN b /\ got.bufs[i].heads = b[i].heads)
  BY MallocHeld DEF got
<1>3. n \in MgrT /\ n.ptr = got.mgr.ptr /\ n.size = got.mgr.size /\ n.init /\ n.skip = m.skip
      /\ n.ptr \in Nat
  BY <1>2 DEF MgrT
<1>4. /\ DOMAIN got.bufs = 1..Len(got.bufs) /\ Len(got.bufs) \in Nat
      /\ \A i \in DOMAIN got.bufs : got.bufs[i] \in BufT
  BY <1>2
<1>5. /\ DOMAIN c = 1..Len(got.bufs)
      /\ \A i \in 1..Len(got.bufs) : /\ c[i] \in BufT /\ c[i].live = got.bufs[i].live
                                     /\ i # got.mgr.ptr => c[i].heads = got.bufs[i].heads
      /\ c[got.mgr.ptr].heads = id
  BY <1>2, <1>4 DEF BufT
<1>6. c \in [1..Len(got.bufs) -> BufT]
  BY <1>5
<1>7. c \in Seq(BufT)
  BY <1>6, <1>4
<1> HIDE DEF n, c
<1>8. Held(n, c)
  BY <1>2, <1>3, <1>4, <1>5 DEF Held
<1>9. \A i \in DOMAIN c : c[i].heads \in {None, id} \/ (i \in DOMAIN b /\ c[i].heads = b[i].heads)
  BY <1>2, <1>4, <1>5
<1> QED BY <1>1, <1>2, <1>3, <1>5, <1>7, <1>8, <1>9 DEF OutcomeWell

LEMMA FailedOutcome ==
    ASSUME NEW m \in MgrT, NEW b \in Seq(BufT), Held(m, b), NEW id \in Nat,
           NEW o \in InitFailures(m, b)
    PROVE  OutcomeWell(m, b, id, o) /\ o.ptr = None
<1> DEFINE got == MallocMemory(m, b, 2)
<1>1. \/ o = Outcome(None, m, b)
      \/ o = Outcome(None, FreeMgr(m), Freed(m, b))
      \/ o = Outcome(None, FreeMgr(got.mgr), Freed(got.mgr, got.bufs))
  BY DEF InitFailures
<1>2. None \in Nat
  BY DEF None
<1>3. CASE o = Outcome(None, m, b)
  BY <1>2, <1>3 DEF Outcome, OutcomeWell
<1>4. CASE o = Outcome(None, FreeMgr(m), Freed(m, b))
  BY <1>2, <1>4, FreeHeld DEF Outcome, OutcomeWell, FreedHeld
<1>5. CASE o = Outcome(None, FreeMgr(got.mgr), Freed(got.mgr, got.bufs))
  <2> HIDE DEF got
  <2>1. /\ got.mgr \in MgrT /\ got.bufs \in Seq(BufT) /\ got.mgr.skip = m.skip
        /\ (got.mgr.init => m.init)
        /\ \A i \in DOMAIN got.bufs :
              got.bufs[i].heads = None \/ (i \in DOMAIN b /\ got.bufs[i].heads = b[i].heads)
    BY MallocHeld DEF got
  <2> QED BY <1>2, <1>5, <2>1, FreeHeld DEF Outcome, OutcomeWell, FreedHeld
<1> QED BY <1>1, <1>3, <1>4, <1>5

LEMMA InitOutcome ==
    ASSUME NEW t \in Threads, Types, ManagerInv(t), NEW id \in Nat, NEW o \in InitOutcomes(t, id)
    PROVE  OutcomeWell(mgr[t], bufs[t], id, o)
BY SkipOutcome, HeadsOutcome, FailedOutcome DEF Types, ManagerInv, InitOutcomes

LEMMA InitStepFrame ==
    ASSUME NEW t \in Threads, Types, CallInv, ManagerInv(t), InitStep(t)
    PROVE  \E o \in InitOutcomes(t, call[t].id) : \E g :
              /\ mgr' = [mgr EXCEPT ![t] = o.mgr] /\ bufs' = [bufs EXCEPT ![t] = o.bufs]
              /\ OutcomeWell(mgr[t], bufs[t], call[t].id, o)
              /\ IF o.ptr = None THEN fails > 0 /\ fails' = fails - 1 ELSE fails' = fails
              /\ NextCall(t) = "OuterInit" => MakesQuietly(t, g) \/ (Gives(t, g) /\ Mode(t) = "go")
              /\ NextCall(t) # "OuterInit" =>
                    /\ NextCall(t) = "Init" /\ SameCourse(call[t], g) /\ SameLookup(call[t], g)
                    /\ g.arg = call[t].arg /\ g.inst = call[t].inst /\ g.kernel = call[t].kernel
                    /\ g.mem = o.ptr
                    /\ \/ /\ o.ptr # None /\ Makes(t, g) /\ g.made = call[t].made
                          /\ g.abort = call[t].abort /\ g.stale = (mgr[t].skip # call[t].skip)
                       \/ /\ o.ptr = None /\ Runs(t, g) /\ g.failed
                          /\ Mode(t) = "go" => Pending(g) = Pending(call[t]) \ {NextCall(t)}
                          /\ Mode(t) # "go" => Pending(g) = {}
                          /\ Mode(t) = "undo" => g.abort = g.static /\ g.made = None
                          /\ Mode(t) # "undo" => g.abort = call[t].abort /\ g.made = call[t].made
<1> DEFINE f == call[t]
           outer == f.todo[1].call = "OuterInit"
           X(o) == IF outer THEN [f EXCEPT !.outer = o.ptr]
                   ELSE [f EXCEPT !.mem = o.ptr, !.stale = mgr[t].skip # f.skip]
           Y(o) == IF f.todo[1].onFail = "undo" THEN HandlePreFailure(X(o)) ELSE X(o)
<1>1. At(t, "Init") \/ At(t, "OuterInit")
  BY DEF InitStep
<1>2. /\ f \in FrameT /\ ~dead /\ f # NoCall /\ f.todo # <<>> /\ NextCall(t) \in {"Init", "OuterInit"}
      /\ NextCall(t) = f.todo[1].call /\ Mode(t) = f.todo[1].onFail /\ f.id \in Nat
  BY <1>1, AtFacts DEF At, NextCall, Mode, FrameT
<1>3. PICK o \in InitOutcomes(t, f.id) :
         /\ mgr' = [mgr EXCEPT ![t] = o.mgr] /\ bufs' = [bufs EXCEPT ![t] = o.bufs]
         /\ IF o.ptr = None THEN fails' = fails - 1 /\ Set(t, Failing(Y(o)))
            ELSE Set(t, X(o)) /\ UNCHANGED fails
  BY DEF InitStep
<1>4. OutcomeWell(mgr[t], bufs[t], f.id, o)
  BY <1>2, InitOutcome
<1>5. o.ptr = None => fails > 0
  <2>1. mgr[t] \in MgrT /\ bufs[t] \in Seq(BufT) /\ Held(mgr[t], bufs[t]) /\ fails \in Nat
    BY DEF Types, ManagerInv
  <2>2. SUFFICES ASSUME fails = 0 PROVE o.ptr # None
    BY <2>1
  <2>3. o = (IF mgr[t].skip THEN SkipKernelProcess(mgr[t], bufs[t])
             ELSE BlockHeadsH2D(mgr[t], bufs[t], f.id))
    BY <2>2 DEF InitOutcomes
  <2> QED BY <2>1, <2>3, <1>2, SkipOutcome, HeadsOutcome
<1>6. Mode(t) = "undo" => NextCall(t) = "Init"
  <2>1. f.todo \in Seq(StepT) /\ Modes(f.hook, f.todo)
    BY <1>2, AtFacts DEF FrameT, ScriptInv
  <2>2. 1 \in DOMAIN f.todo
    BY <2>1, <1>2
  <2> QED BY <2>1, <2>2, <1>2 DEF Modes
<1>7. o.ptr \in Nat /\ (mgr[t].skip # f.skip) \in BOOLEAN
  BY <1>4 DEF OutcomeWell
<1>8. CASE NextCall(t) = "OuterInit"
  <2> DEFINE x == X(o)
  <2>1. x = [f EXCEPT !.outer = o.ptr] /\ Y(o) = x
    BY <1>2, <1>6, <1>8
  <2>9. (o.ptr # None => Set(t, x)) /\ (o.ptr = None => Set(t, Failing(x)))
    BY <1>3, <2>1
  <2> HIDE DEF x, X, Y
  <2>2. x \in FrameT
    BY <1>2, <1>7, <2>1 DEF FrameT
  <2>3. x.todo = f.todo /\ x.failed = f.failed /\ Quiet(f, x)
    BY <1>2, <2>1 DEF FrameT, Quiet, SameCall, SameBuffer, SameCourse, SameLookup
  <2>4. SameCall(f, x) /\ x.sink = f.sink /\ x.mem = f.mem
    BY <2>3 DEF Quiet, SameBuffer, SameLookup
  <2>5. CASE o.ptr # None
    <3>1. PICK g : Makes(t, g) /\ Quiet(x, g)
      BY <1>1, <2>2, <2>3, <2>4, <2>5, <2>9, MakesStep
    <3>2. MakesQuietly(t, g)
      BY <2>3, <3>1 DEF MakesQuietly, Quiet, SameCall, SameBuffer, SameCourse, SameLookup
    <3> QED BY <3>2, <1>3, <1>4, <1>5, <1>8, <2>5
  <2>6. CASE o.ptr = None
    <3>1. Mode(t) = "go"
      <4>1. f.todo \in Seq(StepT) /\ Modes(f.hook, f.todo)
        BY <1>2, AtFacts DEF FrameT, ScriptInv
      <4>2. 1 \in DOMAIN f.todo
        BY <4>1, <1>2
      <4> QED BY <4>1, <4>2, <1>2, <1>8 DEF Modes
    <3>4. Set(t, Failing(x)) /\ f.todo[1].onFail = "go"
      BY <1>2, <2>6, <2>9, <3>1
    <3>5. PICK g : /\ Runs(t, g) /\ SameCall(x, g) /\ SameBuffer(x, g) /\ SameLookup(x, g)
                   /\ g.failed /\ g.running = x.running /\ g.ok = x.ok
                   /\ f.todo[1].onFail = "go" =>
                         g.tracked = x.tracked /\ Pending(g) = Pending(f) \ {f.todo[1].call}
      BY <1>2, <2>2, <2>3, <2>4, <3>4, RunsFailing
    <3>2. /\ Runs(t, g) /\ SameCall(x, g) /\ SameBuffer(x, g) /\ SameLookup(x, g)
          /\ g.failed /\ g.running = x.running /\ g.ok = x.ok /\ g.tracked = x.tracked
          /\ Pending(g) = Pending(f) \ {NextCall(t)}
      BY <1>2, <3>4, <3>5
    <3>3. Gives(t, g)
      BY <2>3, <3>1, <3>2 DEF Gives, Quiet, SameBuffer, SameLookup, SameCourse
    <3> QED BY <3>1, <3>3, <1>3, <1>4, <1>5, <1>8, <2>6
  <2> QED BY <2>5, <2>6
<1>9. CASE NextCall(t) = "Init"
  <2>0. f.phase = "pre"
    BY <1>1, <1>2, <1>9, PhaseAt, PhaseOf DEF At
  <2> DEFINE x == X(o)
             y == Y(o)
             b == mgr[t].skip # f.skip
  <2>1. x = [f EXCEPT !.mem = o.ptr, !.stale = b]
    BY <1>2, <1>9
  <2>9. /\ y = IF Mode(t) = "undo" THEN HandlePreFailure(x) ELSE x
        /\ (o.ptr # None => Set(t, x)) /\ (o.ptr = None => Set(t, Failing(y)))
    BY <1>2, <1>3
  <2> HIDE DEF x, y, X, Y, b
  <2>8. b \in BOOLEAN
    BY DEF b
  <2>2. x \in FrameT
    BY <1>2, <1>7, <2>1, <2>8 DEF FrameT
  <2>3. /\ x.todo = f.todo /\ x.failed = f.failed /\ SameCall(f, x) /\ SameCourse(f, x)
        /\ SameLookup(f, x) /\ x.mem = o.ptr /\ x.stale = b /\ x.arg = f.arg /\ x.made = f.made
        /\ x.inst = f.inst /\ x.kernel = f.kernel /\ x.abort = f.abort
    BY <1>2, <2>1 DEF FrameT, SameCall, SameCourse, SameLookup
  <2>4. x.sink = f.sink /\ f.phase # "post"
    BY <2>0, <2>3 DEF SameLookup
  <2>5. CASE o.ptr # None
    <3>1. PICK g : Makes(t, g) /\ Quiet(x, g)
      BY <1>1, <1>9, <2>2, <2>3, <2>4, <2>5, <2>9, MakesStep
    <3>2. /\ SameCourse(f, g) /\ SameLookup(f, g) /\ g.mem = o.ptr /\ g.stale = b /\ g.arg = f.arg
          /\ g.made = f.made /\ g.inst = f.inst /\ g.kernel = f.kernel /\ g.abort = f.abort
      BY <2>3, <3>1 DEF Quiet, SameBuffer, SameCourse, SameLookup
    <3> QED BY <3>1, <3>2, <1>3, <1>4, <1>5, <1>9, <2>5 DEF b
  <2>6. CASE o.ptr = None
    <3>1. /\ y \in FrameT /\ y.todo = f.todo /\ SameCall(f, y) /\ SameCourse(f, y)
          /\ SameLookup(f, y) /\ y.mem = None /\ y.arg = f.arg /\ y.inst = f.inst
          /\ y.kernel = f.kernel
          /\ Mode(t) = "undo" => y.abort = y.static /\ y.made = None
          /\ Mode(t) # "undo" => y.abort = f.abort /\ y.made = f.made
      <4>1. CASE Mode(t) # "undo"
        BY <4>1, <2>2, <2>3, <2>6, <2>9
      <4>2. CASE Mode(t) = "undo"
        <5>1. y = [x EXCEPT !.mem = None, !.abort = x.static, !.made = None]
          BY <4>2, <2>9, <2>2 DEF HandlePreFailure, FrameT
        <5> HIDE DEF y
        <5>2. y \in FrameT
          BY <5>1, <2>2 DEF FrameT, None
        <5>3. /\ y.todo = x.todo /\ SameCall(x, y) /\ SameCourse(x, y) /\ SameLookup(x, y)
              /\ y.mem = None /\ y.arg = x.arg /\ y.inst = x.inst /\ y.kernel = x.kernel
              /\ y.abort = x.static /\ y.made = None /\ y.static = x.static
          BY <5>1, <2>2 DEF FrameT, SameCall, SameCourse, SameLookup
        <5> QED BY <4>2, <5>2, <5>3, <2>3 DEF SameCall, SameCourse, SameLookup
      <4> QED BY <4>1, <4>2
    <3>2. y.sink = f.sink
      BY <3>1 DEF SameLookup
    <3>6. Set(t, Failing(y))
      BY <2>6, <2>9
    <3>3. PICK g : /\ Runs(t, g) /\ SameCall(y, g) /\ SameBuffer(y, g) /\ SameLookup(y, g)
                   /\ g.failed /\ g.running = y.running /\ g.ok = y.ok
                   /\ f.todo[1].onFail = "go" =>
                         g.tracked = y.tracked /\ Pending(g) = Pending(f) \ {f.todo[1].call}
                   /\ f.todo[1].onFail # "go" =>
                         g.tracked = (y.tracked /\ y.phase # "init") /\ Pending(g) = {}
      BY <1>2, <2>4, <3>1, <3>2, <3>6, RunsFailing
    <3>4. g.tracked = y.tracked
      BY <2>0, <3>1, <3>3 DEF SameCall, FrameT
    <3>5. /\ SameCourse(f, g) /\ SameLookup(f, g) /\ g.mem = None /\ g.arg = f.arg
          /\ g.inst = f.inst /\ g.kernel = f.kernel
          /\ Mode(t) = "undo" => g.abort = g.static /\ g.made = None
          /\ Mode(t) # "undo" => g.abort = f.abort /\ g.made = f.made
      BY <3>1, <3>3, <3>4 DEF SameCall, SameBuffer, SameCourse, SameLookup
    <3> QED BY <3>3, <3>5, <1>2, <1>3, <1>4, <1>5, <1>9, <2>6
  <2> QED BY <2>5, <2>6
<1> QED BY <1>2, <1>8, <1>9

LEMMA ExpandArgsFrame ==
    ASSUME NEW t \in Threads, Types, CallInv, ExpandArgs(t)
    PROVE  /\ NextCall(t) = "ExpandArgs"
           /\ \E g :
                /\ SameCourse(call[t], g) /\ SameLookup(call[t], g) /\ g.inst = call[t].inst
                /\ g.kernel = call[t].kernel /\ g.stale = call[t].stale
                /\ \/ /\ Makes(t, g) /\ g.arg = call[t].mem /\ g.mem = call[t].mem
                      /\ g.made = call[t].made /\ g.abort = call[t].abort
                      /\ UNCHANGED <<fails, mgr, dbi, configured, reports>>
                   \/ /\ Runs(t, g) /\ g.failed /\ call[t].mem # None /\ g.arg = call[t].arg
                      /\ MayFail
                      /\ Mode(t) = "go" => Pending(g) = Pending(call[t]) \ {NextCall(t)}
                      /\ Mode(t) # "go" => Pending(g) = {}
                      /\ Mode(t) = "undo" =>
                            /\ g.mem = None /\ g.abort = g.static /\ g.made = None
                            /\ Finalized(t, call[t].mem, call[t].id)
                      /\ Mode(t) # "undo" =>
                            /\ g.mem = call[t].mem /\ g.abort = call[t].abort
                            /\ g.made = call[t].made
                            /\ UNCHANGED <<mgr, dbi, configured, reports>>
<1> DEFINE f == call[t]
           x == [f EXCEPT !.arg = f.mem]
           y == IF Mode(t) = "undo" THEN HandlePreFailure(f) ELSE f
<1>1. At(t, "ExpandArgs")
  BY DEF ExpandArgs
<1>2. /\ f \in FrameT /\ ~dead /\ f # NoCall /\ f.todo # <<>> /\ NextCall(t) = "ExpandArgs"
      /\ NextCall(t) = f.todo[1].call /\ Mode(t) = f.todo[1].onFail
  BY <1>1, AtFacts DEF At, NextCall, Mode
<1>3. f.phase = "pre"
  BY <1>1, PhaseAt, PhaseOf
<1>4. CASE Set(t, x) /\ UNCHANGED <<fails, mgr, dbi, configured, reports>>
  <2>1. x \in FrameT
    BY <1>2 DEF FrameT
  <2>2. /\ x.todo = f.todo /\ x.failed = f.failed /\ SameCall(f, x) /\ SameCourse(f, x)
        /\ SameLookup(f, x) /\ x.arg = f.mem /\ x.mem = f.mem /\ x.made = f.made
        /\ x.inst = f.inst /\ x.kernel = f.kernel /\ x.abort = f.abort /\ x.stale = f.stale
    BY <1>2 DEF FrameT, SameCall, SameCourse, SameLookup
  <2>5. Set(t, x)
    BY <1>4
  <2> HIDE DEF x
  <2>3. x.sink = f.sink /\ f.phase # "post"
    BY <1>3, <2>2 DEF SameLookup
  <2>4. PICK g : Makes(t, g) /\ Quiet(x, g)
    BY <1>1, <2>1, <2>2, <2>3, <2>5, MakesStep
  <2>6. /\ SameCourse(f, g) /\ SameLookup(f, g) /\ g.arg = f.mem /\ g.mem = f.mem
        /\ g.made = f.made /\ g.inst = f.inst /\ g.kernel = f.kernel /\ g.abort = f.abort
        /\ g.stale = f.stale
    BY <2>2, <2>4 DEF Quiet, SameBuffer, SameCourse, SameLookup
  <2> QED BY <2>4, <2>6, <1>2, <1>4
<1>5. CASE /\ f.mem # None /\ MayFail /\ Set(t, Failing(y))
           /\ IF Mode(t) = "undo" THEN Finalized(t, f.mem, f.id)
              ELSE UNCHANGED <<mgr, dbi, configured, reports>>
  <2>1. /\ y \in FrameT /\ y.todo = f.todo /\ SameCall(f, y) /\ SameCourse(f, y)
        /\ SameLookup(f, y) /\ y.arg = f.arg /\ y.inst = f.inst /\ y.kernel = f.kernel
        /\ y.stale = f.stale
        /\ Mode(t) = "undo" => y.mem = None /\ y.abort = y.static /\ y.made = None
        /\ Mode(t) # "undo" => y.mem = f.mem /\ y.abort = f.abort /\ y.made = f.made
    <3>1. CASE Mode(t) # "undo"
      BY <3>1, <1>2 DEF SameCall, SameCourse, SameLookup
    <3>2. CASE Mode(t) = "undo"
      <4>1. y = [f EXCEPT !.mem = None, !.abort = f.static, !.made = None]
        BY <3>2, <1>2 DEF HandlePreFailure, FrameT
      <4> HIDE DEF y
      <4>2. y \in FrameT
        BY <4>1, <1>2 DEF FrameT, None
      <4>3. /\ y.todo = f.todo /\ SameCall(f, y) /\ SameCourse(f, y) /\ SameLookup(f, y)
            /\ y.mem = None /\ y.arg = f.arg /\ y.inst = f.inst /\ y.kernel = f.kernel
            /\ y.abort = f.static /\ y.made = None /\ y.static = f.static /\ y.stale = f.stale
        BY <4>1, <1>2 DEF FrameT, SameCall, SameCourse, SameLookup
      <4> QED BY <3>2, <4>2, <4>3
    <3> QED BY <3>1, <3>2
  <2>6. Set(t, Failing(y))
    BY <1>5
  <2> HIDE DEF y
  <2>2. y.sink = f.sink /\ f.phase # "post"
    BY <2>1, <1>3 DEF SameLookup
  <2>3. PICK g : /\ Runs(t, g) /\ SameCall(y, g) /\ SameBuffer(y, g) /\ SameLookup(y, g)
                 /\ g.failed /\ g.running = y.running /\ g.ok = y.ok
                 /\ f.todo[1].onFail = "go" =>
                       g.tracked = y.tracked /\ Pending(g) = Pending(f) \ {f.todo[1].call}
                 /\ f.todo[1].onFail # "go" =>
                       g.tracked = (y.tracked /\ y.phase # "init") /\ Pending(g) = {}
    BY <1>2, <2>1, <2>2, <2>6, RunsFailing
  <2>4. g.tracked = y.tracked
    BY <1>3, <2>1, <2>3 DEF SameCall, FrameT
  <2>5. /\ SameCourse(f, g) /\ SameLookup(f, g) /\ g.arg = f.arg /\ g.inst = f.inst
        /\ g.kernel = f.kernel /\ g.stale = f.stale
        /\ Mode(t) = "undo" => g.mem = None /\ g.abort = g.static /\ g.made = None
        /\ Mode(t) # "undo" => g.mem = f.mem /\ g.abort = f.abort /\ g.made = f.made
    BY <2>1, <2>3, <2>4 DEF SameCall, SameBuffer, SameCourse, SameLookup
  <2> QED BY <2>3, <2>5, <1>2, <1>5
<1>6. \/ Set(t, x) /\ UNCHANGED <<fails, mgr, dbi, configured, reports>>
      \/ /\ f.mem # None /\ MayFail /\ Set(t, Failing(y))
         /\ IF Mode(t) = "undo" THEN Finalized(t, f.mem, f.id)
            ELSE UNCHANGED <<mgr, dbi, configured, reports>>
  BY DEF ExpandArgs, Mode
<1> QED BY <1>4, <1>5, <1>6

-----------------------------------------------------------------------------
(* A call begins and goes from phase to phase. *)

LEMMA OpenScript ==
    ASSUME NEW g \in FrameT, g.phase = "open",
           g.todo = IF g.wrapped THEN Steps(<<"OuterInit">>) ELSE <<>>
    PROVE  ScriptInv(g)
BY Singles DEF Script, ScriptInv, Pending, PhaseCalls

LEMMA BeginFrame ==
    ASSUME NEW t \in Threads, Types, Begin(t)
    PROVE  /\ call[t] = NoCall /\ ~dead
           /\ \E g : \E k \in scen.kinds :
                 /\ call'[t] = g /\ Opened(g) /\ g.id = Len(info) + 1 /\ g.sink = k.sink
                 /\ g.alone => \A u \in Threads : call[u] = NoCall
                 /\ info' = Append(info, [skip |-> k.skip, sink |-> k.sink])
                 /\ [skip |-> k.skip, sink |-> k.sink] \in [skip : BOOLEAN, sink : BOOLEAN]
           /\ call' \in [Threads -> FrameT \cup {NoCall}]
           /\ \A u \in Threads : u # t =>
                 /\ call[u] = NoCall => call'[u] = NoCall
                 /\ call[u] # NoCall => call'[u] # NoCall /\ Marked(call[u], call'[u])
<1>1. ~dead /\ call[t] = NoCall /\ call \in [Threads -> FrameT \cup {NoCall}] /\ Len(info) \in Nat
  BY DEF Begin, Types
<1>2. PICK hook \in scen.hooks, k \in scen.kinds :
         /\ k.wrapped => hook \in AclHooks \cup {"rtKernelLaunch"}
         /\ call' = [Overlapped(t) EXCEPT ![t] =
                       [Frame(hook, Len(info) + 1, k) EXCEPT
                           !.alone = \A u \in Threads : call[u] = NoCall]]
         /\ info' = Append(info, [skip |-> k.skip, sink |-> k.sink])
  BY DEF Begin
<1> DEFINE alone == \A u \in Threads : call[u] = NoCall
           f == Frame(hook, Len(info) + 1, k)
           g == [f EXCEPT !.alone = alone]
<1>3. hook \in Hooks /\ k \in [skip : BOOLEAN, sink : BOOLEAN, static : BOOLEAN, wrapped : BOOLEAN]
      /\ (k.wrapped => k.static)
  BY ScenarioAssumption DEF Types
<1>4. IF k.wrapped THEN Steps(<<"OuterInit">>) \in Seq(StepT) ELSE <<>> \in Seq(StepT)
  BY Singles DEF Script
<1>5. f \in FrameT
  BY <1>1, <1>3, <1>4 DEF Frame, FrameT, None
<1>6. /\ f.phase = "open" /\ Fresh(f) /\ f.tracked /\ ~f.failed /\ f.event = None /\ f.pc = None
      /\ f.todo = IF f.wrapped THEN Steps(<<"OuterInit">>) ELSE <<>>
      /\ f.id = Len(info) + 1 /\ f.sink = k.sink /\ f.wrapped = k.wrapped /\ f.static = k.static
      /\ f.hook = hook
  BY DEF Frame, Fresh
<1> HIDE DEF f
<1>0. alone \in BOOLEAN
  OBVIOUS
<1> HIDE DEF alone
<1>7. g \in FrameT /\ g.alone = alone
  BY <1>0, <1>5 DEF FrameT
<1>8. /\ g.phase = "open" /\ Fresh(g) /\ g.tracked /\ ~g.failed /\ g.event = None /\ g.pc = None
      /\ g.todo = IF g.wrapped THEN Steps(<<"OuterInit">>) ELSE <<>>
      /\ g.id = Len(info) + 1 /\ g.sink = k.sink /\ g.wrapped = k.wrapped /\ g.static = k.static
      /\ g.hook = hook
  BY <1>5, <1>6 DEF FrameT, Fresh
<1>9. call' = [Overlapped(t) EXCEPT ![t] = g]
  BY <1>2 DEF alone, f
<1> HIDE DEF g
<1>10. Opened(g)
  BY <1>2, <1>3, <1>7, <1>8, OpenScript DEF Opened
<1>11. Overlapped(t) = [u \in Threads |->
          IF u # t /\ call[u] # NoCall THEN [call[u] EXCEPT !.alone = FALSE] ELSE call[u]]
  BY DEF Overlapped
<1>12. call'[t] = g /\ \A u \in Threads : u # t =>
          call'[u] = IF call[u] # NoCall THEN [call[u] EXCEPT !.alone = FALSE] ELSE NoCall
  BY <1>9, <1>11
<1>13. ASSUME NEW u \in Threads, u # t, call[u] # NoCall
       PROVE  call'[u] # NoCall /\ Marked(call[u], call'[u])
  <2>1. call[u] \in FrameT /\ call'[u] = [call[u] EXCEPT !.alone = FALSE]
    BY <1>1, <1>12, <1>13
  <2>2. call'[u] \in FrameT
    BY <2>1 DEF FrameT
  <2>3. Marked(call[u], call'[u])
    BY <2>1, <2>2 DEF FrameT, Marked, SameBuffer, SameCourse, SameLookup
  <2> QED BY <2>2, <2>3, NoCallFrame
<1>14. call' \in [Threads -> FrameT \cup {NoCall}]
  BY <1>9, <1>11, <1>7, <1>12, <1>13 DEF Marked
<1>15. [skip |-> k.skip, sink |-> k.sink] \in [skip : BOOLEAN, sink : BOOLEAN]
  BY <1>3
<1>16. g.alone => \A u \in Threads : call[u] = NoCall
  BY <1>7 DEF alone
<1> QED BY <1>1, <1>2, <1>8, <1>10, <1>12, <1>13, <1>14, <1>15, <1>16

LEMMA EntersOf ==
    ASSUME NEW t \in Threads, Types, CallInv, ~dead, call[t] # NoCall, call[t].todo = <<>>,
           NEW g \in FrameT, call' = [call EXCEPT ![t] = g], SameLaunch(call[t], g),
           NEW N, Script(g.hook, g.todo, N), N \subseteq PhaseCalls(g)
    PROVE  Enters(t, g) /\ Pending(g) = N
<1>1. call[t] \in FrameT /\ FrameInv(call[t]) /\ call \in [Threads -> FrameT \cup {NoCall}]
  BY AtFacts DEF Types
<1>2. ScriptInv(g) /\ Pending(g) = N
  BY DEF Script, ScriptInv, Pending
<1>3. call'[t] = g
  BY <1>1
<1>4. Pending(call[t]) = {}
  BY EmptyPending DEF Pending
<1> QED BY <1>1, <1>2, <1>3, <1>4 DEF Enters, SameLaunch

LEMMA AdvanceCases ==
    ASSUME NEW t \in Threads, Advance(t)
    PROVE  /\ AtPhaseEnd(t)
           /\ OpenEnds(t) \/ ToPre(t) \/ Launch(t) \/ PostEnds(t) \/ EndEnds(t) \/ Returns(t)
BY DEF Advance, OpenEnds, PostEnds, EndEnds, Returns, AtPhaseEnd

LEMMA OpenEndsFrame ==
    ASSUME NEW t \in Threads, Types, CallInv, AtPhaseEnd(t), OpenEnds(t)
    PROVE  \E g : /\ Enters(t, g) /\ call[t].phase = "open" /\ g.phase = "init"
                  /\ Pending(g) = InitCalls(g.hook) /\ g.skip = call[t].skip
                  /\ g.failed = call[t].failed /\ SameCourse(call[t], g)
<1> DEFINE f == call[t]
           p == InitParam(f.hook)
           g == [f EXCEPT !.phase = "init", !.todo = p]
<1>1. f \in FrameT /\ f.hook \in Hooks /\ ~dead /\ f # NoCall /\ f.todo = <<>>
  BY AtFacts DEF AtPhaseEnd, FrameT
<1>2. Script(f.hook, p, InitCalls(f.hook))
  BY <1>1, InitScript
<1>3. p \in Seq(StepT)
  BY <1>2 DEF Script
<1>4. call' = [call EXCEPT ![t] = g] /\ f.phase = "open"
  BY DEF OpenEnds, Moves
<1> HIDE DEF p
<1>5. g \in FrameT
  BY <1>1, <1>3 DEF FrameT
<1>6. g.phase = "init" /\ g.todo = p /\ g.skip = f.skip /\ g.failed = f.failed
      /\ SameCourse(f, g) /\ SameLaunch(f, g)
  BY <1>1 DEF FrameT, SameCourse, SameLaunch, SameBuffer, SameLookup
<1> HIDE DEF g
<1>7. g.hook = f.hook /\ PhaseCalls(g) = InitCalls(g.hook)
  BY <1>6 DEF PhaseCalls, SameLaunch
<1>8. Enters(t, g) /\ Pending(g) = InitCalls(g.hook)
  BY <1>1, <1>2, <1>4, <1>5, <1>6, <1>7, EntersOf
<1> QED BY <1>4, <1>6, <1>8

LEMMA PostEndsFrame ==
    ASSUME NEW t \in Threads, Types, CallInv, AtPhaseEnd(t), PostEnds(t)
    PROVE  \E g : /\ Enters(t, g) /\ call[t].phase = "post" /\ g.phase = "end"
                  /\ g.skip = call[t].skip
                  /\ g.failed = call[t].failed /\ SameCourse(call[t], g)
<1> DEFINE f == call[t]
           p == PostEnd(f.hook)
           g == [f EXCEPT !.phase = "end", !.todo = p]
<1>1. f \in FrameT /\ f.hook \in Hooks /\ ~dead /\ f # NoCall /\ f.todo = <<>>
  BY AtFacts DEF AtPhaseEnd, FrameT
<1>2. PICK N : N \subseteq {"ClearArgsInfo", "FreeBuffer"} /\ Script(f.hook, p, N)
  BY <1>1, PostEndScript
<1>3. p \in Seq(StepT)
  BY <1>2 DEF Script
<1>4. call' = [call EXCEPT ![t] = g] /\ f.phase = "post"
  BY DEF PostEnds, Moves
<1> HIDE DEF p
<1>5. g \in FrameT
  BY <1>1, <1>3 DEF FrameT
<1>6. g.phase = "end" /\ g.todo = p /\ g.skip = f.skip /\ g.failed = f.failed
      /\ SameCourse(f, g) /\ SameLaunch(f, g)
  BY <1>1 DEF FrameT, SameCourse, SameLaunch, SameBuffer, SameLookup
<1> HIDE DEF g
<1>7. g.hook = f.hook /\ PhaseCalls(g) = {"ClearArgsInfo", "FreeBuffer"}
  BY <1>6 DEF PhaseCalls, SameLaunch
<1>8. Enters(t, g)
  BY <1>1, <1>2, <1>4, <1>5, <1>6, <1>7, EntersOf
<1> QED BY <1>4, <1>6, <1>8

LEMMA EndEndsFrame ==
    ASSUME NEW t \in Threads, Types, CallInv, AtPhaseEnd(t), EndEnds(t)
    PROVE  \E g : /\ Enters(t, g) /\ call[t].phase = "end" /\ g.phase = "close"
                  /\ g.skip = call[t].skip
                  /\ g.failed = call[t].failed /\ SameCourse(call[t], g)
<1> DEFINE f == call[t]
           p == IF f.wrapped THEN Steps(<<"OuterFinalize">>) ELSE <<>>
           N == IF f.wrapped THEN {"OuterFinalize"} ELSE {}
           g == [f EXCEPT !.phase = "close", !.todo = p]
<1>1. f \in FrameT /\ f.hook \in Hooks /\ ~dead /\ f # NoCall /\ f.todo = <<>>
  BY AtFacts DEF AtPhaseEnd, FrameT
<1>2. Script(f.hook, p, N)
  BY Singles
<1>3. p \in Seq(StepT)
  BY <1>2 DEF Script
<1>4. call' = [call EXCEPT ![t] = g] /\ f.phase = "end"
  BY DEF EndEnds, Moves
<1> HIDE DEF p
<1>5. g \in FrameT
  BY <1>1, <1>3 DEF FrameT
<1>6. g.phase = "close" /\ g.todo = p /\ g.skip = f.skip /\ g.failed = f.failed
      /\ SameCourse(f, g) /\ SameLaunch(f, g)
  BY <1>1 DEF FrameT, SameCourse, SameLaunch, SameBuffer, SameLookup
<1> HIDE DEF g
<1>7. g.hook = f.hook /\ PhaseCalls(g) = N
  BY <1>6 DEF PhaseCalls, SameLaunch
<1>8. Enters(t, g)
  BY <1>1, <1>2, <1>4, <1>5, <1>6, <1>7, EntersOf
<1> QED BY <1>4, <1>6, <1>8

LEMMA SeqElement == ASSUME NEW S, NEW s \in Seq(S), NEW i \in 1..Len(s) PROVE s[i] \in S
OBVIOUS

LEMMA ToPreFrame ==
    ASSUME NEW t \in Threads, Types, IdsInv, CallInv, AtPhaseEnd(t), ToPre(t)
    PROVE  \E g : /\ Enters(t, g) /\ call[t].phase = "init" /\ g.phase = "pre" /\ call[t].tracked
                  /\ Pending(g) = PreCalls(g.hook, g.skip, g.sink) /\ g.skip = Asked(t)
                  /\ g.failed = call[t].failed /\ SameCourse(call[t], g)
<1> DEFINE f == call[t]
           skip == Asked(t)
           p == SanitizerPre(f.hook, skip, f.sink)
           g == [f EXCEPT !.phase = "pre", !.skip = skip, !.todo = p]
<1>1. /\ f \in FrameT /\ f.hook \in Hooks /\ f.sink \in BOOLEAN /\ ~dead /\ f # NoCall
      /\ f.todo = <<>> /\ f.id \in Ids
  BY AtFacts DEF AtPhaseEnd, FrameT, IdsInv, FrameIds
<1>2. skip \in BOOLEAN
  <2>1. info[f.id] \in [skip : BOOLEAN, sink : BOOLEAN]
    BY <1>1, SeqElement DEF Types, Ids
  <2>2. Sees(LastOf("rt"), "skip") \in BOOLEAN
    BY DEF Sees
  <2> QED BY <2>1, <2>2 DEF Asked
<1>4. call' = [call EXCEPT ![t] = g] /\ f.phase = "init" /\ f.tracked
  BY DEF ToPre, Asked
<1> HIDE DEF skip
<1>3. Script(f.hook, p, PreCalls(f.hook, skip, f.sink)) /\ p \in Seq(StepT)
  BY <1>1, <1>2, PreScript DEF Script
<1> HIDE DEF p
<1>5. g \in FrameT
  BY <1>1, <1>2, <1>3 DEF FrameT
<1>6. g.phase = "pre" /\ g.todo = p /\ g.skip = skip /\ g.failed = f.failed
      /\ SameCourse(f, g) /\ SameLaunch(f, g) /\ g.hook = f.hook /\ g.sink = f.sink
  BY <1>1 DEF FrameT, SameCourse, SameLaunch, SameBuffer, SameLookup
<1> HIDE DEF g
<1>7. PhaseCalls(g) = PreCalls(g.hook, g.skip, g.sink)
  BY <1>6 DEF PhaseCalls
<1>8. Enters(t, g) /\ Pending(g) = PreCalls(g.hook, g.skip, g.sink)
  BY <1>1, <1>3, <1>4, <1>5, <1>6, <1>7, EntersOf
<1> QED BY <1>4, <1>6, <1>8 DEF skip

LEMMA RanOf ==
    ASSUME NEW y \in FrameT
    PROVE  /\ Ran(y) \in FrameT /\ Ran(y).phase = y.phase /\ Ran(y).todo = y.todo
           /\ Ran(y).failed = y.failed /\ Ran(y).skip = y.skip /\ Ran(y).running /\ Ran(y).ok
           /\ SameLaunch(y, Ran(y))
BY DEF Ran, FrameT, SameLaunch, SameBuffer, SameLookup

LEMMA RefusedOf ==
    ASSUME NEW y \in FrameT
    PROVE  /\ Refused(y) \in FrameT /\ Refused(y).phase = y.phase /\ Refused(y).todo = y.todo
           /\ Refused(y).failed /\ Refused(y).skip = y.skip
           /\ Refused(y).running = y.running /\ Refused(y).ok = y.ok /\ SameLaunch(y, Refused(y))
BY DEF Refused, FrameT, SameLaunch, SameBuffer, SameLookup

\* The kernel is handed to the library: the call is aborted, succeeds or fails.
LEMMA LaunchFrame ==
    ASSUME NEW t \in Threads, Types, CallInv, AtPhaseEnd(t), Launch(t)
    PROVE  \E g :
       /\ Enters(t, g) /\ call[t].phase \in {"init", "pre"} /\ (call[t].phase = "init" => ~call[t].tracked)
       /\ g.skip = call[t].skip
       /\ \/ g.phase = "end" /\ Pending(g) = {}
          \/ /\ g.phase = "post" /\ g.tracked
             /\ Pending(g) = PostCalls(g.hook, g.skip, g.sink, g.mem # None)
       /\ \/ /\ call[t].abort /\ g.phase = "end" /\ g.failed = call[t].failed
             /\ g.running = call[t].running /\ g.ok = call[t].ok
          \/ /\ ~call[t].abort /\ g.failed = call[t].failed /\ g.running /\ g.ok
             /\ (call[t].tracked => g.phase = "post")
          \/ /\ ~call[t].abort /\ g.failed /\ g.running = call[t].running /\ g.ok = call[t].ok
             /\ (call[t].hook \in RtHooks => g.phase = "post")
<1> DEFINE f == call[t]
           post == SanitizerPost(f.hook, f.skip, f.sink, f.mem # None)
           after == [f EXCEPT !.phase = "post", !.todo = post]
           ended == [f EXCEPT !.phase = "end"]
           N == PostCalls(f.hook, f.skip, f.sink, f.mem # None)
<1>1. /\ f \in FrameT /\ f.hook \in Hooks /\ f.sink \in BOOLEAN /\ f.skip \in BOOLEAN
      /\ ~dead /\ f # NoCall /\ f.todo = <<>> /\ FrameInv(f)
      /\ f.phase \in {"init", "pre"} /\ (f.phase = "init" => ~f.tracked)
  BY AtFacts DEF AtPhaseEnd, FrameT, Launch
<1>2. f.phase = "pre" => f.tracked
  BY <1>1 DEF FrameInv
<1>3. ~f.tracked => f.hook \notin RtHooks
  BY <1>1 DEF FrameInv, AclHooks, RtHooks
<1>4. Script(f.hook, post, N) /\ post \in Seq(StepT)
  BY <1>1, PostScript DEF Script
<1>6. /\ after \in FrameT /\ after.phase = "post" /\ after.todo = post /\ after.failed = f.failed
      /\ after.skip = f.skip /\ SameCourse(f, after) /\ SameLaunch(f, after)
      /\ after.mem = f.mem /\ after.sink = f.sink /\ after.hook = f.hook
  <2> HIDE DEF post
  <2> QED BY <1>1, <1>4 DEF FrameT, SameCourse, SameLaunch, SameBuffer, SameLookup
<1>7. /\ ended \in FrameT /\ ended.phase = "end" /\ ended.todo = <<>> /\ ended.failed = f.failed
      /\ ended.skip = f.skip /\ SameCourse(f, ended) /\ SameLaunch(f, ended)
  BY <1>1 DEF FrameT, SameCourse, SameLaunch, SameBuffer, SameLookup
<1> DEFINE x == IF f.tracked THEN after ELSE ended
           z == IF f.hook \in RtHooks THEN after ELSE ended
<1>8. /\ \/ /\ f.abort /\ call' = [call EXCEPT ![t] = ended]
         \/ /\ ~f.abort /\ call' = [call EXCEPT ![t] = Ran(x)]
         \/ /\ ~f.abort /\ call' = [call EXCEPT ![t] = Refused(z)]
  BY <1>1 DEF Launch, Moves, Ran, Refused
<1> HIDE DEF after, ended
<1>9. CASE f.abort /\ call' = [call EXCEPT ![t] = ended]
  <2>2. Script(ended.hook, ended.todo, {}) /\ {} \subseteq PhaseCalls(ended)
    BY <1>7, EmptyScript
  <2>1. Enters(t, ended) /\ Pending(ended) = {}
    BY <1>1, <1>7, <1>9, <2>2, EntersOf
  <2> QED BY <2>1, <1>1, <1>7, <1>9 DEF SameCourse
<1>10. /\ x \in FrameT /\ x.failed = f.failed /\ x.skip = f.skip /\ SameLaunch(f, x)
       /\ f.tracked => x = after
       /\ ~f.tracked => x = ended
  BY <1>6, <1>7
<1>11. /\ z \in FrameT /\ z.failed = f.failed /\ z.skip = f.skip /\ SameLaunch(f, z)
       /\ SameCourse(f, z)
       /\ f.hook \in RtHooks => z = after
       /\ f.hook \notin RtHooks => z = ended
  BY <1>6, <1>7
<1> HIDE DEF x, z
<1>12. CASE ~f.abort /\ call' = [call EXCEPT ![t] = Ran(x)]
  <2> DEFINE g == Ran(x)
  <2>1. /\ g \in FrameT /\ g.phase = x.phase /\ g.todo = x.todo /\ g.failed = f.failed
        /\ g.skip = f.skip /\ g.running /\ g.ok /\ SameLaunch(x, g)
    BY <1>10, RanOf
  <2>2. SameLaunch(f, g)
    BY <2>1, <1>10 DEF SameLaunch, SameBuffer, SameLookup
  <2>9. call' = [call EXCEPT ![t] = g]
    BY <1>12
  <2> HIDE DEF g
  <2>3. CASE f.tracked
    <3>1. /\ g.phase = "post" /\ g.todo = post /\ g.hook = f.hook /\ g.sink = f.sink
          /\ g.mem = f.mem /\ g.tracked
      BY <2>1, <2>2, <2>3, <1>6, <1>10 DEF SameLaunch, SameBuffer, SameLookup
    <3>2. PhaseCalls(g) = N /\ PostCalls(g.hook, g.skip, g.sink, g.mem # None) = N
      BY <2>1, <3>1 DEF PhaseCalls
    <3>3. Enters(t, g) /\ Pending(g) = N
      BY <1>1, <1>4, <2>1, <2>2, <2>9, <3>1, <3>2, EntersOf
    <3> QED BY <1>1, <1>12, <2>1, <2>3, <3>1, <3>2, <3>3
  <2>4. CASE ~f.tracked
    <3>1. g.phase = "end" /\ g.todo = <<>>
      BY <2>1, <2>4, <1>7, <1>10
    <3>2. Script(g.hook, g.todo, {}) /\ {} \subseteq PhaseCalls(g)
      BY <3>1, EmptyScript
    <3>3. Enters(t, g) /\ Pending(g) = {}
      BY <1>1, <2>1, <2>2, <2>9, <3>2, EntersOf
    <3> QED BY <1>1, <1>12, <2>1, <2>4, <3>1, <3>3
  <2> QED BY <2>3, <2>4
<1>13. CASE ~f.abort /\ call' = [call EXCEPT ![t] = Refused(z)]
  <2> DEFINE g == Refused(z)
  <2>1. /\ g \in FrameT /\ g.phase = z.phase /\ g.todo = z.todo /\ g.failed
        /\ g.skip = f.skip /\ g.running = z.running /\ g.ok = z.ok /\ SameLaunch(z, g)
    BY <1>11, RefusedOf
  <2>2. SameLaunch(f, g) /\ g.running = f.running /\ g.ok = f.ok
    BY <2>1, <1>11 DEF SameLaunch, SameBuffer, SameLookup, SameCourse
  <2>9. call' = [call EXCEPT ![t] = g]
    BY <1>13
  <2> HIDE DEF g
  <2>3. CASE f.hook \in RtHooks
    <3>1. /\ g.phase = "post" /\ g.todo = post /\ g.hook = f.hook /\ g.sink = f.sink
          /\ g.mem = f.mem /\ g.tracked
      <4>1. f.tracked
        BY <1>3, <2>3 DEF FrameT
      <4> QED BY <2>1, <2>2, <2>3, <4>1, <1>6, <1>11 DEF SameLaunch, SameBuffer, SameLookup
    <3>2. PhaseCalls(g) = N /\ PostCalls(g.hook, g.skip, g.sink, g.mem # None) = N
      BY <2>1, <3>1 DEF PhaseCalls
    <3>3. Enters(t, g) /\ Pending(g) = N
      BY <1>1, <1>4, <2>1, <2>2, <2>9, <3>1, <3>2, EntersOf
    <3> QED BY <1>1, <1>13, <2>1, <2>2, <2>3, <3>1, <3>2, <3>3
  <2>4. CASE f.hook \notin RtHooks
    <3>1. g.phase = "end" /\ g.todo = <<>>
      BY <2>1, <2>4, <1>7, <1>11
    <3>2. Script(g.hook, g.todo, {}) /\ {} \subseteq PhaseCalls(g)
      BY <3>1, EmptyScript
    <3>3. Enters(t, g) /\ Pending(g) = {}
      BY <1>1, <2>1, <2>2, <2>9, <3>2, EntersOf
    <3> QED BY <1>1, <1>13, <2>1, <2>2, <2>4, <3>1, <3>3
  <2> QED BY <2>3, <2>4
<1> QED BY <1>8, <1>9, <1>12, <1>13

-----------------------------------------------------------------------------
(* FrameInv, action by action. *)

LEMMA FrameKept ==
    ASSUME NEW f, NEW g, Works(f, g), FrameInv(f), SameBuffer(f, g),
           g.running = f.running, g.ok = f.ok,
           g.sections = f.sections \/ f.phase \notin Early,
           g.sink = f.sink \/ f.phase \in Early,
           \/ g.tracked = f.tracked
           \/ f.phase = "init" /\ f.hook \in AclHooks /\ g.failed /\ Pending(g) = {} /\ ~g.tracked,
           g.failed = f.failed \/ ~Answerable(g),
           f.todo[1].call \notin {"Init", "ExpandArgs"},
           f.phase = "post" => /\ f.todo[1].call # "Sync"
                               /\ \/ Pending(g) = Pending(f) \ {f.todo[1].call}
                                  \/ Rank(f.hook, f.todo[1].call) > 1
    PROVE  FrameInv(g)
<1> DEFINE c == f.todo[1].call
<1>1. /\ g.phase = f.phase /\ g.hook = f.hook /\ g.id = f.id /\ g.static = f.static
      /\ g.wrapped = f.wrapped /\ g.skip = f.skip /\ g.mem = f.mem /\ g.arg = f.arg
      /\ g.made = f.made /\ g.inst = f.inst /\ g.kernel = f.kernel /\ g.abort = f.abort
      /\ g.stale = f.stale
  BY DEF Works, SameCall, SameBuffer
<1>2. /\ Pending(g) \subseteq Pending(f) /\ (f.failed => g.failed)
      /\ ~g.failed => Pending(g) = Pending(f) \ {c}
      /\ Pending(g) = Pending(f) \ {c} \/ Pending(g) = {}
      /\ f.failed \in BOOLEAN /\ g.failed \in BOOLEAN
  BY DEF Works, FrameT
<1>3. f.phase = "post" /\ "Sync" \in Pending(f) => "Sync" \in Pending(g)
  <2>1. ASSUME f.phase = "post", "Sync" \in Pending(f) PROVE Pending(g) = Pending(f) \ {c}
    <3>1. Rank(f.hook, c) <= Rank(f.hook, "Sync")
      BY <2>1 DEF Works
    <3>2. ~(Rank(f.hook, c) > 1)
      BY <3>1, Ranks, RankNat
    <3> QED BY <3>2, <2>1
  <2> QED BY <2>1
<1>4. Early = {"open", "init"}
  BY DEF Early
<1> HIDE DEF c
<1>5. c \notin {"Init", "ExpandArgs"}
  BY DEF c
<1>6. f.phase \in Early => Fresh(g)
  BY <1>1 DEF FrameInv, Fresh
<1>7. /\ "Init" \in Pending(g) => g.mem = None /\ g.arg = None
      /\ "ExpandArgs" \in Pending(g) => g.arg = None
      /\ g.arg # None => g.arg = g.mem
      /\ g.sink /\ ~g.skip => g.mem = None /\ ~g.inst
  BY <1>6, <1>1, <1>2 DEF Fresh, FrameInv
<1>8. /\ g.phase = "open" => g.tracked
      /\ g.phase \in {"pre", "post"} => g.tracked
      /\ g.phase = "pre" => ~g.running /\ ~g.ok
      /\ ~g.tracked => g.hook \in AclHooks /\ g.failed /\ Pending(g) \subseteq {"OuterFinalize"}
      /\ g.wrapped => g.static /\ g.hook \in AclHooks \cup {"rtKernelLaunch"}
  BY <1>1, <1>2 DEF FrameInv
<1>9. /\ g.phase \in {"pre", "post"} /\ ~g.failed /\ ~g.skip /\ ~g.sink =>
            /\ "Init" \notin Pending(g) => g.mem # None
            /\ "ExpandArgs" \notin Pending(g) => g.arg # None
  BY <1>1, <1>2, <1>4, <1>5 DEF FrameInv
<1>10. /\ g.phase = "pre" /\ g.hook \notin InstrumentsFirst =>
             /\ Pending(g) \cap {"RunDBITask", "Commit"} # {} =>
                   /\ "Init" \notin Pending(g) => g.mem # None
                   /\ "ExpandArgs" \notin Pending(g) => g.arg # None
             /\ g.inst => g.arg # None
  BY <1>1, <1>2, <1>5 DEF FrameInv
<1>11. /\ g.inst => ~g.static
       /\ g.made # None => ~g.static
       /\ g.hook = "WithHostArgs" /\ g.static /\ ~g.wrapped /\ g.failed /\ g.tracked
            /\ g.phase \in {"open", "init", "pre"} => g.abort
       /\ g.abort => g.failed /\ g.phase \in {"pre", "end", "close"} /\ g.mem = None /\ ~g.running
       /\ g.abort /\ g.phase = "pre" => Pending(g) = {}
  BY <1>8, <1>1, <1>2 DEF Answerable, FrameInv
<1>12. /\ g.phase = "post" /\ g.running /\ g.arg # None /\ ~g.skip => "Sync" \in Pending(g)
       /\ g.phase \in {"end", "close"} /\ g.running => g.arg = None \/ g.skip
  BY <1>1, <1>3 DEF FrameInv
<1>13. g.phase \in Early => Fresh(g)
  BY <1>1, <1>6
<1> QED BY <1>13, <1>7, <1>8, <1>9, <1>10, <1>11, <1>12 DEF FrameInv

\* FrameInv in parts, for the proofs.
LEMMA FrameParts ==
    ASSUME NEW g,
           g.phase \in Early => Fresh(g),
           g.phase = "open" => g.tracked,
           g.phase \in {"pre", "post"} => g.tracked,
           g.phase = "pre" => ~g.running /\ ~g.ok,
           ~g.tracked => g.hook \in AclHooks /\ g.failed /\ Pending(g) \subseteq {"OuterFinalize"},
           g.wrapped => g.static /\ g.hook \in AclHooks \cup {"rtKernelLaunch"},
           "Init" \in Pending(g) => g.mem = None /\ g.arg = None,
           "ExpandArgs" \in Pending(g) => g.arg = None,
           g.arg # None => g.arg = g.mem,
           g.sink /\ ~g.skip => g.mem = None /\ ~g.inst,
           g.phase \in {"pre", "post"} /\ ~g.failed /\ ~g.skip /\ ~g.sink =>
              /\ "Init" \notin Pending(g) => g.mem # None
              /\ "ExpandArgs" \notin Pending(g) => g.arg # None,
           g.phase = "pre" /\ g.hook \notin InstrumentsFirst =>
              /\ Pending(g) \cap {"RunDBITask", "Commit"} # {} =>
                    /\ "Init" \notin Pending(g) => g.mem # None
                    /\ "ExpandArgs" \notin Pending(g) => g.arg # None
              /\ g.inst => g.arg # None,
           g.inst => ~g.static,
           g.made # None => ~g.static,
           g.hook = "WithHostArgs" /\ g.static /\ ~g.wrapped /\ g.failed /\ g.tracked
              /\ g.phase \in {"open", "init", "pre"} => g.abort,
           g.abort => g.failed /\ g.phase \in {"pre", "end", "close"} /\ g.mem = None /\ ~g.running,
           g.abort /\ g.phase = "pre" => Pending(g) = {},
           g.phase = "post" /\ g.running /\ g.arg # None /\ ~g.skip => "Sync" \in Pending(g),
           g.phase \in {"end", "close"} /\ g.running => g.arg = None \/ g.skip
    PROVE  FrameInv(g)
BY DEF FrameInv

\* What kind of call is waited for, and how a failing one is answered.
LEMMA MakingFacts ==
    ASSUME NEW f \in FrameT, ScriptInv(f), NEW c \in Pending(f)
    PROVE  /\ c \in {"Init", "ExpandArgs", "RunDBITask", "Commit"} =>
                 f.phase = "pre" /\ (f.skip \/ ~f.sink)
           /\ c = "Commit" => f.hook = "WithHostArgs"
<1>1. c \in PhaseCalls(f)
  BY DEF ScriptInv
<1>2. c \in {"Init", "ExpandArgs", "RunDBITask", "Commit"} => f.phase = "pre"
  BY <1>1, PhaseOf
<1>3. c \in {"Init", "ExpandArgs", "RunDBITask", "Commit"} => c \in PreCalls(f.hook, f.skip, f.sink)
  BY <1>1, <1>2 DEF PhaseCalls
<1>4. c \in {"Init", "ExpandArgs", "RunDBITask", "Commit"} => f.skip \/ ~f.sink
  BY <1>3 DEF PreCalls
<1>5. c = "Commit" => f.hook = "WithHostArgs"
  BY <1>3 DEF PreCalls, Making, RtHooks, SimtHooks
<1> QED BY <1>2, <1>4, <1>5

LEMMA HeadMode ==
    ASSUME NEW f \in FrameT, ScriptInv(f), f.todo # <<>>
    PROVE  /\ f.todo[1].call \in {"Init", "ExpandArgs"} => f.todo[1].onFail = InitMode(f.hook)
           /\ f.todo[1].call = "CreateContext" => f.todo[1].onFail = "leave"
           /\ f.todo[1].call \in {"OuterInit", "AddLaunchEvent"} => f.todo[1].onFail = "go"
           /\ f.todo[1].onFail \in {"go", "leave", "undo"}
<1>1. f.todo \in Seq(StepT)
  BY DEF FrameT
<1>2. 1 \in DOMAIN f.todo /\ f.todo[1] \in StepT
  BY <1>1
<1> QED BY <1>2 DEF ScriptInv, Modes, StepT

\* __sanitizer_init, called by the hook.
LEMMA InitFrameInv ==
    ASSUME NEW f, NEW g, Works(f, g), FrameInv(f), f.todo[1].call = "Init",
           SameCourse(f, g), SameLookup(f, g), g.arg = f.arg, g.inst = f.inst,
           g.kernel = f.kernel,
           \/ /\ g.mem # None /\ g.made = f.made /\ g.abort = f.abort /\ g.failed = f.failed
              /\ Pending(g) = Pending(f) \ {"Init"}
           \/ /\ g.mem = None /\ g.failed
              /\ f.todo[1].onFail = "go" => Pending(g) = Pending(f) \ {"Init"}
              /\ f.todo[1].onFail # "go" => Pending(g) = {}
              /\ f.todo[1].onFail = "undo" => g.abort = g.static /\ g.made = None
              /\ f.todo[1].onFail # "undo" => g.abort = f.abort /\ g.made = f.made
    PROVE  FrameInv(g)
<1>1. /\ g.phase = f.phase /\ g.hook = f.hook /\ g.id = f.id /\ g.static = f.static
      /\ g.wrapped = f.wrapped /\ g.skip = f.skip /\ g.sink = f.sink /\ g.running = f.running
      /\ g.ok = f.ok /\ g.tracked = f.tracked
  BY DEF Works, SameCall, SameCourse, SameLookup
<1>2. "Init" \in Pending(f) /\ f \in FrameT /\ ScriptInv(f) /\ (f.failed => g.failed)
      /\ Pending(g) \subseteq Pending(f) /\ "Init" \notin Pending(g)
  BY DEF Works
<1>3. f.phase = "pre" /\ (f.skip \/ ~f.sink) /\ f.todo[1].onFail = InitMode(f.hook)
  BY <1>2, MakingFacts, HeadMode DEF Works
<1>4. f.mem = None /\ f.arg = None /\ ~f.abort /\ f.tracked /\ ~f.running /\ ~f.ok
  BY <1>2, <1>3 DEF FrameInv
<1>5. f.hook \notin InstrumentsFirst => f.todo[1].onFail # "go"
  BY <1>3 DEF InitMode, InstrumentsFirst, AclHooks, RtHooks
<1>6. f.hook = "WithHostArgs" => f.todo[1].onFail = "undo"
  BY <1>3 DEF InitMode
<1>7. g.phase \notin Early
  BY <1>1, <1>3 DEF Early
<1>8. g.phase \in {"pre", "post"} /\ ~g.failed /\ ~g.skip /\ ~g.sink =>
         /\ "Init" \notin Pending(g) => g.mem # None
         /\ "ExpandArgs" \notin Pending(g) => g.arg # None
  BY <1>1, <1>2, <1>3, <1>4 DEF FrameInv
<1>9. g.phase = "pre" /\ g.hook \notin InstrumentsFirst =>
         /\ Pending(g) \cap {"RunDBITask", "Commit"} # {} =>
               /\ "Init" \notin Pending(g) => g.mem # None
               /\ "ExpandArgs" \notin Pending(g) => g.arg # None
         /\ g.inst => g.arg # None
  BY <1>1, <1>2, <1>3, <1>4, <1>5 DEF FrameInv
<1>10. /\ g.inst => ~g.static
       /\ g.made # None => ~g.static
       /\ g.sink /\ ~g.skip => g.mem = None /\ ~g.inst
  BY <1>1, <1>3 DEF FrameInv
<1>11. /\ g.hook = "WithHostArgs" /\ g.static /\ ~g.wrapped /\ g.failed /\ g.tracked
            /\ g.phase \in {"open", "init", "pre"} => g.abort
       /\ g.abort => g.failed /\ g.phase \in {"pre", "end", "close"} /\ g.mem = None /\ ~g.running
       /\ g.abort /\ g.phase = "pre" => Pending(g) = {}
  BY <1>3, <1>4, <1>1, <1>6 DEF FrameInv
<1>12. g.wrapped => g.static /\ g.hook \in AclHooks \cup {"rtKernelLaunch"}
  BY <1>1 DEF FrameInv
<1> QED BY <1>1, <1>2, <1>3, <1>4, <1>7, <1>8, <1>9, <1>10, <1>11, <1>12, FrameParts

LEMMA ExpandFrameInv ==
    ASSUME NEW f, NEW g, Works(f, g), FrameInv(f), f.todo[1].call = "ExpandArgs",
           SameCourse(f, g), SameLookup(f, g), g.inst = f.inst, g.kernel = f.kernel,
           \/ /\ g.arg = f.mem /\ g.mem = f.mem /\ g.made = f.made /\ g.abort = f.abort
              /\ g.failed = f.failed /\ Pending(g) = Pending(f) \ {"ExpandArgs"}
           \/ /\ g.arg = f.arg /\ g.failed
              /\ f.todo[1].onFail = "go" => Pending(g) = Pending(f) \ {"ExpandArgs"}
              /\ f.todo[1].onFail # "go" => Pending(g) = {}
              /\ f.todo[1].onFail = "undo" => g.mem = None /\ g.abort = g.static /\ g.made = None
              /\ f.todo[1].onFail # "undo" => g.mem = f.mem /\ g.abort = f.abort /\ g.made = f.made
    PROVE  FrameInv(g)
<1>1. /\ g.phase = f.phase /\ g.hook = f.hook /\ g.id = f.id /\ g.static = f.static
      /\ g.wrapped = f.wrapped /\ g.skip = f.skip /\ g.sink = f.sink /\ g.running = f.running
      /\ g.ok = f.ok /\ g.tracked = f.tracked
  BY DEF Works, SameCall, SameCourse, SameLookup
<1>2. "ExpandArgs" \in Pending(f) /\ f \in FrameT /\ ScriptInv(f) /\ (f.failed => g.failed)
      /\ Pending(g) \subseteq Pending(f) /\ "ExpandArgs" \notin Pending(g)
  BY DEF Works
<1>3. f.phase = "pre" /\ (f.skip \/ ~f.sink) /\ f.todo[1].onFail = InitMode(f.hook)
  BY <1>2, MakingFacts, HeadMode DEF Works
<1>4. f.arg = None /\ ~f.abort /\ f.tracked /\ ~f.running /\ ~f.ok
  BY <1>2, <1>3 DEF FrameInv
<1>5. f.hook \notin InstrumentsFirst => f.todo[1].onFail # "go"
  BY <1>3 DEF InitMode, InstrumentsFirst, AclHooks, RtHooks
<1>6. f.hook = "WithHostArgs" => f.todo[1].onFail = "undo"
  BY <1>3 DEF InitMode
<1>7. g.phase \notin Early
  BY <1>1, <1>3 DEF Early
<1>13. "Init" \notin Pending(f)
  BY Ranks DEF Works
<1>8. g.phase \in {"pre", "post"} /\ ~g.failed /\ ~g.skip /\ ~g.sink =>
         /\ "Init" \notin Pending(g) => g.mem # None
         /\ "ExpandArgs" \notin Pending(g) => g.arg # None
  BY <1>1, <1>2, <1>3, <1>4, <1>13 DEF FrameInv
<1>9. g.phase = "pre" /\ g.hook \notin InstrumentsFirst =>
         /\ Pending(g) \cap {"RunDBITask", "Commit"} # {} =>
               /\ "Init" \notin Pending(g) => g.mem # None
               /\ "ExpandArgs" \notin Pending(g) => g.arg # None
         /\ g.inst => g.arg # None
  BY <1>1, <1>2, <1>3, <1>4, <1>5, <1>13 DEF FrameInv
<1>10. /\ g.inst => ~g.static
       /\ g.made # None => ~g.static
       /\ g.sink /\ ~g.skip => g.mem = None /\ ~g.inst
       /\ g.arg # None => g.arg = g.mem
  BY <1>1, <1>3, <1>4 DEF FrameInv
<1>11. /\ g.hook = "WithHostArgs" /\ g.static /\ ~g.wrapped /\ g.failed /\ g.tracked
            /\ g.phase \in {"open", "init", "pre"} => g.abort
       /\ g.abort => g.failed /\ g.phase \in {"pre", "end", "close"} /\ g.mem = None /\ ~g.running
       /\ g.abort /\ g.phase = "pre" => Pending(g) = {}
  BY <1>3, <1>4, <1>1, <1>6 DEF FrameInv
<1>12. g.wrapped => g.static /\ g.hook \in AclHooks \cup {"rtKernelLaunch"}
  BY <1>1 DEF FrameInv
<1> QED BY <1>1, <1>2, <1>3, <1>4, <1>7, <1>8, <1>9, <1>10, <1>11, <1>12, <1>13, FrameParts

\* The instrumented kernel is made or put in place.
LEMMA InstrumentFrameInv ==
    ASSUME NEW f, NEW g, Works(f, g), FrameInv(f),
           f.todo[1].call \in {"RunDBITask", "MakeInstrumented", "Commit"},
           SameCourse(f, g), SameLookup(f, g), g.mem = f.mem, g.arg = f.arg, g.abort = f.abort,
           g.stale = f.stale, g.failed = f.failed,
           Pending(g) = Pending(f) \ {f.todo[1].call},
           g.inst = f.inst \/ (~f.static /\ f.todo[1].call # "MakeInstrumented"),
           g.made = f.made \/ ~f.static
    PROVE  FrameInv(g)
<1> DEFINE c == f.todo[1].call
<1>1. /\ g.phase = f.phase /\ g.hook = f.hook /\ g.id = f.id /\ g.static = f.static
      /\ g.wrapped = f.wrapped /\ g.skip = f.skip /\ g.sink = f.sink /\ g.running = f.running
      /\ g.ok = f.ok /\ g.tracked = f.tracked
  BY DEF Works, SameCall, SameCourse, SameLookup
<1>2. c \in Pending(f) /\ f \in FrameT /\ ScriptInv(f) /\ c \in PhaseCalls(f)
  BY DEF Works
<1>3. f.phase = "pre" /\ (c # "MakeInstrumented" => f.skip \/ ~f.sink)
  BY <1>2, MakingFacts, PhaseOf
<1>4. ~f.abort /\ f.tracked /\ ~f.running /\ ~f.ok
  BY <1>2, <1>3 DEF FrameInv
<1>5. f.hook \notin InstrumentsFirst /\ c # "MakeInstrumented" =>
         "Init" \notin Pending(f) /\ "ExpandArgs" \notin Pending(f)
  <2>1. SUFFICES ASSUME f.hook \notin InstrumentsFirst, c # "MakeInstrumented",
                        NEW d \in {"Init", "ExpandArgs"}, d \in Pending(f)
                 PROVE  FALSE
    OBVIOUS
  <2>2. Rank(f.hook, c) = 11 /\ Rank(f.hook, d) < 11
    BY <2>1, Ranks
  <2>3. Rank(f.hook, c) <= Rank(f.hook, d)
    BY <2>1 DEF Works
  <2> QED BY <2>2, <2>3, RankNat
<1>7. g.phase \notin Early
  BY <1>1, <1>3 DEF Early
<1> HIDE DEF c
<1>14. c \in {"RunDBITask", "MakeInstrumented", "Commit"} /\ Pending(g) = Pending(f) \ {c}
       /\ (g.inst = f.inst \/ (~f.static /\ c # "MakeInstrumented"))
  BY DEF c
<1>8. g.phase \in {"pre", "post"} /\ ~g.failed /\ ~g.skip /\ ~g.sink =>
         /\ "Init" \notin Pending(g) => g.mem # None
         /\ "ExpandArgs" \notin Pending(g) => g.arg # None
  BY <1>1, <1>3, <1>14 DEF FrameInv
<1>9. g.phase = "pre" /\ g.hook \notin InstrumentsFirst =>
         /\ Pending(g) \cap {"RunDBITask", "Commit"} # {} =>
               /\ "Init" \notin Pending(g) => g.mem # None
               /\ "ExpandArgs" \notin Pending(g) => g.arg # None
         /\ g.inst => g.arg # None
  BY <1>1, <1>2, <1>3, <1>5, <1>14 DEF FrameInv
<1>10. /\ g.inst => ~g.static
       /\ g.made # None => ~g.static
       /\ g.sink /\ ~g.skip => g.mem = None /\ ~g.inst
       /\ g.arg # None => g.arg = g.mem
       /\ "Init" \in Pending(g) => g.mem = None /\ g.arg = None
       /\ "ExpandArgs" \in Pending(g) => g.arg = None
  BY <1>1, <1>3, <1>14 DEF FrameInv
<1>11. /\ g.hook = "WithHostArgs" /\ g.static /\ ~g.wrapped /\ g.failed /\ g.tracked
            /\ g.phase \in {"open", "init", "pre"} => g.abort
       /\ g.abort => g.failed /\ g.phase \in {"pre", "end", "close"} /\ g.mem = None /\ ~g.running
       /\ g.abort /\ g.phase = "pre" => Pending(g) = {}
  BY <1>1, <1>4 DEF FrameInv
<1>12. g.wrapped => g.static /\ g.hook \in AclHooks \cup {"rtKernelLaunch"}
  BY <1>1 DEF FrameInv
<1> QED BY <1>1, <1>3, <1>4, <1>7, <1>8, <1>9, <1>10, <1>11, <1>12, FrameParts

\* The kernel has ended.
LEMMA EndedFrameInv ==
    ASSUME NEW f, NEW g, Works(f, g), FrameInv(f), f.phase = "post", ~g.running,
           SameBuffer(f, g), SameLookup(f, g), g.ok = f.ok, g.tracked = f.tracked,
           g.failed = f.failed, Pending(g) = Pending(f) \ {f.todo[1].call},
           f.todo[1].call \notin {"Init", "ExpandArgs"}
    PROVE  FrameInv(g)
<1>1. /\ g.phase = f.phase /\ g.hook = f.hook /\ g.id = f.id /\ g.static = f.static
      /\ g.wrapped = f.wrapped /\ g.skip = f.skip /\ g.sink = f.sink
      /\ g.mem = f.mem /\ g.arg = f.arg /\ g.made = f.made /\ g.inst = f.inst /\ g.abort = f.abort
  BY DEF Works, SameCall, SameBuffer, SameLookup
<1>2. g.phase \notin Early
  BY <1>1 DEF Early
<1>3. "Init" \in Pending(g) <=> "Init" \in Pending(f)
  OBVIOUS
<1>4. "ExpandArgs" \in Pending(g) <=> "ExpandArgs" \in Pending(f)
  OBVIOUS
<1> QED BY <1>1, <1>2, <1>3, <1>4, FrameParts DEF FrameInv

-----------------------------------------------------------------------------
(* FrameInv, from phase to phase. *)

\* No call of these phases makes a buffer.
LEMMA QuietPhases ==
    ASSUME NEW g \in FrameT, ScriptInv(g), g.phase # "pre"
    PROVE  "Init" \notin Pending(g) /\ "ExpandArgs" \notin Pending(g)
BY MakingFacts

LEMMA OpenFrameInv ==
    ASSUME NEW g, Opened(g)
    PROVE  FrameInv(g)
BY QuietPhases, FrameParts DEF Opened, Fresh

LEMMA MarkedFrame ==
    ASSUME NEW f, NEW h, Marked(f, h), ScriptInv(f), FrameInv(f)
    PROVE  ScriptInv(h) /\ FrameInv(h) /\ Pending(h) = Pending(f)
<1>1. /\ h.todo = f.todo /\ h.failed = f.failed /\ h.phase = f.phase /\ h.hook = f.hook
      /\ h.id = f.id /\ h.static = f.static /\ h.wrapped = f.wrapped /\ h.skip = f.skip
      /\ h.sink = f.sink /\ h.mem = f.mem /\ h.arg = f.arg /\ h.made = f.made /\ h.inst = f.inst
      /\ h.kernel = f.kernel /\ h.abort = f.abort /\ h.stale = f.stale /\ h.running = f.running
      /\ h.ok = f.ok /\ h.tracked = f.tracked /\ h.sections = f.sections
  BY DEF Marked, SameBuffer, SameCourse, SameLookup
<1>2. Pending(h) = Pending(f) /\ PhaseCalls(h) = PhaseCalls(f)
  BY <1>1 DEF Pending, PhaseCalls
<1>3. ScriptInv(h)
  BY <1>1, <1>2 DEF ScriptInv
<1>4. FrameInv(h)
  BY <1>1, <1>2 DEF FrameInv, Fresh
<1> QED BY <1>2, <1>3, <1>4

LEMMA EntersSame ==
    ASSUME NEW t \in Threads, NEW g, Enters(t, g)
    PROVE  /\ g.hook = call[t].hook /\ g.id = call[t].id /\ g.static = call[t].static
           /\ g.wrapped = call[t].wrapped /\ g.alone = call[t].alone
           /\ g.tracked = call[t].tracked /\ g.mem = call[t].mem /\ g.arg = call[t].arg
           /\ g.made = call[t].made /\ g.inst = call[t].inst /\ g.kernel = call[t].kernel
           /\ g.abort = call[t].abort /\ g.stale = call[t].stale /\ g.event = call[t].event
           /\ g.pc = call[t].pc /\ g.sections = call[t].sections /\ g.sink = call[t].sink
           /\ Pending(call[t]) = {} /\ FrameInv(call[t]) /\ g \in FrameT /\ ScriptInv(g)
           /\ call[t] \in FrameT /\ call[t] # NoCall /\ ~dead
BY DEF Enters, SameBuffer, SameLookup

LEMMA InitPhaseInv ==
    ASSUME NEW t \in Threads, NEW g, Enters(t, g), call[t].phase = "open", g.phase = "init",
           g.skip = call[t].skip, g.failed = call[t].failed, SameCourse(call[t], g)
    PROVE  FrameInv(g)
<1>1. "Init" \notin Pending(g) /\ "ExpandArgs" \notin Pending(g)
  BY EntersSame, QuietPhases
<1>2. Fresh(call[t]) /\ call[t].tracked
  BY EntersSame DEF FrameInv, Early
<1>3. Fresh(g) /\ g.tracked
  BY <1>2, EntersSame DEF Fresh, SameCourse
<1>4. g.hook = "WithHostArgs" /\ g.static /\ ~g.wrapped /\ g.failed => FALSE
  <2> DEFINE f == call[t]
  <2>1. FrameInv(f) /\ ~f.abort /\ f.tracked /\ f.phase \in {"open", "init"}
        /\ g.hook = f.hook /\ g.static = f.static /\ g.wrapped = f.wrapped /\ g.failed = f.failed
    BY <1>2, EntersSame DEF Fresh
  <2> HIDE DEF f
  <2> QED BY <2>1 DEF FrameInv
<1>5. g.wrapped => g.static /\ g.hook \in AclHooks \cup {"rtKernelLaunch"}
  BY EntersSame DEF FrameInv
<1> QED BY <1>1, <1>3, <1>4, <1>5, FrameParts DEF Fresh

LEMMA PrePhaseInv ==
    ASSUME NEW t \in Threads, NEW g, Enters(t, g), call[t].phase = "init", g.phase = "pre",
           call[t].tracked, Pending(g) = PreCalls(g.hook, g.skip, g.sink),
           g.failed = call[t].failed, SameCourse(call[t], g)
    PROVE  FrameInv(g)
<1>2. Fresh(call[t])
  BY EntersSame DEF FrameInv, Early
<1>3. /\ g.mem = None /\ g.arg = None /\ g.made = None /\ ~g.inst /\ ~g.running /\ ~g.ok
      /\ ~g.abort /\ g.tracked
  BY <1>2, EntersSame DEF Fresh, SameCourse
<1>4. g.hook = "WithHostArgs" /\ g.static /\ ~g.wrapped /\ g.failed => FALSE
  <2> DEFINE f == call[t]
  <2>1. FrameInv(f) /\ ~f.abort /\ f.tracked /\ f.phase \in {"open", "init"}
        /\ g.hook = f.hook /\ g.static = f.static /\ g.wrapped = f.wrapped /\ g.failed = f.failed
    BY <1>2, EntersSame DEF Fresh
  <2> HIDE DEF f
  <2> QED BY <2>1 DEF FrameInv
<1>5. g.wrapped => g.static /\ g.hook \in AclHooks \cup {"rtKernelLaunch"}
  BY EntersSame DEF FrameInv
<1>6. /\ ~g.skip /\ ~g.sink => "Init" \in Pending(g) /\ "ExpandArgs" \in Pending(g)
      /\ Pending(g) \cap {"RunDBITask", "Commit"} # {} =>
            "Init" \in Pending(g) /\ "ExpandArgs" \in Pending(g)
  BY DEF PreCalls, Making
<1>7. g.phase \notin Early
  BY DEF Early
<1> QED BY <1>3, <1>4, <1>5, <1>6, <1>7, FrameParts

LEMMA LaunchedInv ==
    ASSUME NEW t \in Threads, NEW g, Enters(t, g), call[t].phase \in {"init", "pre"},
           call[t].phase = "init" => ~call[t].tracked, g.skip = call[t].skip,
           \/ g.phase = "end" /\ Pending(g) = {}
           \/ /\ g.phase = "post" /\ g.tracked
              /\ Pending(g) = PostCalls(g.hook, g.skip, g.sink, g.mem # None),
           \/ /\ call[t].abort /\ g.phase = "end" /\ g.failed = call[t].failed
              /\ g.running = call[t].running /\ g.ok = call[t].ok
           \/ /\ ~call[t].abort /\ g.failed = call[t].failed /\ g.running /\ g.ok
              /\ (call[t].tracked => g.phase = "post")
           \/ /\ ~call[t].abort /\ g.failed /\ g.running = call[t].running /\ g.ok = call[t].ok
              /\ (call[t].hook \in RtHooks => g.phase = "post")
    PROVE  FrameInv(g)
<1> DEFINE f == call[t]
<1>0. /\ g.hook = f.hook /\ g.static = f.static /\ g.wrapped = f.wrapped
      /\ g.tracked = f.tracked /\ g.mem = f.mem /\ g.arg = f.arg /\ g.made = f.made
      /\ g.inst = f.inst /\ g.abort = f.abort /\ g.sink = f.sink
      /\ Pending(f) = {} /\ FrameInv(f) /\ g \in FrameT /\ ScriptInv(g) /\ f \in FrameT
  BY EntersSame
<1> HIDE DEF f
<1>1. "Init" \notin Pending(g) /\ "ExpandArgs" \notin Pending(g)
  BY <1>0, QuietPhases
<1>2. ~f.running /\ (f.phase = "init" => f.arg = None)
  BY <1>0 DEF FrameInv, Fresh, Early, f
<1>3. g.phase = "post" => f.phase = "pre"
  BY <1>0 DEF f
<1>4. f.failed => g.failed
  BY DEF f
<1>5. ~f.tracked => f.hook \in AclHooks /\ f.failed
  BY <1>0 DEF FrameInv
<1>6. g.phase = "post" /\ ~g.failed /\ ~g.skip /\ ~g.sink => g.mem # None /\ g.arg # None
  BY <1>0, <1>3, <1>4 DEF FrameInv, f
<1>7. /\ g.inst => ~g.static
      /\ g.made # None => ~g.static
      /\ g.sink /\ ~g.skip => g.mem = None /\ ~g.inst
      /\ g.arg # None => g.arg = g.mem
      /\ g.wrapped => g.static /\ g.hook \in AclHooks \cup {"rtKernelLaunch"}
  BY <1>0 DEF FrameInv, f
<1>8. g.abort => g.failed /\ g.phase = "end" /\ g.mem = None /\ ~g.running
  BY <1>0, <1>2 DEF FrameInv, f
<1>9. g.phase = "post" /\ g.running /\ g.arg # None /\ ~g.skip => "Sync" \in Pending(g)
  <2>1. SUFFICES ASSUME g.phase = "post", g.arg # None, ~g.skip PROVE "Sync" \in Pending(g)
    OBVIOUS
  <2>2. g.mem # None /\ ~g.sink
    BY <1>7, <2>1
  <2>3. Pending(g) = PostCalls(g.hook, g.skip, g.sink, g.mem # None)
    BY <2>1
  <2> QED BY <2>1, <2>2, <2>3 DEF PostCalls
<1>10. g.phase = "end" /\ g.running => g.arg = None
  <2>1. SUFFICES ASSUME g.phase = "end", g.running PROVE g.arg = None
    OBVIOUS
  <2>2. ~f.tracked
    BY <1>2, <2>1 DEF f
  <2>3. f.phase = "init"
    BY <1>0, <2>2 DEF FrameInv, f
  <2> QED BY <1>0, <1>2, <2>3
<1>11. g.phase \in {"post", "end"} /\ g.phase \notin Early
  BY DEF Early
<1>12. ~g.tracked => g.hook \in AclHooks /\ g.failed /\ Pending(g) \subseteq {"OuterFinalize"}
  BY <1>0, <1>4, <1>5 DEF FrameInv
<1> QED BY <1>1, <1>6, <1>7, <1>8, <1>9, <1>10, <1>11, <1>12, FrameParts

LEMMA EndPhaseInv ==
    ASSUME NEW t \in Threads, NEW g, Enters(t, g), g.skip = call[t].skip,
           \/ call[t].phase = "post" /\ g.phase = "end"
           \/ call[t].phase = "end" /\ g.phase = "close",
           g.failed = call[t].failed, SameCourse(call[t], g)
    PROVE  FrameInv(g)
<1> DEFINE f == call[t]
<1>0. /\ g.hook = f.hook /\ g.static = f.static /\ g.wrapped = f.wrapped
      /\ g.tracked = f.tracked /\ g.mem = f.mem /\ g.arg = f.arg /\ g.made = f.made
      /\ g.inst = f.inst /\ g.abort = f.abort /\ g.sink = f.sink
      /\ Pending(f) = {} /\ FrameInv(f) /\ g \in FrameT /\ ScriptInv(g) /\ f \in FrameT
      /\ g.running = f.running
  BY EntersSame DEF SameCourse
<1> HIDE DEF f
<1>1. "Init" \notin Pending(g) /\ "ExpandArgs" \notin Pending(g)
  BY <1>0, QuietPhases
<1>2. ~g.tracked => g.hook \in AclHooks /\ g.failed /\ Pending(g) \subseteq {"OuterFinalize"}
  <2>1. SUFFICES ASSUME ~g.tracked PROVE Pending(g) \subseteq {"OuterFinalize"}
    BY <1>0 DEF FrameInv, f
  <2>2. g.phase = "close"
    BY <1>0, <2>1 DEF FrameInv, f
  <2> QED BY <1>0, <2>2 DEF ScriptInv, PhaseCalls
<1>3. /\ g.inst => ~g.static
      /\ g.made # None => ~g.static
      /\ g.sink /\ ~g.skip => g.mem = None /\ ~g.inst
      /\ g.arg # None => g.arg = g.mem
      /\ g.wrapped => g.static /\ g.hook \in AclHooks \cup {"rtKernelLaunch"}
      /\ g.abort => g.failed /\ g.mem = None /\ ~g.running
      /\ g.running => g.arg = None \/ g.skip
  BY <1>0 DEF FrameInv, f
<1>4. g.phase \in {"end", "close"} /\ g.phase \notin Early
  BY DEF Early
<1> QED BY <1>1, <1>2, <1>3, <1>4, FrameParts

-----------------------------------------------------------------------------
(* Every step of a script keeps FrameInv. *)

LEMMA QuietlyFrame ==
    ASSUME NEW t \in Threads, NEW g, MakesQuietly(t, g), NextCall(t) # "Sync",
           NextCall(t) \notin {"Init", "ExpandArgs"}
    PROVE  FrameInv(g)
BY FrameKept DEF MakesQuietly, Makes, Runs, NextCall, Quiet, SameCourse, SameLookup

\* A step that fails, of any action but Init and ExpandArgs.
LEMMA GivesFrame ==
    ASSUME NEW t \in Threads, NEW g, Gives(t, g), NextCall(t) # "Sync",
           NextCall(t) \notin {"Init", "ExpandArgs"},
           call[t].phase = "post" => Rank(call[t].hook, NextCall(t)) > 1,
           call[t].phase = "init" => call[t].hook \in AclHooks \/ Mode(t) = "go",
           ~Answerable(g)
    PROVE  FrameInv(g)
<1>1. Works(call[t], g) /\ FrameInv(call[t]) /\ call[t] \in FrameT
  BY DEF Gives, Runs, Works
<1>2. SameBuffer(call[t], g) /\ g.running = call[t].running /\ g.ok = call[t].ok
      /\ g.sections = call[t].sections /\ g.sink = call[t].sink /\ g.failed
  BY DEF Gives, SameLookup
<1>3. \/ g.tracked = call[t].tracked
      \/ /\ call[t].phase = "init" /\ call[t].hook \in AclHooks /\ g.failed
         /\ Pending(g) = {} /\ ~g.tracked
  BY <1>1 DEF FrameT, Works, Gives
<1> QED BY <1>1, <1>2, <1>3, FrameKept DEF NextCall

LEMMA CallKept ==
    ASSUME NEW t \in Threads, Types, CallInv, NEW g \in FrameT, ScriptInv(g), FrameInv(g),
           call' = [call EXCEPT ![t] = g]
    PROVE  CallInv' /\ call' \in [Threads -> FrameT \cup {NoCall}]
           /\ call'[t] = g /\ call'[t] # NoCall
           /\ \A u \in Threads : u # t => call'[u] = call[u]
BY NoCallFrame DEF Types, CallInv

LEMMA CreateContextScripted ==
    ASSUME NEW t \in Threads, Types, CallInv, CreateContext(t) PROVE Scripted(t)
<1>1. NextCall(t) = "CreateContext" /\ call[t] \in FrameT /\ call[t].phase = "init"
      /\ call[t].hook \in AclHooks /\ Mode(t) = "leave"
  <2>1. At(t, "CreateContext")
    BY DEF CreateContext
  <2>2. call[t] \in FrameT /\ "CreateContext" \in PhaseCalls(call[t]) /\ NextCall(t) = "CreateContext"
    BY <2>1, PhaseAt
  <2>3. call[t].phase = "init"
    BY <2>2, PhaseOf
  <2>4. call[t].hook \in AclHooks
    BY <2>2, <2>3 DEF PhaseCalls, InitCalls
  <2> QED BY <2>1, <2>2, <2>3, <2>4, AtFacts, HeadMode DEF At, NextCall, Mode
<1>2. ASSUME NEW g, Gives(t, g) PROVE Scripted(t)
  BY <1>1, <1>2, GivesFrame DEF Gives, Answerable, Scripted
<1>3. ASSUME NEW g, Makes(t, g), SameBuffer(call[t], g), SameCourse(call[t], g),
             g.sections = call[t].sections, g.sink = call[t].sink
      PROVE  Scripted(t)
  BY <1>1, <1>3, FrameKept DEF Makes, Runs, NextCall, SameCourse, Scripted
<1> QED BY <1>2, <1>3, CreateContextFrame

LEMMA AddLaunchEventScripted ==
    ASSUME NEW t \in Threads, Types, CallInv, AddLaunchEvent(t) PROVE Scripted(t)
<1>1. NextCall(t) = "AddLaunchEvent" /\ call[t] \in FrameT /\ call[t].phase = "init"
      /\ call[t].hook \notin AclHooks /\ Mode(t) = "go"
  <2>1. At(t, "AddLaunchEvent")
    BY DEF AddLaunchEvent
  <2>2. call[t] \in FrameT /\ "AddLaunchEvent" \in PhaseCalls(call[t]) /\ NextCall(t) = "AddLaunchEvent"
    BY <2>1, PhaseAt
  <2>3. call[t].phase = "init"
    BY <2>2, PhaseOf
  <2>4. call[t].hook \notin AclHooks
    BY <2>2, <2>3 DEF PhaseCalls, InitCalls
  <2> QED BY <2>1, <2>2, <2>3, <2>4, AtFacts, HeadMode DEF At, NextCall, Mode
<1>2. ASSUME NEW g, Gives(t, g) PROVE Scripted(t)
  BY <1>1, <1>2, GivesFrame DEF Gives, Runs, Works, SameCall, AclHooks, Answerable, Scripted
<1>3. ASSUME NEW g, MakesQuietly(t, g) PROVE Scripted(t)
  BY <1>1, <1>3, QuietlyFrame DEF MakesQuietly, Makes, Scripted
<1> QED BY <1>2, <1>3, AddLaunchEventFrame

LEMMA LookupScripted ==
    ASSUME NEW t \in Threads, Types, CallInv, GetLaunchId(t) \/ SectionsMalloc(t)
    PROVE  Scripted(t)
<1>1. \E g : /\ Makes(t, g) /\ SameBuffer(call[t], g) /\ SameCourse(call[t], g)
             /\ g.sections = call[t].sections \/ NextCall(t) = "SectionsMalloc"
             /\ g.sink = call[t].sink
             /\ NextCall(t) \in {"GetLaunchId", "SectionsMalloc"}
  BY GetLaunchIdFrame, SectionsMallocFrame
<1>2. PICK g : /\ Makes(t, g) /\ SameBuffer(call[t], g) /\ SameCourse(call[t], g)
               /\ g.sections = call[t].sections \/ NextCall(t) = "SectionsMalloc"
               /\ g.sink = call[t].sink
               /\ NextCall(t) \in {"GetLaunchId", "SectionsMalloc"}
  BY <1>1
<1>3. Works(call[t], g) /\ FrameInv(call[t]) /\ call[t] \in FrameT
      /\ NextCall(t) \in PhaseCalls(call[t])
  BY <1>2 DEF Makes, Runs, Works, NextCall
<1>4. NextCall(t) = "SectionsMalloc" => call[t].phase \notin Early
  BY <1>3, PhaseOf DEF Early
<1> QED BY <1>2, <1>3, <1>4, FrameKept DEF Makes, NextCall, SameCourse, Scripted

LEMMA ParseMetaDataScripted ==
    ASSUME NEW t \in Threads, Types, CallInv, ParseMetaData(t) PROVE Scripted(t)
<1>1. PICK g : /\ Makes(t, g) /\ SameBuffer(call[t], g) /\ SameCourse(call[t], g)
               /\ g.sections = call[t].sections
  BY ParseMetaDataFrame
<1>2. NextCall(t) = "ParseMetaData"
  BY ParseMetaDataFrame
<1>3. Works(call[t], g) /\ FrameInv(call[t]) /\ call[t] \in FrameT
      /\ NextCall(t) \in PhaseCalls(call[t])
  BY <1>1 DEF Makes, Runs, Works, NextCall
<1>4. call[t].phase \in Early
  BY <1>2, <1>3, PhaseOf DEF Early
<1> QED BY <1>1, <1>2, <1>3, <1>4, FrameKept DEF Makes, NextCall, SameCourse, Scripted, Early

LEMMA InitStepScripted ==
    ASSUME NEW t \in Threads, Types, CallInv, ManagerInv(t), InitStep(t) PROVE Scripted(t)
<1>0. PICK o \in InitOutcomes(t, call[t].id) : \E g :
              /\ NextCall(t) = "OuterInit" => MakesQuietly(t, g) \/ (Gives(t, g) /\ Mode(t) = "go")
              /\ NextCall(t) # "OuterInit" =>
                    /\ NextCall(t) = "Init" /\ SameCourse(call[t], g) /\ SameLookup(call[t], g)
                    /\ g.arg = call[t].arg /\ g.inst = call[t].inst /\ g.kernel = call[t].kernel
                    /\ g.mem = o.ptr
                    /\ \/ /\ o.ptr # None /\ Makes(t, g) /\ g.made = call[t].made
                          /\ g.abort = call[t].abort
                       \/ /\ o.ptr = None /\ Runs(t, g) /\ g.failed
                          /\ Mode(t) = "go" => Pending(g) = Pending(call[t]) \ {NextCall(t)}
                          /\ Mode(t) # "go" => Pending(g) = {}
                          /\ Mode(t) = "undo" => g.abort = g.static /\ g.made = None
                          /\ Mode(t) # "undo" => g.abort = call[t].abort /\ g.made = call[t].made
  BY InitStepFrame
<1>1. PICK g :
              /\ NextCall(t) = "OuterInit" => MakesQuietly(t, g) \/ (Gives(t, g) /\ Mode(t) = "go")
              /\ NextCall(t) # "OuterInit" =>
                    /\ NextCall(t) = "Init" /\ SameCourse(call[t], g) /\ SameLookup(call[t], g)
                    /\ g.arg = call[t].arg /\ g.inst = call[t].inst /\ g.kernel = call[t].kernel
                    /\ g.mem = o.ptr
                    /\ \/ /\ o.ptr # None /\ Makes(t, g) /\ g.made = call[t].made
                          /\ g.abort = call[t].abort
                       \/ /\ o.ptr = None /\ Runs(t, g) /\ g.failed
                          /\ Mode(t) = "go" => Pending(g) = Pending(call[t]) \ {NextCall(t)}
                          /\ Mode(t) # "go" => Pending(g) = {}
                          /\ Mode(t) = "undo" => g.abort = g.static /\ g.made = None
                          /\ Mode(t) # "undo" => g.abort = call[t].abort /\ g.made = call[t].made
  BY <1>0
<1>2. CASE NextCall(t) = "OuterInit"
  <2>1. MakesQuietly(t, g) => Scripted(t)
    BY <1>2, QuietlyFrame DEF MakesQuietly, Makes, Scripted
  <2>2. ASSUME Gives(t, g) PROVE Scripted(t)
    <3>1. Works(call[t], g) /\ NextCall(t) \in PhaseCalls(call[t]) /\ call[t] \in FrameT
          /\ Runs(t, g)
      BY <2>2 DEF Gives, Runs, Works, NextCall
    <3>2. call[t].phase = "open"
      BY <1>2, <3>1, PhaseOf
    <3>3. g.wrapped
      BY <1>2, <3>1, <3>2 DEF PhaseCalls, Works, SameCall
    <3> QED BY <1>2, <2>2, <3>1, <3>2, <3>3, GivesFrame DEF Answerable, Scripted
  <2> QED BY <1>1, <1>2, <2>1, <2>2
<1>3. CASE NextCall(t) # "OuterInit"
  <2>1. Works(call[t], g) /\ FrameInv(call[t]) /\ Runs(t, g) /\ call[t].todo[1].call = "Init"
    BY <1>1, <1>3 DEF Makes, Runs, NextCall
  <2>2. FrameInv(g)
    BY <1>1, <1>3, <2>1, InitFrameInv DEF Makes, Mode
  <2> QED BY <2>1, <2>2 DEF Scripted
<1> QED BY <1>2, <1>3

LEMMA ExpandArgsScripted ==
    ASSUME NEW t \in Threads, Types, CallInv, ExpandArgs(t) PROVE Scripted(t)
<1>1. PICK g :
         /\ SameCourse(call[t], g) /\ SameLookup(call[t], g) /\ g.inst = call[t].inst
         /\ g.kernel = call[t].kernel
         /\ \/ /\ Makes(t, g) /\ g.arg = call[t].mem /\ g.mem = call[t].mem
               /\ g.made = call[t].made /\ g.abort = call[t].abort
            \/ /\ Runs(t, g) /\ g.failed /\ g.arg = call[t].arg
               /\ Mode(t) = "go" => Pending(g) = Pending(call[t]) \ {NextCall(t)}
               /\ Mode(t) # "go" => Pending(g) = {}
               /\ Mode(t) = "undo" => g.mem = None /\ g.abort = g.static /\ g.made = None
               /\ Mode(t) # "undo" =>
                     g.mem = call[t].mem /\ g.abort = call[t].abort /\ g.made = call[t].made
  BY ExpandArgsFrame
<1>2. NextCall(t) = "ExpandArgs"
  BY ExpandArgsFrame
<1>3. Works(call[t], g) /\ FrameInv(call[t]) /\ Runs(t, g) /\ call[t].todo[1].call = "ExpandArgs"
  BY <1>1, <1>2 DEF Makes, Runs, NextCall
<1>4. \/ /\ g.arg = call[t].mem /\ g.mem = call[t].mem /\ g.made = call[t].made
         /\ g.abort = call[t].abort
         /\ g.failed = call[t].failed /\ Pending(g) = Pending(call[t]) \ {"ExpandArgs"}
      \/ /\ g.arg = call[t].arg /\ g.failed
         /\ call[t].todo[1].onFail = "go" => Pending(g) = Pending(call[t]) \ {"ExpandArgs"}
         /\ call[t].todo[1].onFail # "go" => Pending(g) = {}
         /\ call[t].todo[1].onFail = "undo" => g.mem = None /\ g.abort = g.static /\ g.made = None
         /\ call[t].todo[1].onFail # "undo" =>
               g.mem = call[t].mem /\ g.abort = call[t].abort /\ g.made = call[t].made
  BY <1>1, <1>2 DEF Makes, Mode
<1>5. FrameInv(g)
  BY <1>1, <1>3, <1>4, ExpandFrameInv
<1> QED BY <1>3, <1>5 DEF Scripted

LEMMA RunDBITaskScripted ==
    ASSUME NEW t \in Threads, Types, CallInv, RunDBITask(t) PROVE Scripted(t)
<1>1. NextCall(t) = "RunDBITask"
  BY RunDBITaskFrame
<1>2. PICK g :
         \/ Gives(t, g) /\ Enabled(t, Instrumentable(call[t]))
         \/ MakesQuietly(t, g)
         \/ /\ Makes(t, g) /\ SameCourse(call[t], g) /\ SameLookup(call[t], g)
            /\ g.mem = call[t].mem /\ g.arg = call[t].arg /\ g.abort = call[t].abort
            /\ g.stale = call[t].stale /\ g.made = call[t].made
            /\ Enabled(t, Instrumentable(call[t]))
  BY RunDBITaskFrame
<1>3. Works(call[t], g) /\ FrameInv(call[t]) /\ Runs(t, g) /\ g.static = call[t].static
      /\ call[t] \in FrameT /\ NextCall(t) = call[t].todo[1].call /\ NextCall(t) \in PhaseCalls(call[t])
  BY <1>2 DEF Gives, MakesQuietly, Makes, Runs, Works, SameCall, NextCall
<1>4. call[t].phase = "pre"
  BY <1>1, <1>3, PhaseOf
<1>5. CASE Gives(t, g) /\ Enabled(t, Instrumentable(call[t]))
  BY <1>3, <1>5, <1>1, <1>4, GivesFrame DEF Enabled, Answerable, Scripted
<1>6. CASE MakesQuietly(t, g)
  BY <1>1, <1>3, <1>6, QuietlyFrame DEF Scripted
<1>7. CASE /\ Makes(t, g) /\ SameCourse(call[t], g) /\ SameLookup(call[t], g)
           /\ g.mem = call[t].mem /\ g.arg = call[t].arg /\ g.abort = call[t].abort
           /\ g.stale = call[t].stale /\ g.made = call[t].made
           /\ Enabled(t, Instrumentable(call[t]))
  BY <1>1, <1>3, <1>7, InstrumentFrameInv DEF Enabled, Makes, Scripted
<1> QED BY <1>2, <1>5, <1>6, <1>7

LEMMA MakeInstrumentedScripted ==
    ASSUME NEW t \in Threads, Types, CallInv, MakeInstrumented(t) PROVE Scripted(t)
<1>1. NextCall(t) = "MakeInstrumented"
  BY MakeInstrumentedFrame
<1>2. PICK g :
         \/ Gives(t, g) /\ Enabled(t, call[t].id)
         \/ MakesQuietly(t, g)
         \/ /\ Makes(t, g) /\ SameCourse(call[t], g) /\ SameLookup(call[t], g)
            /\ g.mem = call[t].mem /\ g.arg = call[t].arg /\ g.abort = call[t].abort
            /\ g.stale = call[t].stale /\ g.inst = call[t].inst
            /\ Enabled(t, call[t].id)
  BY MakeInstrumentedFrame
<1>3. Works(call[t], g) /\ FrameInv(call[t]) /\ Runs(t, g) /\ g.static = call[t].static
      /\ call[t] \in FrameT /\ NextCall(t) = call[t].todo[1].call /\ NextCall(t) \in PhaseCalls(call[t])
  BY <1>2 DEF Gives, MakesQuietly, Makes, Runs, Works, SameCall, NextCall
<1>4. call[t].phase = "pre"
  BY <1>1, <1>3, PhaseOf
<1>5. CASE Gives(t, g) /\ Enabled(t, call[t].id)
  BY <1>3, <1>5, <1>1, <1>4, GivesFrame DEF Enabled, Answerable, Scripted
<1>6. CASE MakesQuietly(t, g)
  BY <1>1, <1>3, <1>6, QuietlyFrame DEF Scripted
<1>7. CASE /\ Makes(t, g) /\ SameCourse(call[t], g) /\ SameLookup(call[t], g)
           /\ g.mem = call[t].mem /\ g.arg = call[t].arg /\ g.abort = call[t].abort
           /\ g.stale = call[t].stale /\ g.inst = call[t].inst
           /\ Enabled(t, call[t].id)
  BY <1>1, <1>3, <1>7, InstrumentFrameInv DEF Enabled, Makes, Scripted
<1> QED BY <1>2, <1>5, <1>6, <1>7

LEMMA CommitScripted ==
    ASSUME NEW t \in Threads, Types, CallInv, Commit(t) PROVE Scripted(t)
<1>1. NextCall(t) = "Commit"
  BY CommitFrame
<1>2. PICK g :
         \/ MakesQuietly(t, g)
         \/ /\ Makes(t, g) /\ SameCourse(call[t], g) /\ SameLookup(call[t], g)
            /\ g.mem = call[t].mem /\ g.arg = call[t].arg /\ g.abort = call[t].abort
            /\ g.stale = call[t].stale /\ g.made = call[t].made /\ call[t].made # None
  BY CommitFrame
<1>3. Works(call[t], g) /\ FrameInv(call[t]) /\ Runs(t, g)
      /\ call[t] \in FrameT /\ NextCall(t) = call[t].todo[1].call
  BY <1>2 DEF MakesQuietly, Makes, Runs, Works, NextCall
<1>4. CASE MakesQuietly(t, g)
  BY <1>1, <1>3, <1>4, QuietlyFrame DEF Scripted
<1>5. CASE /\ Makes(t, g) /\ SameCourse(call[t], g) /\ SameLookup(call[t], g)
           /\ g.mem = call[t].mem /\ g.arg = call[t].arg /\ g.abort = call[t].abort
           /\ g.stale = call[t].stale /\ g.made = call[t].made /\ call[t].made # None
  BY <1>3, <1>5, <1>1, InstrumentFrameInv DEF FrameInv, Makes, Scripted
<1> QED BY <1>2, <1>4, <1>5

\* Steps that may leave the rest of the phase out.
LEMMA LeavingScripted ==
    ASSUME NEW t \in Threads, Types, CallInv, Clone(t) \/ GetBinary(t) \/ GetEvent(t)
    PROVE  Scripted(t)
<1>1. \E g : /\ NextCall(t) \in {"Clone", "GetDevBinary", "GetSectionHeaders"} \cup Events
             /\ \/ Gives(t, g)
                \/ /\ Makes(t, g) /\ SameBuffer(call[t], g) /\ SameCourse(call[t], g)
                   /\ g.sections = call[t].sections /\ g.sink = call[t].sink
  BY CloneFrame, GetBinaryFrame, GetEventFrame DEF MakesQuietly, Quiet, SameLookup
<1>2. PICK g : /\ NextCall(t) \in {"Clone", "GetDevBinary", "GetSectionHeaders"} \cup Events
               /\ \/ Gives(t, g)
                  \/ /\ Makes(t, g) /\ SameBuffer(call[t], g) /\ SameCourse(call[t], g)
                     /\ g.sections = call[t].sections /\ g.sink = call[t].sink
  BY <1>1
<1>3. Works(call[t], g) /\ FrameInv(call[t]) /\ Runs(t, g) /\ g.hook = call[t].hook
      /\ call[t] \in FrameT /\ NextCall(t) = call[t].todo[1].call /\ NextCall(t) \in PhaseCalls(call[t])
      /\ g.phase = call[t].phase
  BY <1>2 DEF Gives, Makes, Runs, Works, SameCall, NextCall
<1>4. call[t].phase \in {"pre", "post"}
  BY <1>2, <1>3, PhaseOf DEF Events
<1>5. Rank(call[t].hook, NextCall(t)) > 1
  BY <1>2, Ranks DEF Events
<1>6. CASE Gives(t, g)
  <2>1. ~Answerable(g)
    <3>1. SUFFICES ASSUME g.hook = "WithHostArgs", g.phase = "pre" PROVE FALSE
      BY <1>3, <1>4 DEF Answerable
    <3>2. NextCall(t) \in PreCalls("WithHostArgs", call[t].skip, call[t].sink)
      BY <1>3, <3>1 DEF PhaseCalls
    <3> QED BY <1>2, <3>2 DEF PreCalls, Making, RtHooks, SimtHooks, Events
  <2>2. NextCall(t) \notin {"Sync", "Init", "ExpandArgs"} /\ call[t].phase # "init"
    BY <1>2, <1>4 DEF Events
  <2> QED BY <1>3, <1>5, <1>6, <2>1, <2>2, GivesFrame DEF Scripted
<1>7. CASE /\ Makes(t, g) /\ SameBuffer(call[t], g) /\ SameCourse(call[t], g)
           /\ g.sections = call[t].sections /\ g.sink = call[t].sink
  BY <1>2, <1>3, <1>7, FrameKept DEF Events, Makes, SameCourse, Scripted
<1> QED BY <1>2, <1>6, <1>7

LEMMA EndedScripted ==
    ASSUME NEW t \in Threads, Types, CallInv, Sync(t) \/ LaunchDumpTask(t) PROVE Scripted(t)
<1>1. \E g : /\ NextCall(t) \in {"Sync", "LaunchDumpTask"} /\ Makes(t, g) /\ SameBuffer(call[t], g)
             /\ SameLookup(call[t], g) /\ ~g.running /\ g.ok = call[t].ok
             /\ g.tracked = call[t].tracked
  BY SyncFrame, LaunchDumpTaskFrame
<1>2. PICK g : /\ NextCall(t) \in {"Sync", "LaunchDumpTask"} /\ Makes(t, g) /\ SameBuffer(call[t], g)
               /\ SameLookup(call[t], g) /\ ~g.running /\ g.ok = call[t].ok
               /\ g.tracked = call[t].tracked
  BY <1>1
<1>3. Works(call[t], g) /\ FrameInv(call[t]) /\ Runs(t, g)
      /\ call[t] \in FrameT /\ NextCall(t) = call[t].todo[1].call /\ NextCall(t) \in PhaseCalls(call[t])
  BY <1>2 DEF Makes, Runs, Works, NextCall
<1>4. call[t].phase = "post"
  BY <1>2, <1>3, PhaseOf
<1> QED BY <1>2, <1>3, <1>4, EndedFrameInv DEF Makes, Scripted

LEMMA QuietScripted ==
    ASSUME NEW t \in Threads, Types, CallInv, QuietActions(t) \/ Guards(t) PROVE Scripted(t)
<1>1. PICK g : MakesQuietly(t, g)
  BY QuietFrame, GuardsFrame
<1>2. NextCall(t) \notin {"Sync", "Init", "ExpandArgs"}
  BY DEF QuietActions, UpdateOpMemInfo, ArchiveMemInfo, SetSkipKernelFlag, ResetMemoryInit,
     FreeBuffer, ReportKernelSummary, SectionsFree, OpMalloc, OpFree, Overflow, ClearArgsInfo,
     ExitAfterProcess, Guards, At, NextCall
<1> QED BY <1>1, <1>2, QuietlyFrame DEF MakesQuietly, Makes, Scripted

LEMMA FinalizeScripted ==
    ASSUME NEW t \in Threads, Types, CallInv, Finalize(t) PROVE Scripted(t)
<1>1. PICK g : /\ Runs(t, g) /\ Quiet(call[t], g)
               /\ Pending(g) = Pending(call[t]) \ {NextCall(t)}
  BY FinalizeFrame
<1>2. NextCall(t) \in {"Finalize", "OuterFinalize"}
  BY FinalizeFrame
<1>3. Works(call[t], g) /\ FrameInv(call[t])
      /\ call[t] \in FrameT /\ NextCall(t) = call[t].todo[1].call /\ NextCall(t) \in PhaseCalls(call[t])
      /\ g.phase = call[t].phase
  BY <1>1 DEF Runs, Works, SameCall, NextCall
<1>4. call[t].phase \in {"post", "close"}
  BY <1>2, <1>3, PhaseOf
<1>5. FrameInv(g)
  BY <1>1, <1>2, <1>3, <1>4, FrameKept DEF Quiet, SameCourse, SameLookup, Answerable
<1> QED BY <1>1, <1>5 DEF Scripted

LEMMA WorkScripted ==
    ASSUME NEW t \in Threads, Types, CallInv, ManagerInv(t), Work(t) PROVE Scripted(t)
BY CreateContextScripted, AddLaunchEventScripted, LookupScripted, ParseMetaDataScripted,
   InitStepScripted, ExpandArgsScripted, RunDBITaskScripted, MakeInstrumentedScripted,
   CommitScripted, LeavingScripted, EndedScripted, QuietScripted, FinalizeScripted
   DEF Work, QuietActions

-----------------------------------------------------------------------------
(* CallInv. *)

LEMMA AdvanceEnters ==
    ASSUME NEW t \in Threads, Types, IdsInv, CallInv, Advance(t)
    PROVE  \/ \E g : Enters(t, g) /\ FrameInv(g)
           \/ AtPhaseEnd(t) /\ Returns(t)
<1>1. AtPhaseEnd(t)
  BY AdvanceCases
<1>2. CASE OpenEnds(t)
  <2>1. PICK g : /\ Enters(t, g) /\ call[t].phase = "open" /\ g.phase = "init"
                 /\ Pending(g) = InitCalls(g.hook) /\ g.skip = call[t].skip
                 /\ g.failed = call[t].failed /\ SameCourse(call[t], g)
    BY <1>1, <1>2, OpenEndsFrame
  <2>2. FrameInv(g)
    BY <2>1, InitPhaseInv
  <2> QED BY <2>1, <2>2
<1>3. CASE ToPre(t)
  <2>1. PICK g : /\ Enters(t, g) /\ call[t].phase = "init" /\ g.phase = "pre" /\ call[t].tracked
                 /\ Pending(g) = PreCalls(g.hook, g.skip, g.sink) /\ g.skip = Asked(t)
                 /\ g.failed = call[t].failed /\ SameCourse(call[t], g)
    BY <1>1, <1>3, ToPreFrame
  <2>2. FrameInv(g)
    BY <2>1, PrePhaseInv
  <2> QED BY <2>1, <2>2
<1>4. CASE Launch(t)
  <2>1. PICK g :
       /\ Enters(t, g) /\ call[t].phase \in {"init", "pre"} /\ (call[t].phase = "init" => ~call[t].tracked)
       /\ g.skip = call[t].skip
       /\ \/ g.phase = "end" /\ Pending(g) = {}
          \/ /\ g.phase = "post" /\ g.tracked
             /\ Pending(g) = PostCalls(g.hook, g.skip, g.sink, g.mem # None)
       /\ \/ /\ call[t].abort /\ g.phase = "end" /\ g.failed = call[t].failed
             /\ g.running = call[t].running /\ g.ok = call[t].ok
          \/ /\ ~call[t].abort /\ g.failed = call[t].failed /\ g.running /\ g.ok
             /\ (call[t].tracked => g.phase = "post")
          \/ /\ ~call[t].abort /\ g.failed /\ g.running = call[t].running /\ g.ok = call[t].ok
             /\ (call[t].hook \in RtHooks => g.phase = "post")
    BY <1>1, <1>4, LaunchFrame
  <2>2. FrameInv(g)
    BY <2>1, LaunchedInv
  <2> QED BY <2>1, <2>2
<1>5. CASE PostEnds(t)
  <2>1. PICK g : /\ Enters(t, g) /\ call[t].phase = "post" /\ g.phase = "end"
                 /\ g.skip = call[t].skip
                 /\ g.failed = call[t].failed /\ SameCourse(call[t], g)
    BY <1>1, <1>5, PostEndsFrame
  <2>2. FrameInv(g)
    BY <2>1, EndPhaseInv
  <2> QED BY <2>1, <2>2
<1>6. CASE EndEnds(t)
  <2>1. PICK g : /\ Enters(t, g) /\ call[t].phase = "end" /\ g.phase = "close"
                 /\ g.skip = call[t].skip
                 /\ g.failed = call[t].failed /\ SameCourse(call[t], g)
    BY <1>1, <1>6, EndEndsFrame
  <2>2. FrameInv(g)
    BY <2>1, EndPhaseInv
  <2> QED BY <2>1, <2>2
<1> QED BY <1>1, <1>2, <1>3, <1>4, <1>5, <1>6, AdvanceCases

LEMMA WorkCall ==
    ASSUME NEW t \in Threads, Types, CallInv, ManagerInv(t), Work(t)
    PROVE  /\ CallInv' /\ CallsTyped /\ Others(t)
           /\ ~dead /\ call[t] # NoCall /\ call'[t] # NoCall /\ Runs(t, call'[t])
           /\ call[t] \in FrameT /\ call'[t] \in FrameT
<1>1. PICK g : Runs(t, g) /\ FrameInv(g)
  BY WorkScripted DEF Scripted
<1>2. g \in FrameT /\ ScriptInv(g) /\ call' = [call EXCEPT ![t] = g] /\ call'[t] = g
      /\ ~dead /\ call[t] # NoCall /\ call[t] \in FrameT
  BY <1>1 DEF Runs, Works
<1> QED BY <1>1, <1>2, CallKept DEF CallsTyped, Others

LEMMA AdvanceCall ==
    ASSUME NEW t \in Threads, Types, IdsInv, CallInv, Advance(t)
    PROVE  /\ CallInv' /\ CallsTyped /\ Others(t)
           /\ ~dead /\ call[t] # NoCall /\ call[t] \in FrameT
           /\ \/ call'[t] # NoCall /\ Enters(t, call'[t])
              \/ call'[t] = NoCall /\ Returns(t)
<1>1. CASE \E g : Enters(t, g) /\ FrameInv(g)
  <2>1. PICK g : Enters(t, g) /\ FrameInv(g)
    BY <1>1
  <2>2. g \in FrameT /\ ScriptInv(g) /\ call' = [call EXCEPT ![t] = g] /\ call'[t] = g
      /\ ~dead /\ call[t] # NoCall /\ call[t] \in FrameT
    BY <2>1 DEF Enters
  <2> QED BY <2>1, <2>2, CallKept DEF CallsTyped, Others
<1>2. CASE AtPhaseEnd(t) /\ Returns(t)
  BY <1>2, AtFacts DEF Types, Returns, CallsTyped, Others, CallInv, AtPhaseEnd
<1> QED BY <1>1, <1>2, AdvanceEnters

LEMMA BeginCall ==
    ASSUME NEW t \in Threads, Types, CallInv, Begin(t)
    PROVE  CallInv' /\ CallsTyped
<1>1. PICK g : call'[t] = g /\ Opened(g)
  BY BeginFrame
<1>2. /\ CallsTyped
      /\ \A u \in Threads : u # t =>
            /\ call[u] = NoCall => call'[u] = NoCall
            /\ call[u] # NoCall => call'[u] # NoCall /\ Marked(call[u], call'[u])
  BY BeginFrame DEF CallsTyped
<1>3. ScriptInv(g) /\ FrameInv(g)
  BY <1>1, OpenFrameInv DEF Opened
<1>4. ASSUME NEW u \in Threads, u # t, call'[u] # NoCall
      PROVE  ScriptInv(call'[u]) /\ FrameInv(call'[u])
  BY <1>2, <1>4, MarkedFrame DEF CallInv
<1> QED BY <1>1, <1>2, <1>3, <1>4 DEF CallInv

-----------------------------------------------------------------------------
(* Types. *)

LEMMA TypesParts ==
    Types <=> /\ call \in [Threads -> FrameT \cup {NoCall}]
              /\ CountTypes /\ ManagerTypes /\ DeviceTypes /\ RecordTypes
BY DEF Types, CountTypes, ManagerTypes, DeviceTypes, RecordTypes

LEMMA TypesNext ==
    CallsTyped /\ CountTypes' /\ ManagerTypes' /\ DeviceTypes' /\ RecordTypes' => Types'
BY DEF Types, CallsTyped, CountTypes, ManagerTypes, DeviceTypes, RecordTypes

LEMMA ConfiguredTypes ==
    ASSUME NEW t \in Threads, Types
    PROVE  Configured(t) \in [Threads -> {"off", "named", "all"}]
BY DEF Types, Configured

LEMMA FinalizedTypes ==
    ASSUME NEW t \in Threads, NEW ptr, NEW id \in Nat, Types, Finalized(t, ptr, id)
    PROVE  /\ mgr' \in [Threads -> MgrT] /\ dbi' \in [Threads -> {"off", "named", "all"}]
           /\ configured' \in BOOLEAN /\ reports' \in Seq(Nat) /\ Len(reports') = Len(reports)
           /\ mgr'[t] = [mgr[t] EXCEPT !.init = @ /\ ~Sends(t, ptr)]
           /\ \A u \in Threads : u # t => mgr'[u] = mgr[u]
<1>1. mgr \in [Threads -> MgrT] /\ dbi \in [Threads -> {"off", "named", "all"}]
      /\ configured \in BOOLEAN /\ reports \in Seq(Nat)
  BY DEF Types
<1>2. mgr' = [mgr EXCEPT ![t].init = @ /\ ~Sends(t, ptr)]
  BY DEF Finalized
<1>3. mgr' \in [Threads -> MgrT] /\ mgr'[t] = [mgr[t] EXCEPT !.init = @ /\ ~Sends(t, ptr)]
      /\ \A u \in Threads : u # t => mgr'[u] = mgr[u]
  BY <1>1, <1>2 DEF MgrT
<1>4. dbi' \in [Threads -> {"off", "named", "all"}] /\ configured' \in BOOLEAN
  BY <1>1, ConfiguredTypes DEF Sends, Finalized
<1>5. reports' \in Seq(Nat) /\ Len(reports') = Len(reports)
  <2>1. CASE Sends(t, ptr)
    <3>1. reports' = [reports EXCEPT ![id] = @ + 1]
      BY <2>1 DEF Finalized
    <3>2. DOMAIN reports = 1..Len(reports) /\ Len(reports) \in Nat
          /\ \A i \in 1..Len(reports) : reports[i] \in Nat
      BY <1>1
    <3>3. /\ DOMAIN reports' = 1..Len(reports)
          /\ \A i \in 1..Len(reports) :
                reports'[i] = IF i = id THEN reports[i] + 1 ELSE reports[i]
      BY <3>1, <3>2
    <3>4. reports' = [i \in 1..Len(reports) |-> reports'[i]]
      BY <3>1, <3>2
    <3>5. \A i \in 1..Len(reports) : reports'[i] \in Nat
      BY <3>2, <3>3
    <3>6. reports' \in [1..Len(reports) -> Nat]
      BY <3>4, <3>5
    <3> QED BY <3>2, <3>6
  <2>2. CASE ~Sends(t, ptr)
    BY <1>1, <2>2 DEF Finalized
  <2> QED BY <2>1, <2>2
<1> QED BY <1>3, <1>4, <1>5

LEMMA ApartWork ==
    ASSUME NEW t \in Threads, Work(t),
           ~(InitStep(t) \/ Finalize(t) \/ SetSkipKernelFlag(t) \/ ResetMemoryInit(t)
             \/ FreeBuffer(t) \/ ExpandArgs(t))
    PROVE  Apart
BY DEF Work, Apart, CreateContext, AddLaunchEvent, GetLaunchId, UpdateOpMemInfo, ParseMetaData,
   ArchiveMemInfo, RunDBITask, MakeInstrumented, Commit, Clone, Guards, ReportKernelSummary,
   GetEvent, GetBinary, SectionsMalloc, SectionsFree, OpMalloc, OpFree, Overflow, ClearArgsInfo,
   LaunchDumpTask, Sync, ExitAfterProcess, Registry, Local, Telling

LEMMA ManagerTypesWork ==
    ASSUME NEW t \in Threads, Types, CallInv, ManagerInv(t), Work(t)
    PROVE  ManagerTypes' /\ reports' \in Seq(Nat) /\ Len(reports') = Len(reports)
<1>0. /\ mgr \in [Threads -> MgrT] /\ bufs \in [Threads -> Seq(BufT)]
      /\ dbi \in [Threads -> {"off", "named", "all"}] /\ configured \in BOOLEAN
      /\ reports \in Seq(Nat) /\ call[t] \in FrameT
  BY WorkCall DEF Types
<1>1. CASE Apart
  BY <1>0, <1>1 DEF Apart, ManagerTypes
<1>2. CASE InitStep(t)
  <2>1. PICK o \in InitOutcomes(t, call[t].id) :
           /\ mgr' = [mgr EXCEPT ![t] = o.mgr] /\ bufs' = [bufs EXCEPT ![t] = o.bufs]
           /\ OutcomeWell(mgr[t], bufs[t], call[t].id, o)
    BY <1>2, InitStepFrame
  <2>2. mgr' \in [Threads -> MgrT] /\ bufs' \in [Threads -> Seq(BufT)]
    BY <1>0, <2>1 DEF OutcomeWell
  <2>3. dbi' \in [Threads -> {"off", "named", "all"}] /\ configured' \in BOOLEAN /\ reports' = reports
    BY <1>0, <1>2, ConfiguredTypes DEF InitStep
  <2> QED BY <1>0, <2>2, <2>3 DEF ManagerTypes
<1>3. CASE Finalize(t)
  BY <1>0, <1>3, FinalizeFrame, FinalizedTypes DEF Finalize, FrameT, ManagerTypes
<1>4. CASE SetSkipKernelFlag(t)
  <2>1. mgr' = [mgr EXCEPT ![t].skip = call[t].skip] /\ call[t].skip \in BOOLEAN
        /\ UNCHANGED <<bufs, dbi, configured, reports>>
    BY <1>0, <1>4 DEF SetSkipKernelFlag, FrameT
  <2>2. mgr' \in [Threads -> MgrT]
    BY <1>0, <2>1 DEF MgrT
  <2> QED BY <1>0, <2>1, <2>2 DEF ManagerTypes
<1>5. CASE ResetMemoryInit(t)
  BY <1>5, <1>0 DEF ResetMemoryInit, MgrT, ManagerTypes
<1>6. CASE FreeBuffer(t)
  BY <1>6, <1>0, FreeHeld DEF FreeBuffer, ManagerTypes
<1>7. CASE ExpandArgs(t)
  BY <1>0, <1>7, FinalizedTypes DEF ExpandArgs, FrameT, ManagerTypes
<1> QED BY <1>1, <1>2, <1>3, <1>4, <1>5, <1>6, <1>7, ApartWork

LEMMA CountTypesWork ==
    ASSUME NEW t \in Threads, Types, CallInv, ManagerInv(t), Work(t)
    PROVE  CountTypes'
<1>1. left \in Nat /\ fails \in Nat /\ scen \in Scenarios
  BY DEF Types
<1>2. left' = left /\ scen' = scen
  BY DEF Work, CreateContext, AddLaunchEvent, GetLaunchId, UpdateOpMemInfo, ParseMetaData,
   ArchiveMemInfo, InitStep, Finalize, SetSkipKernelFlag, ResetMemoryInit, FreeBuffer, ExpandArgs,
   RunDBITask, MakeInstrumented, Commit, Clone, Guards, ReportKernelSummary,
   GetEvent, GetBinary, SectionsMalloc, SectionsFree, OpMalloc, OpFree, Overflow, ClearArgsInfo,
   LaunchDumpTask, Sync, ExitAfterProcess, Registry, Local, Telling, Buffers
<1>3. fails' = fails \/ (fails > 0 /\ fails' = fails - 1)
  <2>1. CASE InitStep(t)
    <3>1. PICK o : IF o.ptr = None THEN fails > 0 /\ fails' = fails - 1 ELSE fails' = fails
      BY <2>1, InitStepFrame
    <3> QED BY <3>1
  <2>2. CASE ~InitStep(t)
    BY <2>2 DEF Work, CreateContext, AddLaunchEvent, GetLaunchId, UpdateOpMemInfo, ParseMetaData,
       ArchiveMemInfo, Finalize, SetSkipKernelFlag, ResetMemoryInit, FreeBuffer, ExpandArgs,
       RunDBITask, MakeInstrumented, Commit, Clone, Guards, ReportKernelSummary,
       GetEvent, GetBinary, SectionsMalloc, SectionsFree, OpMalloc, OpFree, Overflow,
       ClearArgsInfo, LaunchDumpTask, Sync, ExitAfterProcess, MayFail
  <2> QED BY <2>1, <2>2
<1> QED BY <1>1, <1>2, <1>3 DEF CountTypes

LEMMA SilentWork ==
    ASSUME NEW t \in Threads, Work(t),
           ~(CreateContext(t) \/ AddLaunchEvent(t) \/ UpdateOpMemInfo(t) \/ ParseMetaData(t)
             \/ ArchiveMemInfo(t) \/ ReportKernelSummary(t) \/ SectionsMalloc(t)
             \/ SectionsFree(t) \/ OpMalloc(t) \/ OpFree(t) \/ Overflow(t) \/ ClearArgsInfo(t))
    PROVE  Silent
BY DEF Work, Silent, GetLaunchId, InitStep, Finalize, SetSkipKernelFlag, ResetMemoryInit,
   FreeBuffer, ExpandArgs, RunDBITask, MakeInstrumented, Commit, Clone, Guards, GetEvent,
   GetBinary, LaunchDumpTask, Sync, ExitAfterProcess, Registry, Local, Buffers

LEMMA ApiOf == \A h : Api(h) \in {"acl", "rt"}
BY DEF Api

LEMMA DevWith ==
    ASSUME NEW d \in [{"acl", "rt"} -> DevT], NEW a \in {"acl", "rt"}, NEW r \in DevT,
           NEW e, e = [d EXCEPT ![a] = r]
    PROVE  /\ e \in [{"acl", "rt"} -> DevT] /\ e[a] = r
           /\ \A b \in {"acl", "rt"} : b # a => e[b] = d[b]
OBVIOUS

\* The device's records after each action.
LEMMA EnteredTypes ==
    ASSUME NEW f \in FrameT, Types
    PROVE  /\ Entered(f) \in [{"acl", "rt"} -> DevT]
           /\ Entered(f)[Api(f.hook)].launches = Append(dev[Api(f.hook)].launches, f.id)
           /\ \A a \in {"acl", "rt"} :
                 /\ Entered(f)[a].args = dev[a].args /\ Entered(f)[a].ops = dev[a].ops
                 /\ Entered(f)[a].archive = dev[a].archive
                 /\ a # Api(f.hook) => Entered(f)[a].launches = dev[a].launches
<1> DEFINE a == Api(f.hook)
           l == Append(dev[a].launches, f.id)
<1>1. dev \in [{"acl", "rt"} -> DevT] /\ a \in {"acl", "rt"} /\ f.id \in Nat
  BY ApiOf DEF Types, FrameT
<1>2. dev[a].launches \in Seq(Nat)
  BY <1>1 DEF DevT
<1> DEFINE r == [dev[a] EXCEPT !.launches = l]
<1>3. l \in Seq(Nat) /\ Entered(f) = [dev EXCEPT ![a] = r]
  BY <1>1, <1>2 DEF Entered
<1> HIDE DEF a, l
<1>5. /\ r \in DevT /\ r.launches = l /\ r.args = dev[a].args /\ r.ops = dev[a].ops
      /\ r.archive = dev[a].archive
  BY <1>1, <1>3 DEF DevT
<1> HIDE DEF r
<1>4. /\ Entered(f) \in [{"acl", "rt"} -> DevT]
      /\ Entered(f)[a].launches = l
      /\ \A b \in {"acl", "rt"} :
            /\ Entered(f)[b].args = dev[b].args /\ Entered(f)[b].ops = dev[b].ops
            /\ Entered(f)[b].archive = dev[b].archive
            /\ b # a => Entered(f)[b].launches = dev[b].launches
  BY <1>1, <1>3, <1>5, DevWith
<1> QED BY <1>4 DEF a, l

LEMMA DescribedTypes ==
    ASSUME NEW f \in FrameT, Types
    PROVE  /\ Described(f) \in [{"acl", "rt"} -> DevT]
           /\ Described(f)[Api(f.hook)].args = f.id /\ Described(f)[Api(f.hook)].ops = {}
           /\ \A a \in {"acl", "rt"} :
                 /\ Described(f)[a].launches = dev[a].launches
                 /\ Described(f)[a].archive = dev[a].archive
                 /\ a # Api(f.hook) => Described(f)[a] = dev[a]
<1> DEFINE a == Api(f.hook)
<1>1. dev \in [{"acl", "rt"} -> DevT] /\ a \in {"acl", "rt"} /\ f.id \in Nat
  BY ApiOf DEF Types, FrameT
<1> DEFINE r == [dev[a] EXCEPT !.args = f.id, !.ops = {}]
<1>3. Described(f) = [dev EXCEPT ![a] = r]
  BY <1>1 DEF Described, DevT
<1> HIDE DEF a
<1>5. /\ r \in DevT /\ r.launches = dev[a].launches /\ r.args = f.id /\ r.ops = {}
      /\ r.archive = dev[a].archive
  BY <1>1 DEF DevT
<1> HIDE DEF r
<1>4. /\ Described(f) \in [{"acl", "rt"} -> DevT]
      /\ Described(f)[a].args = f.id /\ Described(f)[a].ops = {}
      /\ \A b \in {"acl", "rt"} :
            /\ Described(f)[b].launches = dev[b].launches
            /\ Described(f)[b].archive = dev[b].archive
            /\ b # a => Described(f)[b] = dev[b]
  BY <1>1, <1>3, <1>5, DevWith
<1> QED BY <1>4 DEF a

LEMMA ArchivedTypes ==
    ASSUME NEW t \in Threads, Types, call[t] \in FrameT, ArchiveMemInfo(t)
    PROVE  /\ dev' \in [{"acl", "rt"} -> DevT]
           /\ dev'[Api(call[t].hook)].archive
                 = Append(dev[Api(call[t].hook)].archive, dev[Api(call[t].hook)].args)
           /\ \A a \in {"acl", "rt"} :
                 /\ dev'[a].launches = dev[a].launches
                 /\ dev'[a].args = dev[a].args /\ dev'[a].ops = dev[a].ops
                 /\ a # Api(call[t].hook) => dev'[a].archive = dev[a].archive
<1> DEFINE a == Api(call[t].hook)
           l == Append(dev[a].archive, dev[a].args)
<1>1. dev \in [{"acl", "rt"} -> DevT] /\ a \in {"acl", "rt"}
  BY ApiOf DEF Types
<1>2. dev[a].archive \in Seq(Nat) /\ dev[a].args \in Nat
  BY <1>1 DEF DevT
<1>3. l \in Seq(Nat) /\ dev' = [dev EXCEPT ![a].archive = l]
  BY <1>1, <1>2 DEF ArchiveMemInfo
<1> HIDE DEF a, l
<1>4. /\ dev' \in [{"acl", "rt"} -> DevT]
      /\ dev'[a].archive = l
      /\ \A b \in {"acl", "rt"} :
            /\ dev'[b].args = dev[b].args /\ dev'[b].ops = dev[b].ops
            /\ dev'[b].launches = dev[b].launches
            /\ b # a => dev'[b].archive = dev[b].archive
  BY <1>1, <1>3 DEF DevT
<1> QED BY <1>4 DEF a, l

\* OpMalloc, OpFree and ClearArgsInfo change the list of tensors only.
LEMMA OpsTypes ==
    ASSUME NEW t \in Threads, Types, call[t] \in FrameT,
           OpMalloc(t) \/ OpFree(t) \/ ClearArgsInfo(t)
    PROVE  /\ dev' \in [{"acl", "rt"} -> DevT]
           /\ \A a \in {"acl", "rt"} :
                 /\ dev'[a].launches = dev[a].launches /\ dev'[a].archive = dev[a].archive
                 /\ dev'[a].args \in {dev[a].args, None}
                 /\ dev'[a].ops \subseteq dev[a].ops \cup {call[t].id}
                 /\ OpMalloc(t) => dev'[a].args = dev[a].args
                 /\ OpMalloc(t) => dev'[a].ops = IF a = Api(call[t].hook)
                                                 THEN dev[a].ops \cup {call[t].id} ELSE dev[a].ops
                 /\ OpFree(t) => dev'[a].ops = IF a = Api(call[t].hook) THEN {} ELSE dev[a].ops
                 /\ ClearArgsInfo(t) => dev'[a].ops = IF a = "rt" THEN {} ELSE dev[a].ops
<1> DEFINE a == Api(call[t].hook)
           o == dev[a].ops \cup {call[t].id}
<1>1. dev \in [{"acl", "rt"} -> DevT] /\ a \in {"acl", "rt"} /\ call[t].id \in Nat
  BY ApiOf DEF Types, FrameT
<1>2. dev[a].ops \in SUBSET Nat
  BY <1>1 DEF DevT
<1>3. o \in SUBSET Nat
  BY <1>1, <1>2
<1>4. OpMalloc(t) => dev' = [dev EXCEPT ![a].ops = o]
  BY <1>1 DEF OpMalloc
<1>5. OpFree(t) => dev' = [dev EXCEPT ![a] = [dev[a] EXCEPT !.ops = {}, !.args = None]]
  BY <1>1 DEF OpFree, DevT
<1>6. ClearArgsInfo(t) =>
         dev' = [dev EXCEPT !["rt"] = [dev["rt"] EXCEPT !.ops = {}, !.args = None]]
  BY <1>1 DEF ClearArgsInfo, DevT
<1>9. \A w : At(t, w) => call[t].todo[1].call = w
  BY DEF At
<1>10. /\ OpMalloc(t) => call[t].todo[1].call = "OpMalloc"
       /\ OpFree(t) => call[t].todo[1].call = "OpFree"
       /\ ClearArgsInfo(t) => call[t].todo[1].call = "ClearArgsInfo"
  BY <1>9 DEF OpMalloc, OpFree, ClearArgsInfo
<1> HIDE DEF a, o
<1>7. CASE OpMalloc(t)
  <2> DEFINE r == [dev[a] EXCEPT !.ops = o]
  <2>3. /\ r \in DevT /\ r.launches = dev[a].launches /\ r.args = dev[a].args /\ r.ops = o
        /\ r.archive = dev[a].archive /\ dev' = [dev EXCEPT ![a] = r]
    BY <1>1, <1>3, <1>4, <1>7 DEF DevT
  <2> HIDE DEF r
  <2>1. /\ dev' \in [{"acl", "rt"} -> DevT]
        /\ \A b \in {"acl", "rt"} :
              /\ dev'[b].args = dev[b].args /\ dev'[b].archive = dev[b].archive
              /\ dev'[b].launches = dev[b].launches
              /\ dev'[b].ops = IF b = a THEN o ELSE dev[b].ops
    BY <1>1, <2>3, DevWith
  <2>2. ~OpFree(t) /\ ~ClearArgsInfo(t)
    BY <1>7, <1>10
  <2> QED BY <2>1, <2>2 DEF a, o
<1>8. CASE OpFree(t)
  <2> DEFINE r == [dev[a] EXCEPT !.ops = {}, !.args = None]
  <2>3. /\ r \in DevT /\ r.launches = dev[a].launches /\ r.args = None /\ r.ops = {}
        /\ r.archive = dev[a].archive /\ dev' = [dev EXCEPT ![a] = r]
    BY <1>1, <1>5, <1>8 DEF DevT, None
  <2> HIDE DEF r
  <2>1. /\ dev' \in [{"acl", "rt"} -> DevT]
        /\ \A b \in {"acl", "rt"} :
              /\ dev'[b].args \in {dev[b].args, None} /\ dev'[b].archive = dev[b].archive
              /\ dev'[b].launches = dev[b].launches
              /\ dev'[b].ops = IF b = a THEN {} ELSE dev[b].ops
    BY <1>1, <2>3, DevWith
  <2>2. ~OpMalloc(t) /\ ~ClearArgsInfo(t)
    BY <1>8, <1>10
  <2> QED BY <2>1, <2>2 DEF a
<1>11. CASE ClearArgsInfo(t)
  <2> DEFINE r == [dev["rt"] EXCEPT !.ops = {}, !.args = None]
  <2>3. /\ r \in DevT /\ r.launches = dev["rt"].launches /\ r.args = None /\ r.ops = {}
        /\ r.archive = dev["rt"].archive /\ dev' = [dev EXCEPT !["rt"] = r]
    BY <1>1, <1>6, <1>11 DEF DevT, None
  <2> HIDE DEF r
  <2>1. /\ dev' \in [{"acl", "rt"} -> DevT]
        /\ \A b \in {"acl", "rt"} :
              /\ dev'[b].args \in {dev[b].args, None} /\ dev'[b].archive = dev[b].archive
              /\ dev'[b].launches = dev[b].launches
              /\ dev'[b].ops = IF b = "rt" THEN {} ELSE dev[b].ops
    BY <1>1, <2>3, DevWith
  <2>2. ~OpMalloc(t) /\ ~OpFree(t)
    BY <1>11, <1>10
  <2> QED BY <2>1, <2>2
<1> QED BY <1>7, <1>8, <1>11

LEMMA DeviceTypesWork ==
    ASSUME NEW t \in Threads, Types, CallInv, ManagerInv(t), Work(t)
    PROVE  DeviceTypes'
<1>1. /\ dev \in [{"acl", "rt"} -> DevT]
      /\ told \in [announced : SUBSET Nat, sections : SUBSET Nat, ops : SUBSET Nat,
                   overflow : SUBSET {"buffer"}]
      /\ call[t] \in FrameT
  BY WorkCall DEF Types
<1>2. call[t].id \in Nat /\ call[t].event \in Nat /\ call[t].pc \in Nat
  BY <1>1 DEF FrameT
<1>3. dev' \in [{"acl", "rt"} -> DevT]
  <2>1. CASE \/ CreateContext(t) \/ AddLaunchEvent(t) \/ UpdateOpMemInfo(t) \/ ParseMetaData(t)
             \/ ArchiveMemInfo(t) \/ OpMalloc(t) \/ OpFree(t) \/ ClearArgsInfo(t)
    BY <2>1, <1>1, EnteredTypes, DescribedTypes, ArchivedTypes, OpsTypes DEF CreateContext,
       AddLaunchEvent, UpdateOpMemInfo, ParseMetaData
  <2>2. CASE ReportKernelSummary(t) \/ SectionsMalloc(t) \/ SectionsFree(t) \/ Overflow(t)
    BY <1>1, <2>2 DEF ReportKernelSummary, SectionsMalloc, SectionsFree, Overflow
  <2>3. CASE Silent
    BY <1>1, <2>3 DEF Silent
  <2> QED BY <2>1, <2>2, <2>3, SilentWork
<1>4. told' \in [announced : SUBSET Nat, sections : SUBSET Nat, ops : SUBSET Nat,
                 overflow : SUBSET {"buffer"}]
  <2>1. CASE \/ CreateContext(t) \/ AddLaunchEvent(t) \/ UpdateOpMemInfo(t) \/ ParseMetaData(t)
             \/ ArchiveMemInfo(t) \/ ClearArgsInfo(t) \/ Silent
    BY <1>1, <2>1 DEF CreateContext, AddLaunchEvent, UpdateOpMemInfo, ParseMetaData,
       ArchiveMemInfo, ClearArgsInfo, Silent, Registry
  <2>2. CASE ReportKernelSummary(t)
    BY <2>2, <1>1, <1>2 DEF ReportKernelSummary
  <2>3. CASE SectionsMalloc(t)
    BY <2>3, <1>1, <1>2 DEF SectionsMalloc
  <2>4. CASE SectionsFree(t)
    BY <2>4, <1>1 DEF SectionsFree
  <2>5. CASE OpMalloc(t)
    BY <2>5, <1>1, ApiOf, <1>2 DEF OpMalloc, DevT
  <2>6. CASE OpFree(t)
    BY <2>6, <1>1 DEF OpFree
  <2>7. CASE Overflow(t)
    BY <2>7, <1>1 DEF Overflow
  <2> QED BY <2>1, <2>2, <2>3, <2>4, <2>5, <2>6, <2>7, SilentWork
<1> QED BY <1>3, <1>4 DEF DeviceTypes

\* One element of a list is replaced.
LEMMA SeqWith ==
    ASSUME NEW S, NEW s \in Seq(S), NEW i, NEW v \in S
    PROVE  [s EXCEPT ![i] = v] \in {r \in Seq(S) : Len(r) = Len(s)}
<1> DEFINE r == [s EXCEPT ![i] = v]
<1>1. DOMAIN s = 1..Len(s) /\ Len(s) \in Nat /\ \A j \in 1..Len(s) : s[j] \in S
  OBVIOUS
<1>2. DOMAIN r = 1..Len(s) /\ \A j \in 1..Len(s) : r[j] = IF j = i THEN v ELSE s[j]
  BY <1>1
<1>3. r = [j \in 1..Len(s) |-> r[j]]
  BY <1>1
<1>4. r \in [1..Len(s) -> S]
  BY <1>1, <1>2, <1>3
<1> QED BY <1>1, <1>2, <1>4

LEMMA RecordTypesWork ==
    ASSUME NEW t \in Threads, Types, CallInv, ManagerInv(t), Work(t)
    PROVE  RecordTypes' /\ info' = info
<1>1. /\ info \in Seq([skip : BOOLEAN, sink : BOOLEAN])
      /\ reports \in Seq(Nat) /\ dumps \in Seq(Seq(Nat)) /\ done \in Seq(FrameT \cup {NoCall})
      /\ Len(reports) = Len(info) /\ Len(dumps) = Len(info) /\ Len(done) = Len(info)
      /\ kill \in BOOLEAN /\ dead \in BOOLEAN
      /\ dev \in [{"acl", "rt"} -> DevT]
  BY DEF Types
<1>2. info' = info /\ kill' = kill
  BY DEF Work, CreateContext, AddLaunchEvent, GetLaunchId, UpdateOpMemInfo, ParseMetaData,
   ArchiveMemInfo, InitStep, Finalize, SetSkipKernelFlag, ResetMemoryInit, FreeBuffer, ExpandArgs,
   RunDBITask, MakeInstrumented, Commit, Clone, Guards, ReportKernelSummary,
   GetEvent, GetBinary, SectionsMalloc, SectionsFree, OpMalloc, OpFree, Overflow, ClearArgsInfo,
   LaunchDumpTask, Sync, ExitAfterProcess, Registry, Local, Telling, Buffers
<1>3. reports' \in Seq(Nat) /\ Len(reports') = Len(reports)
  BY ManagerTypesWork
<1>4. dumps' \in Seq(Seq(Nat)) /\ Len(dumps') = Len(dumps)
  <2>1. CASE LaunchDumpTask(t)
    <3> DEFINE d == dev[Api(call[t].hook)]
               n == Len(d.launches)
               v == <<d.launches[n], d.archive[n]>>
    <3>1. d \in DevT
      BY <1>1, ApiOf
    <3>2. d.launches \in Seq(Nat) /\ d.archive \in Seq(Nat)
      BY <3>1 DEF DevT
    <3>3. \/ dumps' = dumps
          \/ n # 0 /\ ~(n > Len(d.archive)) /\ dumps' = [dumps EXCEPT ![call[t].id] = v]
      BY <2>1 DEF LaunchDumpTask
    <3>4. CASE n # 0 /\ ~(n > Len(d.archive)) /\ dumps' = [dumps EXCEPT ![call[t].id] = v]
      <4>1. n \in 1..Len(d.launches) /\ n \in 1..Len(d.archive)
        BY <3>2, <3>4
      <4>2. d.launches[n] \in Nat /\ d.archive[n] \in Nat
        BY <3>2, <4>1, SeqElement
      <4>3. v \in Seq(Nat)
        BY <4>2
      <4>4. dumps \in Seq(Seq(Nat)) /\ dumps' = [dumps EXCEPT ![call[t].id] = v]
        BY <1>1, <3>4
      <4> HIDE DEF v, n, d
      <4>5. [dumps EXCEPT ![call[t].id] = v] \in {r \in Seq(Seq(Nat)) : Len(r) = Len(dumps)}
        BY <4>3, <4>4, SeqWith, Zenon
      <4> QED BY <4>4, <4>5
    <3> QED BY <1>1, <3>3, <3>4
  <2>2. CASE ~LaunchDumpTask(t)
    BY <2>2, <1>1 DEF Work, CreateContext, AddLaunchEvent, GetLaunchId, UpdateOpMemInfo,
       ParseMetaData, ArchiveMemInfo, InitStep, Finalize, SetSkipKernelFlag, ResetMemoryInit,
       FreeBuffer, ExpandArgs, RunDBITask, MakeInstrumented, Commit, Clone, Guards,
       ReportKernelSummary, GetEvent, GetBinary, SectionsMalloc, SectionsFree, OpMalloc, OpFree,
       Overflow, ClearArgsInfo, Sync, ExitAfterProcess, Registry, Local, Telling, Buffers
  <2> QED BY <2>1, <2>2
<1>5. dead' \in BOOLEAN /\ done' \in Seq(FrameT \cup {NoCall}) /\ Len(done') = Len(done)
  <2>1. CASE ExitAfterProcess(t)
    <3>1. /\ dead' = kill
          /\ done' \in {done, [done EXCEPT ![call[t].id] = call[t]]}
      BY <2>1 DEF ExitAfterProcess
    <3>2. call[t] \in FrameT \cup {NoCall}
      BY WorkCall
    <3>3. done \in Seq(FrameT \cup {NoCall})
      BY <1>1
    <3>4. [done EXCEPT ![call[t].id] = call[t]]
             \in {r \in Seq(FrameT \cup {NoCall}) : Len(r) = Len(done)}
      BY <3>2, <3>3, SeqWith, Zenon
    <3> QED BY <1>1, <3>1, <3>4
  <2>2. CASE ~ExitAfterProcess(t)
    BY <2>2, <1>1 DEF Work, CreateContext, AddLaunchEvent, GetLaunchId, UpdateOpMemInfo,
       ParseMetaData, ArchiveMemInfo, InitStep, Finalize, SetSkipKernelFlag, ResetMemoryInit,
       FreeBuffer, ExpandArgs, RunDBITask, MakeInstrumented, Commit, Clone, Guards,
       ReportKernelSummary, GetEvent, GetBinary, SectionsMalloc, SectionsFree, OpMalloc, OpFree,
       Overflow, ClearArgsInfo, Sync, LaunchDumpTask, Registry, Local, Telling, Buffers
  <2> QED BY <2>1, <2>2
<1> QED BY <1>1, <1>2, <1>3, <1>4, <1>5 DEF RecordTypes

LEMMA TypesWork ==
    ASSUME NEW t \in Threads, Types, CallInv, ManagerInv(t), Work(t)
    PROVE  Types'
BY WorkCall, CountTypesWork, ManagerTypesWork, DeviceTypesWork, RecordTypesWork, TypesNext

LEMMA TypesAdvance ==
    ASSUME NEW t \in Threads, Types, IdsInv, CallInv, Advance(t)
    PROVE  Types'
<1>1. /\ CallsTyped /\ call[t] \in FrameT
      /\ left \in Nat /\ fails \in Nat /\ scen \in Scenarios
      /\ CountTypes /\ ManagerTypes /\ DeviceTypes /\ RecordTypes
  BY AdvanceCall, TypesParts DEF Types
<1>2. /\ left' = left /\ scen' = scen /\ (fails' = fails \/ (fails > 0 /\ fails' = fails - 1))
      /\ UNCHANGED <<mgr, bufs, info, dev, told, reports, dumps, kill, dead>>
      /\ UNCHANGED <<dbi, configured>> \/ (dbi' = Configured(t) /\ configured' = TRUE)
      /\ done' = done \/ done' = [done EXCEPT ![call[t].id] = call[t]]
  BY AdvanceCases DEF OpenEnds, ToPre, Launch, PostEnds, EndEnds, Returns, Moves, MayFail
<1>3. CountTypes'
  BY <1>1, <1>2 DEF CountTypes
<1>4. ManagerTypes'
  BY <1>1, <1>2, ConfiguredTypes DEF ManagerTypes
<1>5. DeviceTypes'
  BY <1>1, <1>2 DEF DeviceTypes
<1>6. done \in Seq(FrameT \cup {NoCall})
  BY DEF Types
<1>7. done' \in Seq(FrameT \cup {NoCall}) /\ Len(done') = Len(done)
  <2>1. call[t] \in FrameT \cup {NoCall}
    BY <1>1
  <2>2. [done EXCEPT ![call[t].id] = call[t]]
           \in {r \in Seq(FrameT \cup {NoCall}) : Len(r) = Len(done)}
    BY <1>6, <2>1, SeqWith, Zenon
  <2> QED BY <1>2, <1>6, <2>2
<1>8. RecordTypes'
  BY <1>1, <1>2, <1>7 DEF RecordTypes
<1> QED BY <1>1, <1>3, <1>4, <1>5, <1>8, TypesNext

\* A list with one element more.
LEMMA SeqMore ==
    ASSUME NEW S, NEW s \in Seq(S), NEW v \in S, NEW r, r = Append(s, v)
    PROVE  /\ r \in Seq(S) /\ Len(r) = Len(s) + 1 /\ r[Len(s) + 1] = v /\ r # <<>>
           /\ \A i \in 1..Len(s) : r[i] = s[i]
OBVIOUS

LEMMA TypesBegin ==
    ASSUME NEW t \in Threads, Types, CallInv, Begin(t)
    PROVE  /\ Types' /\ Len(info') = Len(info) + 1
           /\ \A i \in 1..Len(info) : info'[i] = info[i] /\ reports'[i] = reports[i]
                                      /\ dumps'[i] = dumps[i] /\ done'[i] = done[i]
           /\ reports'[Len(info) + 1] = 0 /\ dumps'[Len(info) + 1] = <<>>
           /\ done'[Len(info) + 1] = NoCall
           /\ UNCHANGED <<fails, scen, mgr, bufs, dbi, configured, dev, told, kill, dead>>
<1>1. /\ CallsTyped /\ CountTypes /\ ManagerTypes /\ DeviceTypes /\ RecordTypes
  BY BeginCall, TypesParts
<1>2. /\ left' = left - 1 /\ left > 0
      /\ UNCHANGED <<fails, scen, mgr, bufs, dbi, configured, dev, told, kill, dead>>
      /\ reports' = Append(reports, 0) /\ dumps' = Append(dumps, <<>>)
      /\ done' = Append(done, NoCall)
  BY DEF Begin
<1>3. \E r \in [skip : BOOLEAN, sink : BOOLEAN] : info' = Append(info, r)
  BY BeginFrame
<1>4. CountTypes' /\ ManagerTypes' /\ DeviceTypes'
  BY <1>1, <1>2 DEF CountTypes, ManagerTypes, DeviceTypes
<1>5. /\ info \in Seq([skip : BOOLEAN, sink : BOOLEAN])
      /\ reports \in Seq(Nat) /\ dumps \in Seq(Seq(Nat)) /\ done \in Seq(FrameT \cup {NoCall})
      /\ Len(reports) = Len(info) /\ Len(dumps) = Len(info) /\ Len(done) = Len(info)
      /\ kill \in BOOLEAN /\ dead \in BOOLEAN
  BY DEF Types
<1>6. info' \in Seq([skip : BOOLEAN, sink : BOOLEAN]) /\ Len(info') = Len(info) + 1
      /\ \A i \in 1..Len(info) : info'[i] = info[i]
  BY <1>3, <1>5, SeqMore
<1>7. reports' \in Seq(Nat) /\ Len(reports') = Len(info) + 1 /\ reports'[Len(info) + 1] = 0
      /\ \A i \in 1..Len(info) : reports'[i] = reports[i]
  BY <1>2, <1>5, SeqMore
<1>8. dumps' \in Seq(Seq(Nat)) /\ Len(dumps') = Len(info) + 1 /\ dumps'[Len(info) + 1] = <<>>
      /\ \A i \in 1..Len(info) : dumps'[i] = dumps[i]
  BY <1>2, <1>5, SeqMore
<1>9. done' \in Seq(FrameT \cup {NoCall}) /\ Len(done') = Len(info) + 1
      /\ done'[Len(info) + 1] = NoCall /\ \A i \in 1..Len(info) : done'[i] = done[i]
  BY <1>2, <1>5, SeqMore
<1>10. RecordTypes'
  BY <1>2, <1>5, <1>6, <1>7, <1>8, <1>9 DEF RecordTypes
<1> QED BY <1>1, <1>2, <1>4, <1>6, <1>7, <1>8, <1>9, <1>10, TypesNext

-----------------------------------------------------------------------------
(* IdsInv. *)

LEMMA InfoNat == Types => Len(info) \in Nat
<1> SUFFICES ASSUME Types PROVE Len(info) \in Nat
  OBVIOUS
<1>1. info \in Seq([skip : BOOLEAN, sink : BOOLEAN])
  BY DEF Types
<1> QED BY <1>1

LEMMA LastOfKnown ==
    ASSUME Types, IdsInv, NEW a \in {"acl", "rt"}
    PROVE  LastOf(a) \in Known /\ (dev[a].launches # <<>> => LastOf(a) \in Ids)
BY DEF Types, DevT, IdsInv, Last, LastOf, None, Ids, Known

\* What a step looks up are launches that were made.
LEMMA WorkLooks ==
    ASSUME NEW t \in Threads, Types, IdsInv, CallInv, ManagerInv(t), Work(t)
    PROVE  call'[t].id = call[t].id /\ call'[t].event \in Known /\ call'[t].pc \in Known
<1>0. call[t] # NoCall
  BY WorkCall
<1>1. /\ call[t].id \in Ids /\ call[t].event \in Known /\ call[t].pc \in Known
      /\ LastOf("rt") \in Known /\ Len(info) \in Nat
  BY <1>0, LastOfKnown, InfoNat DEF IdsInv, FrameIds, Known
<1>2. call'[t].id = call[t].id
  BY WorkCall DEF Runs, Works, SameCall
<1>3. call[t].id \in Known
  BY <1>1 DEF Ids, Known
<1>4. ASSUME NEW g, Runs(t, g), g.event \in Known, g.pc \in Known
      PROVE  call'[t].event \in Known /\ call'[t].pc \in Known
  BY <1>4 DEF Runs
<1>5. ASSUME NEW g, Runs(t, g), SameLookup(call[t], g)
      PROVE  call'[t].event \in Known /\ call'[t].pc \in Known
  BY <1>1, <1>5 DEF Runs, SameLookup
<1>6. ASSUME NEW g, Gives(t, g) \/ MakesQuietly(t, g)
      PROVE  call'[t].event \in Known /\ call'[t].pc \in Known
  BY <1>5, <1>6 DEF Gives, MakesQuietly, Makes, Quiet
<1>7. CASE CreateContext(t)
  <2>1. PICK g : \/ Gives(t, g)
                 \/ Makes(t, g) /\ g.event = g.id /\ g.pc = g.id
    BY <1>7, CreateContextFrame
  <2>2. Makes(t, g) => Runs(t, g) /\ g.id = call[t].id
    BY DEF Makes, Runs, Works, SameCall
  <2> QED BY <1>2, <1>3, <1>4, <1>6, <2>1, <2>2
<1>8. CASE GetLaunchId(t)
  <2>1. PICK g : Makes(t, g) /\ g.event = LastOf("rt") /\ g.pc = call[t].pc
    BY <1>8, GetLaunchIdFrame
  <2> QED BY <1>1, <1>2, <1>4, <2>1 DEF Makes
<1>9. CASE GetEvent(t)
  <2>1. PICK g : \/ Gives(t, g)
                 \/ Makes(t, g) /\ g.event = call[t].event /\ g.pc = Wanted(t)
    BY <1>9, GetEventFrame
  <2>2. Wanted(t) \in Known
    BY <1>1 DEF Wanted
  <2> QED BY <1>1, <1>2, <1>4, <1>6, <2>1, <2>2 DEF Makes
<1>10. CASE ParseMetaData(t) \/ SectionsMalloc(t)
  <2>1. PICK g : Makes(t, g) /\ g.event = call[t].event /\ g.pc = call[t].pc
    BY <1>10, ParseMetaDataFrame, SectionsMallocFrame
  <2> QED BY <1>1, <1>2, <1>4, <2>1 DEF Makes
<1>11. CASE InitStep(t)
  <2>1. PICK g : \/ Gives(t, g) \/ MakesQuietly(t, g)
                 \/ SameLookup(call[t], g) /\ (Makes(t, g) \/ Runs(t, g))
    BY <1>11, InitStepFrame
  <2> QED BY <1>2, <1>5, <1>6, <2>1 DEF Makes
<1>12. CASE ExpandArgs(t)
  <2>1. PICK g : SameLookup(call[t], g) /\ (Makes(t, g) \/ Runs(t, g))
    BY <1>12, ExpandArgsFrame
  <2> QED BY <1>2, <1>5, <2>1 DEF Makes
<1>13. CASE Finalize(t)
  <2>1. PICK g : Runs(t, g) /\ Quiet(call[t], g)
    BY <1>13, FinalizeFrame
  <2> QED BY <1>2, <1>5, <2>1 DEF Quiet
<1>14. CASE RunDBITask(t) \/ MakeInstrumented(t) \/ Commit(t)
  <2>1. PICK g : Gives(t, g) \/ MakesQuietly(t, g) \/ (Makes(t, g) /\ SameLookup(call[t], g))
    BY <1>14, RunDBITaskFrame, MakeInstrumentedFrame, CommitFrame
  <2> QED BY <1>2, <1>5, <1>6, <2>1 DEF Makes
<1>15. CASE AddLaunchEvent(t) \/ Clone(t) \/ GetBinary(t) \/ QuietActions(t) \/ Guards(t)
  <2>1. PICK g : Gives(t, g) \/ MakesQuietly(t, g)
    BY <1>15, AddLaunchEventFrame, CloneFrame, GetBinaryFrame, QuietFrame, GuardsFrame
  <2> QED BY <1>2, <1>6, <2>1
<1>16. CASE Sync(t) \/ LaunchDumpTask(t)
  <2>1. PICK g : Makes(t, g) /\ SameLookup(call[t], g)
    BY <1>16, SyncFrame, LaunchDumpTaskFrame
  <2> QED BY <1>2, <1>5, <2>1 DEF Makes
<1> QED BY <1>7, <1>8, <1>9, <1>10, <1>11, <1>12, <1>13, <1>14, <1>15, <1>16 DEF Work, QuietActions

LEMMA WorkHeads ==
    ASSUME NEW t \in Threads, Types, IdsInv, CallInv, ManagerInv(t), Work(t)
    PROVE  \A u \in Threads : \A i \in DOMAIN bufs'[u] : bufs'[u][i].heads \in Known
<1>1. /\ \A u \in Threads : HeadsKnown(u)
      /\ bufs \in [Threads -> Seq(BufT)] /\ mgr \in [Threads -> MgrT]
  BY DEF IdsInv, Types, HeadsKnown, Known
<1>0. call[t].id \in Known /\ None \in Known
  BY WorkCall, InfoNat DEF IdsInv, FrameIds, Ids, Known, None
<1>2. CASE InitStep(t)
  <2>1. PICK o \in InitOutcomes(t, call[t].id) :
           bufs' = [bufs EXCEPT ![t] = o.bufs] /\ OutcomeWell(mgr[t], bufs[t], call[t].id, o)
    BY <1>2, InitStepFrame
  <2>2. bufs'[t] = o.bufs /\ \A u \in Threads : u # t => bufs'[u] = bufs[u]
    BY <1>1, <2>1
  <2>3. \A i \in DOMAIN o.bufs : o.bufs[i].heads \in Known
    BY <1>0, <1>1, <2>1 DEF OutcomeWell, HeadsKnown
  <2> QED BY <1>1, <2>2, <2>3 DEF HeadsKnown
<1>3. CASE FreeBuffer(t)
  <2>1. bufs' = [bufs EXCEPT ![t] = Freed(mgr[t], @)]
    BY <1>3 DEF FreeBuffer
  <2>2. bufs'[t] = Freed(mgr[t], bufs[t]) /\ \A u \in Threads : u # t => bufs'[u] = bufs[u]
    BY <1>1, <2>1
  <2>3. \A i \in DOMAIN Freed(mgr[t], bufs[t]) : Freed(mgr[t], bufs[t])[i].heads \in Known
    <3>1. mgr[t] \in MgrT /\ bufs[t] \in Seq(BufT) /\ HeadsKnown(t)
      BY <1>1
    <3>2. \A i \in DOMAIN Freed(mgr[t], bufs[t]) :
             i \in DOMAIN bufs[t] /\ Freed(mgr[t], bufs[t])[i].heads = bufs[t][i].heads
      BY <3>1, FreeHeld
    <3> QED BY <3>1, <3>2 DEF HeadsKnown
  <2> QED BY <1>1, <2>2, <2>3 DEF HeadsKnown
<1>4. CASE ~InitStep(t) /\ ~FreeBuffer(t)
  <2>1. bufs' = bufs
    BY <1>4, ApartWork DEF Apart, Finalize, SetSkipKernelFlag, ResetMemoryInit, ExpandArgs
  <2> QED BY <1>1, <2>1 DEF HeadsKnown
<1> QED BY <1>2, <1>3, <1>4

LEMMA WorkDevice ==
    ASSUME NEW t \in Threads, Types, IdsInv, CallInv, ManagerInv(t), Work(t)
    PROVE  /\ \A a \in {"acl", "rt"} :
                 /\ \A i \in DOMAIN dev'[a].launches : dev'[a].launches[i] \in Ids
                 /\ dev'[a].args \in Known /\ dev'[a].ops \subseteq Ids
           /\ told'.announced \subseteq Ids /\ told'.ops \subseteq Ids
<1>1. /\ call[t].id \in Ids /\ call[t].event \in Known /\ call[t] \in FrameT
      /\ dev \in [{"acl", "rt"} -> DevT]
      /\ told \in [announced : SUBSET Nat, sections : SUBSET Nat, ops : SUBSET Nat,
                   overflow : SUBSET {"buffer"}]
  BY WorkCall DEF IdsInv, FrameIds, Types, Known
<1>2. /\ \A a \in {"acl", "rt"} : /\ \A i \in DOMAIN dev[a].launches : dev[a].launches[i] \in Ids
                                  /\ dev[a].args \in Known /\ dev[a].ops \subseteq Ids
      /\ told.announced \subseteq Ids /\ told.ops \subseteq Ids
  BY DEF IdsInv, Known
<1>3. None \in Known /\ call[t].id \in Known /\ Known \ {None} \subseteq Ids
  BY <1>1 DEF Known, Ids, None, Types
<1>4. \A a \in {"acl", "rt"} :
         /\ \A i \in DOMAIN dev'[a].launches : dev'[a].launches[i] \in Ids
         /\ dev'[a].args \in Known /\ dev'[a].ops \subseteq Ids
  <2>1. CASE dev' = dev
    BY <1>2, <2>1
  <2>2. CASE dev' = Entered(call[t])
    <3>1. ASSUME NEW a \in {"acl", "rt"}, NEW i \in DOMAIN dev'[a].launches
          PROVE  dev'[a].launches[i] \in Ids
      <4>1. CASE a # Api(call[t].hook)
        BY <1>1, <1>2, <2>2, <3>1, <4>1, EnteredTypes
      <4>2. CASE a = Api(call[t].hook)
        <5>1. dev'[a].launches = Append(dev[a].launches, call[t].id) /\ dev[a].launches \in Seq(Nat)
              /\ call[t].id \in Nat
          BY <1>1, <2>2, <4>2, EnteredTypes DEF DevT, FrameT
        <5>2. i \in 1..(Len(dev[a].launches) + 1)
          BY <3>1, <5>1
        <5>3. i = Len(dev[a].launches) + 1 => dev'[a].launches[i] = call[t].id
          BY <5>1
        <5>4. i # Len(dev[a].launches) + 1 =>
                 i \in DOMAIN dev[a].launches /\ dev'[a].launches[i] = dev[a].launches[i]
          BY <5>1, <5>2
        <5> QED BY <1>1, <1>2, <5>3, <5>4
      <4> QED BY <4>1, <4>2
    <3> QED BY <1>1, <1>2, <2>2, <3>1, EnteredTypes
  <2>3. CASE dev' = Described(call[t])
    BY <1>1, <2>3, DescribedTypes, <1>2, <1>3
  <2>4. CASE ArchiveMemInfo(t)
    BY <1>1, <2>4, ArchivedTypes, <1>2
  <2>5. CASE OpMalloc(t) \/ OpFree(t) \/ ClearArgsInfo(t)
    BY <1>1, <2>5, OpsTypes, <1>2, <1>3
  <2> QED BY <2>1, <2>2, <2>3, <2>4, <2>5, SilentWork DEF Silent, CreateContext, AddLaunchEvent,
             UpdateOpMemInfo, ParseMetaData, ReportKernelSummary, SectionsMalloc, SectionsFree,
             Overflow
<1>5. told'.announced \subseteq Ids /\ told'.ops \subseteq Ids
  <2>1. CASE told' = told
    BY <1>2, <2>1
  <2>2. CASE ReportKernelSummary(t)
    BY <2>2, <1>1, <1>2, <1>3 DEF ReportKernelSummary
  <2>3. CASE SectionsMalloc(t) \/ SectionsFree(t) \/ Overflow(t)
    BY <1>1, <2>3, <1>2 DEF SectionsMalloc, SectionsFree, Overflow
  <2>4. CASE OpMalloc(t)
    BY <2>4, <1>1, <1>2, ApiOf DEF OpMalloc
  <2>5. CASE OpFree(t)
    BY <2>5, <1>1, <1>2 DEF OpFree
  <2> QED BY <2>1, <2>2, <2>3, <2>4, <2>5, SilentWork DEF Silent, CreateContext, AddLaunchEvent,
             UpdateOpMemInfo, ParseMetaData, ArchiveMemInfo, ClearArgsInfo, Registry
<1> QED BY <1>4, <1>5

LEMMA IdsWork ==
    ASSUME NEW t \in Threads, Types, IdsInv, CallInv, ManagerInv(t), Work(t)
    PROVE  IdsInv'
BY RecordTypesWork, WorkCall, WorkLooks, WorkHeads, WorkDevice DEF Ids, Known, IdsInv, FrameIds,
   Others

LEMMA IdsAdvance ==
    ASSUME NEW t \in Threads, Types, IdsInv, CallInv, Advance(t)
    PROVE  IdsInv' /\ info' = info
<1>1. UNCHANGED <<info, bufs, dev, told>>
  BY AdvanceCases DEF OpenEnds, ToPre, Launch, PostEnds, EndEnds, Returns, Moves, MayFail
<1>2. ASSUME NEW u \in Threads, call'[u] # NoCall
      PROVE  FrameIds(call'[u])
  <2>1. CASE u = t
    BY <1>2, <2>1, AdvanceCall, EntersSame DEF IdsInv, FrameIds
  <2>2. CASE u # t
    BY <1>2, <2>2, AdvanceCall DEF IdsInv, Others
  <2> QED BY <2>1, <2>2
<1> QED BY <1>1, <1>2 DEF IdsInv, FrameIds, Ids

LEMMA IdsBegin ==
    ASSUME NEW t \in Threads, Types, IdsInv, CallInv, Begin(t)
    PROVE  IdsInv'
<1>1. /\ Len(info') = Len(info) + 1 /\ UNCHANGED <<bufs, dev, told>> /\ Len(info) \in Nat
  BY TypesBegin, InfoNat
<1>2. Ids \subseteq Ids' /\ 0..Len(info) \subseteq 0..Len(info') /\ Len(info) + 1 \in Ids'
  BY <1>1 DEF Ids
<1>3. ASSUME NEW u \in Threads, call'[u] # NoCall
      PROVE  /\ call'[u].id \in Ids' /\ call'[u].event \in 0..Len(info')
             /\ call'[u].pc \in 0..Len(info')
  <2>1. CASE u = t
    <3>1. PICK g : call'[t] = g /\ Opened(g) /\ g.id = Len(info) + 1
      BY BeginFrame
    <3> QED BY <1>1, <1>2, <2>1, <3>1 DEF Opened, None
  <2>2. CASE u # t
    BY <1>3, <2>2, BeginFrame, <1>2 DEF Marked, SameLookup, IdsInv, FrameIds
  <2> QED BY <2>1, <2>2
<1> QED BY <1>1, <1>2, <1>3 DEF IdsInv, FrameIds

-----------------------------------------------------------------------------
(* ManagerInv and BufferInv. *)

\* A step changes the buffer of its own thread only.
LEMMA WorkLocal ==
    ASSUME NEW t \in Threads, Types, CallInv, ManagerInv(t), Work(t)
    PROVE  \A u \in Threads : u # t => mgr'[u] = mgr[u] /\ bufs'[u] = bufs[u]
<1>1. mgr \in [Threads -> MgrT] /\ bufs \in [Threads -> Seq(BufT)] /\ call[t].id \in Nat
  BY WorkCall DEF Types, FrameT
<1>2. CASE Apart
  BY <1>2 DEF Apart
<1>3. CASE InitStep(t)
  <2>1. PICK o : mgr' = [mgr EXCEPT ![t] = o.mgr] /\ bufs' = [bufs EXCEPT ![t] = o.bufs]
    BY <1>3, InitStepFrame
  <2> QED BY <1>1, <2>1
<1>4. CASE Finalize(t)
  BY <1>4, FinalizeFrame, <1>1, FinalizedTypes DEF Finalize
<1>5. CASE SetSkipKernelFlag(t) \/ ResetMemoryInit(t)
  BY <1>1, <1>5 DEF SetSkipKernelFlag, ResetMemoryInit
<1>6. CASE FreeBuffer(t)
  BY <1>1, <1>6 DEF FreeBuffer
<1>7. CASE ExpandArgs(t)
  BY <1>7, <1>1, FinalizedTypes DEF ExpandArgs
<1> QED BY <1>2, <1>3, <1>4, <1>5, <1>6, <1>7, ApartWork

LEMMA FinalizeMgr ==
    ASSUME NEW t \in Threads, NEW ptr, NEW id \in Nat, Types, Finalized(t, ptr, id)
    PROVE  /\ Resized(mgr[t], mgr'[t]) /\ mgr'[t].skip = mgr[t].skip
           /\ mgr'[t].init = (mgr[t].init /\ ~Sends(t, ptr))
<1>1. mgr[t] \in MgrT
  BY DEF Types
<1>2. mgr'[t] = [mgr[t] EXCEPT !.init = @ /\ ~Sends(t, ptr)]
  BY FinalizedTypes
<1> QED BY <1>1, <1>2 DEF MgrT, Resized

LEMMA FlagMgr ==
    ASSUME NEW t \in Threads, Types, SetSkipKernelFlag(t) \/ ResetMemoryInit(t)
    PROVE  /\ Resized(mgr[t], mgr'[t]) /\ bufs' = bufs
           /\ mgr'[t].init = (mgr[t].init /\ ~ResetMemoryInit(t))
<1>1. mgr \in [Threads -> MgrT]
  BY DEF Types
<1>2. NextCall(t) = (IF ResetMemoryInit(t) THEN "ResetMemoryInit" ELSE "SetSkipKernelFlag")
  BY DEF SetSkipKernelFlag, ResetMemoryInit, At, NextCall
<1>3. CASE ResetMemoryInit(t)
  BY <1>1, <1>3 DEF ResetMemoryInit, MgrT, Resized
<1>4. CASE ~ResetMemoryInit(t)
  BY <1>4, <1>1 DEF SetSkipKernelFlag, MgrT, Resized
<1> QED BY <1>3, <1>4

LEMMA HeldKept == \A m, n, b : Held(m, b) /\ Resized(m, n) => Held(n, b)
BY DEF Held, Resized

LEMMA ManagerWork ==
    ASSUME NEW t \in Threads, Types, CallInv, ManagerInv(t), Work(t)
    PROVE  ManagerInv(t)'
<1>1. mgr \in [Threads -> MgrT] /\ bufs \in [Threads -> Seq(BufT)] /\ call[t].id \in Nat
      /\ Held(mgr[t], bufs[t])
  BY WorkCall DEF Types, FrameT, ManagerInv
<1>8. SUFFICES Held(mgr'[t], bufs'[t])
  BY DEF ManagerInv
<1>2. CASE Apart
  BY <1>1, <1>2 DEF Apart
<1>3. CASE InitStep(t)
  <2>1. PICK o : /\ mgr' = [mgr EXCEPT ![t] = o.mgr] /\ bufs' = [bufs EXCEPT ![t] = o.bufs]
                 /\ OutcomeWell(mgr[t], bufs[t], call[t].id, o)
    BY <1>3, InitStepFrame
  <2> QED BY <1>1, <2>1 DEF OutcomeWell
<1>4. CASE Finalize(t)
  BY <1>4, FinalizeFrame, <1>1, FinalizeMgr, HeldKept DEF Finalize
<1>5. CASE SetSkipKernelFlag(t) \/ ResetMemoryInit(t)
  BY <1>1, <1>5, FlagMgr, HeldKept
<1>6. CASE FreeBuffer(t)
  BY <1>1, <1>6, FreeHeld DEF FreeBuffer, FreedHeld
<1>7. CASE ExpandArgs(t)
  BY <1>7, <1>1, FinalizeMgr, HeldKept DEF ExpandArgs
<1> QED BY <1>2, <1>3, <1>4, <1>5, <1>6, <1>7, ApartWork

LEMMA SameUseOf ==
    ASSUME NEW t \in Threads, NEW g, Gives(t, g) \/ MakesQuietly(t, g)
    PROVE  SameUse(call[t], g)
BY DEF Gives, MakesQuietly, Makes, Quiet, Runs, Works, SameCall, SameBuffer, SameLookup, SameUse,
   NextCall, FrameT

LEMMA ApartUse ==
    ASSUME NEW t \in Threads, Types, CallInv, ManagerInv(t), Work(t),
           ~(InitStep(t) \/ Finalize(t) \/ ExpandArgs(t))
    PROVE  SameUse(call[t], call'[t])
<1>1. ASSUME NEW g, Gives(t, g) \/ MakesQuietly(t, g)
      PROVE  SameUse(call[t], call'[t])
  BY <1>1, SameUseOf DEF Gives, MakesQuietly, Makes, Runs
<1>2. ASSUME NEW g, Makes(t, g), g.mem = call[t].mem, g.stale = call[t].stale,
             g.sink = call[t].sink \/ call[t].phase = "init"
      PROVE  SameUse(call[t], call'[t])
  BY <1>2 DEF Makes, Runs, Works, SameCall, SameUse, NextCall
<1>3. CASE CreateContext(t) \/ GetLaunchId(t) \/ SectionsMalloc(t) \/ GetEvent(t)
  <2>1. PICK g : \/ Gives(t, g)
                 \/ Makes(t, g) /\ SameBuffer(call[t], g) /\ g.sink = call[t].sink
    BY <1>3, CreateContextFrame, GetLaunchIdFrame, SectionsMallocFrame, GetEventFrame
  <2> QED BY <1>1, <1>2, <2>1 DEF SameBuffer
<1>4. CASE ParseMetaData(t)
  <2>1. PICK g : Makes(t, g) /\ SameBuffer(call[t], g)
    BY <1>4, ParseMetaDataFrame
  <2>2. call[t].phase = "init"
    BY <1>4, <2>1, ParseMetaDataFrame, PhaseOf DEF Makes, Runs, Works, NextCall
  <2> QED BY <1>2, <2>1, <2>2 DEF SameBuffer
<1>5. CASE RunDBITask(t) \/ MakeInstrumented(t) \/ Commit(t)
  <2>1. PICK g : \/ Gives(t, g) \/ MakesQuietly(t, g)
                 \/ /\ Makes(t, g) /\ g.mem = call[t].mem /\ g.stale = call[t].stale
                    /\ SameLookup(call[t], g)
    BY <1>5, RunDBITaskFrame, MakeInstrumentedFrame, CommitFrame
  <2> QED BY <1>1, <1>2, <2>1 DEF SameLookup
<1>6. CASE AddLaunchEvent(t) \/ Clone(t) \/ GetBinary(t) \/ QuietActions(t) \/ Guards(t)
  <2>1. PICK g : Gives(t, g) \/ MakesQuietly(t, g)
    BY <1>6, AddLaunchEventFrame, CloneFrame, GetBinaryFrame, QuietFrame, GuardsFrame
  <2> QED BY <1>1, <2>1
<1>7. CASE Sync(t) \/ LaunchDumpTask(t)
  <2>1. PICK g : Makes(t, g) /\ SameBuffer(call[t], g) /\ SameLookup(call[t], g)
    BY <1>7, SyncFrame, LaunchDumpTaskFrame
  <2> QED BY <1>2, <2>1 DEF SameBuffer, SameLookup
<1> QED BY <1>3, <1>4, <1>5, <1>6, <1>7 DEF Work, QuietActions

LEMMA BufferedIs ==
    ASSUME NEW t \in Threads
    PROVE  BufferInv(t) <=> (call[t] # NoCall => Buffered(call[t], mgr[t], bufs[t]))
BY DEF BufferInv, Buffered

LEMMA BufferedKept ==
    ASSUME NEW f, NEW g, NEW m, NEW n, NEW b, SameUse(f, g), Buffered(f, m, b),
           n.ptr = m.ptr, n.init = m.init \/ ~n.init,
           f.phase = "post" => f.todo[1].call \notin {"Finalize", "ResetMemoryInit"} \/ ~n.init,
           m.init \in BOOLEAN, n.init \in BOOLEAN
    PROVE  Buffered(g, n, b)
BY DEF SameUse, Buffered

LEMMA BufferApart ==
    ASSUME NEW t \in Threads, Types, CallInv, ManagerInv(t), BufferInv(t), Work(t),
           ~(InitStep(t) \/ Finalize(t) \/ ExpandArgs(t) \/ FreeBuffer(t))
    PROVE  BufferInv(t)'
<1> DEFINE f == call[t]
           g == call'[t]
           Touches == SetSkipKernelFlag(t) \/ ResetMemoryInit(t)
<1>1. /\ f # NoCall /\ g # NoCall /\ Buffered(f, mgr[t], bufs[t]) /\ SameUse(f, g)
      /\ f.todo[1].call = NextCall(t) /\ mgr[t].init \in BOOLEAN
  BY WorkCall, BufferedIs, ApartUse DEF Types, MgrT, NextCall
<1>2. SUFFICES Buffered(g, mgr'[t], bufs'[t])
  BY DEF BufferInv, Buffered
<1>3. CASE Touches
  <2>1. Resized(mgr[t], mgr'[t]) /\ bufs' = bufs
        /\ mgr'[t].init = (mgr[t].init /\ ~ResetMemoryInit(t))
    BY <1>3, FlagMgr
  <2>2. ResetMemoryInit(t) \/ f.phase = "pre"
    BY <1>3, PhaseAt, PhaseOf DEF SetSkipKernelFlag
  <2>3. mgr'[t].init \in BOOLEAN
    BY <1>1, <2>1
  <2> HIDE DEF f, g, Touches
  <2> QED BY <1>1, <2>1, <2>2, <2>3, BufferedKept DEF Resized
<1>4. CASE ~Touches
  <2>1. mgr'[t] = mgr[t] /\ bufs'[t] = bufs[t]
    BY <1>4, ApartWork DEF Apart
  <2>2. NextCall(t) \notin {"Finalize", "ResetMemoryInit"}
    BY <1>4 DEF Work, CreateContext, AddLaunchEvent, GetLaunchId, UpdateOpMemInfo,
       ParseMetaData, ArchiveMemInfo, RunDBITask,
       MakeInstrumented, Commit, Clone, Guards, ReportKernelSummary, GetEvent, GetBinary,
       SectionsMalloc, SectionsFree, OpMalloc, OpFree, Overflow, ClearArgsInfo,
       LaunchDumpTask, Sync, ExitAfterProcess, At, NextCall
  <2> HIDE DEF f, g, Touches
  <2> QED BY <1>1, <2>1, <2>2, BufferedKept
<1> QED BY <1>3, <1>4

LEMMA BufferMade ==
    ASSUME NEW t \in Threads, Types, CallInv, ManagerInv(t), BufferInv(t), InitStep(t)
    PROVE  BufferInv(t)'
<1> DEFINE f == call[t]
           g == call'[t]
<1>1. PICK o, e :
         /\ mgr' = [mgr EXCEPT ![t] = o.mgr] /\ bufs' = [bufs EXCEPT ![t] = o.bufs]
         /\ OutcomeWell(mgr[t], bufs[t], f.id, o)
         /\ NextCall(t) = "OuterInit" => Runs(t, e)
         /\ NextCall(t) # "OuterInit" =>
               /\ NextCall(t) = "Init" /\ e.mem = o.ptr
               /\ \/ o.ptr = None /\ Runs(t, e)
                  \/ o.ptr # None /\ Makes(t, e) /\ e.stale = (mgr[t].skip # f.skip)
  BY InitStepFrame DEF MakesQuietly, Makes, Gives
<1>2. mgr'[t] = o.mgr /\ bufs'[t] = o.bufs
  BY <1>1 DEF Types
<1>3. Runs(t, e)
  BY <1>1 DEF Makes
<1>4. g = e /\ g.phase = f.phase /\ g.id = f.id /\ g.skip = f.skip /\ f \in FrameT
      /\ NextCall(t) \in PhaseCalls(f)
  BY <1>3 DEF Runs, Works, SameCall, NextCall
<1>5. SUFFICES Buffered(g, mgr'[t], bufs'[t])
  BY DEF BufferInv, Buffered
<1>6. mgr[t].skip \in BOOLEAN /\ f.skip \in BOOLEAN
  BY <1>4 DEF Types, MgrT, FrameT
<1>7. CASE NextCall(t) = "OuterInit"
  BY <1>4, <1>7, PhaseOf DEF Buffered
<1>8. CASE NextCall(t) # "OuterInit"
  BY <1>1, <1>4, <1>8, PhaseOf, <1>2, <1>6 DEF Buffered, OutcomeWell
<1> QED BY <1>7, <1>8

LEMMA BufferFinalized ==
    ASSUME NEW t \in Threads, Types, CallInv, ManagerInv(t), BufferInv(t), Finalize(t)
    PROVE  BufferInv(t)'
<1> DEFINE f == call[t]
           g == call'[t]
<1>1. PICK e : /\ NextCall(t) \in {"Finalize", "OuterFinalize"} /\ Finalized(t, Given(t), f.id)
               /\ Runs(t, e) /\ Quiet(f, e) /\ Pending(e) = Pending(f) \ {NextCall(t)}
  BY FinalizeFrame
<1>2. /\ g = e /\ f \in FrameT /\ f # NoCall /\ f.todo[1].call = NextCall(t)
      /\ NextCall(t) \in PhaseCalls(f) /\ (f.failed => g.failed)
  BY <1>1 DEF Runs, Works, NextCall
<1>3. SameUse(f, g)
  BY <1>1, <1>2 DEF SameUse, Quiet, SameCall, SameBuffer, SameLookup
<1>4. Buffered(f, mgr[t], bufs[t]) /\ f.id \in Nat /\ bufs' = bufs
      /\ mgr[t].init \in BOOLEAN
  BY <1>2, BufferedIs DEF FrameT, Finalize, Types, MgrT
<1>5. Resized(mgr[t], mgr'[t]) /\ mgr'[t].init = (mgr[t].init /\ ~Sends(t, Given(t)))
  BY <1>1, <1>4, FinalizeMgr
<1>6. NextCall(t) = "Finalize" => f.phase = "post" /\ f.mem # None
  BY <1>2, PhaseOf DEF PhaseCalls, PostCalls
<1>7. f.phase = "post" => NextCall(t) \notin {"Finalize", "ResetMemoryInit"} \/ ~mgr'[t].init
  BY <1>1, <1>4, <1>5, <1>6 DEF Sends, Given
<1>8. SUFFICES Buffered(g, mgr'[t], bufs'[t])
  BY DEF BufferInv, Buffered
<1>9. mgr'[t].init \in BOOLEAN
  BY <1>4, <1>5
<1> HIDE DEF f, g
<1> QED BY <1>2, <1>3, <1>4, <1>5, <1>7, <1>9, BufferedKept DEF Resized

LEMMA BufferExpanded ==
    ASSUME NEW t \in Threads, Types, CallInv, ManagerInv(t), BufferInv(t), ExpandArgs(t)
    PROVE  BufferInv(t)'
<1> DEFINE f == call[t]
           g == call'[t]
<1>1. PICK e : /\ NextCall(t) = "ExpandArgs" /\ Runs(t, e) /\ e.stale = f.stale
               /\ e.mem \in {f.mem, None}
               /\ Finalized(t, f.mem, f.id) \/ mgr' = mgr
  BY ExpandArgsFrame DEF Makes
<1>2. /\ g = e /\ f \in FrameT /\ f # NoCall /\ NextCall(t) \in PhaseCalls(f)
      /\ g.phase = f.phase /\ g.id = f.id /\ g.skip = f.skip
  BY <1>1 DEF Runs, Works, SameCall, NextCall
<1>3. Buffered(f, mgr[t], bufs[t]) /\ f.id \in Nat /\ bufs' = bufs
  BY <1>2, BufferedIs DEF FrameT, ExpandArgs
<1>4. f.phase = "pre"
  BY <1>1, <1>2, PhaseOf
<1>5. mgr'[t].ptr = mgr[t].ptr
  BY <1>1, <1>3, FinalizeMgr DEF Resized
<1>6. SUFFICES Buffered(g, mgr'[t], bufs'[t])
  BY DEF BufferInv, Buffered
<1> QED BY <1>1, <1>2, <1>3, <1>4, <1>5 DEF Buffered

LEMMA BufferFreed ==
    ASSUME NEW t \in Threads, Types, CallInv, ManagerInv(t), BufferInv(t), FreeBuffer(t)
    PROVE  BufferInv(t)'
<1> DEFINE f == call[t]
           g == call'[t]
<1>1. /\ f # NoCall /\ f \in FrameT /\ g # NoCall /\ Buffered(f, mgr[t], bufs[t])
      /\ SameUse(f, g)
  BY WorkCall, BufferedIs, ApartUse, PhaseAt DEF Work, FreeBuffer, InitStep, Finalize, ExpandArgs,
     At
<1>2. f.phase = "end"
  BY PhaseAt, PhaseOf DEF FreeBuffer
<1>3. mgr'[t].init = mgr[t].init
  BY FreeHeld DEF Types, FreeBuffer
<1>4. SUFFICES Buffered(g, mgr'[t], bufs'[t])
  BY DEF BufferInv, Buffered
<1> QED BY <1>1, <1>2, <1>3 DEF Buffered, SameUse

LEMMA BufferWork ==
    ASSUME NEW t \in Threads, Types, CallInv, ManagerInv(t), BufferInv(t), Work(t)
    PROVE  BufferInv(t)'
BY BufferApart, BufferMade, BufferFinalized, BufferExpanded, BufferFreed

-----------------------------------------------------------------------------
(* BufferInv: a call enters its next phase, begins or is overlapped. *)

\* After the launch something is left that makes the buffer invalid.
LEMMA BufferLaunched ==
    ASSUME NEW t \in Threads, NEW g, Enters(t, g), call[t].phase \in {"init", "pre"},
           call[t].phase = "init" => ~call[t].tracked, g.skip = call[t].skip,
           Buffered(call[t], mgr[t], bufs[t]), g.phase \in {"post", "end"},
           g.phase = "post" => Pending(g) = PostCalls(g.hook, g.skip, g.sink, g.mem # None),
           \/ call[t].abort /\ g.failed = call[t].failed
           \/ g.failed = call[t].failed /\ (call[t].tracked => g.phase = "post")
           \/ g.failed
    PROVE  Buffered(g, mgr[t], bufs[t])
<1> DEFINE f == call[t]
<1>1. /\ g.hook = f.hook /\ g.id = f.id /\ g.wrapped = f.wrapped /\ g.tracked = f.tracked
      /\ g.mem = f.mem /\ g.abort = f.abort /\ g.stale = f.stale /\ g.sink = f.sink
      /\ Pending(f) = {} /\ FrameInv(f) /\ g \in FrameT /\ f \in FrameT
  BY EntersSame
<1>2. f.abort => f.failed
  BY <1>1 DEF FrameInv
<1>3. ~f.tracked => f.failed
  BY <1>1 DEF FrameInv
<1>4. f.phase = "init" => f.mem = None
  BY <1>1 DEF FrameInv, Fresh, Early
<1>5. g.wrapped /\ ~g.sink /\ ~g.failed => g.phase = "post"
  BY <1>1, <1>2, <1>3
<1>6. ASSUME g.wrapped, ~g.sink, ~g.failed
      PROVE  Pending(g) \cap {"Finalize", "ResetMemoryInit"} # {}
  <2>1. g.hook \notin TwoRt
    BY <1>1, <1>6 DEF FrameInv, TwoRt, AclHooks
  <2>2. CASE g.skip
    BY <1>5, <1>6, <2>1, <2>2 DEF PostCalls
  <2>3. CASE ~g.skip
    BY <1>1, <1>3, <1>6, <2>3, <1>5 DEF FrameInv, PostCalls
  <2> QED BY <2>2, <2>3
<1> HIDE DEF f
<1>7. Buffered(f, mgr[t], bufs[t]) /\ f.phase \in {"init", "pre"} /\ g.skip = f.skip
  BY DEF f
<1>8. g.phase = "end" => ~(g.wrapped /\ ~g.sink /\ ~g.failed)
  BY <1>5
<1> QED BY <1>1, <1>4, <1>6, <1>7, <1>8 DEF Buffered

LEMMA BufferAdvance ==
    ASSUME NEW t \in Threads, Types, IdsInv, CallInv, BufferInv(t), Advance(t)
    PROVE  BufferInv(t)' /\ UNCHANGED <<mgr, bufs>>
<1>1. UNCHANGED <<mgr, bufs>>
  BY DEF Advance, ToPre, Launch, Moves
<1>2. /\ AtPhaseEnd(t)
      /\ OpenEnds(t) \/ ToPre(t) \/ Launch(t) \/ PostEnds(t) \/ EndEnds(t) \/ Returns(t)
  BY AdvanceCases
<1>3. Buffered(call[t], mgr[t], bufs[t])
  BY <1>2, BufferedIs DEF AtPhaseEnd
<1>4. SUFFICES call'[t] # NoCall => Buffered(call'[t], mgr[t], bufs[t])
  BY <1>1 DEF BufferInv, Buffered
<1>41. \A g : Enters(t, g) => call'[t] = g
  BY DEF Enters
<1>5. CASE OpenEnds(t)
  <2>1. PICK g : Enters(t, g) /\ g.phase = "init"
    BY <1>2, <1>5, OpenEndsFrame
  <2> QED BY <1>41, <2>1 DEF Buffered
<1>6. CASE ToPre(t)
  <2>1. PICK g : Enters(t, g) /\ call[t].phase = "init" /\ g.phase = "pre"
    BY <1>2, <1>6, ToPreFrame
  <2>2. g.mem = None
    BY <2>1, EntersSame DEF FrameInv, Fresh, Early
  <2> QED BY <1>41, <2>1, <2>2 DEF Buffered
<1>7. CASE Launch(t)
  <2>1. PICK g :
       /\ Enters(t, g) /\ call[t].phase \in {"init", "pre"}
       /\ call[t].phase = "init" => ~call[t].tracked
       /\ g.skip = call[t].skip
       /\ \/ g.phase = "end" /\ Pending(g) = {}
          \/ /\ g.phase = "post" /\ g.tracked
             /\ Pending(g) = PostCalls(g.hook, g.skip, g.sink, g.mem # None)
       /\ \/ /\ call[t].abort /\ g.phase = "end" /\ g.failed = call[t].failed
             /\ g.running = call[t].running /\ g.ok = call[t].ok
          \/ /\ ~call[t].abort /\ g.failed = call[t].failed /\ g.running /\ g.ok
             /\ (call[t].tracked => g.phase = "post")
          \/ /\ ~call[t].abort /\ g.failed /\ g.running = call[t].running /\ g.ok = call[t].ok
             /\ (call[t].hook \in RtHooks => g.phase = "post")
    BY <1>2, <1>7, LaunchFrame
  <2>2. Buffered(g, mgr[t], bufs[t])
    BY <1>3, <2>1, BufferLaunched
  <2> QED BY <1>41, <2>1, <2>2
<1>8. CASE PostEnds(t)
  <2>1. PICK g : /\ Enters(t, g) /\ call[t].phase = "post" /\ g.phase = "end"
                 /\ g.failed = call[t].failed
    BY <1>2, <1>8, PostEndsFrame
  <2>2. /\ g.wrapped = call[t].wrapped /\ g.sink = call[t].sink /\ Pending(call[t]) = {}
    BY <2>1, EntersSame
  <2> QED BY <1>3, <1>41, <2>1, <2>2 DEF Buffered
<1>9. CASE EndEnds(t)
  <2>1. PICK g : /\ Enters(t, g) /\ call[t].phase = "end" /\ g.phase = "close"
                 /\ g.failed = call[t].failed
    BY <1>2, <1>9, EndEndsFrame
  <2>2. /\ g.wrapped = call[t].wrapped /\ g.sink = call[t].sink
    BY <2>1, EntersSame
  <2> QED BY <1>3, <1>41, <2>1, <2>2 DEF Buffered
<1>10. CASE Returns(t)
  BY <1>10 DEF Returns, Types
<1> QED BY <1>2, <1>5, <1>6, <1>7, <1>8, <1>9, <1>10

LEMMA BufferBegin ==
    ASSUME NEW t \in Threads, Types, CallInv, \A u \in Threads : BufferInv(u), Begin(t)
    PROVE  \A u \in Threads : BufferInv(u)'
<1>1. UNCHANGED <<mgr, bufs>>
  BY DEF Begin
<1>2. PICK g : call'[t] = g /\ Opened(g)
  BY BeginFrame
<1>3. BufferInv(t)'
  BY <1>2 DEF BufferInv, Opened
<1>4. ASSUME NEW u \in Threads, u # t
      PROVE  BufferInv(u)'
  <2>1. CASE call[u] = NoCall
    BY <1>4, <2>1, BeginFrame DEF BufferInv
  <2>2. CASE call[u] # NoCall
    <3>1. Marked(call[u], call'[u])
      BY <1>4, <2>2, BeginFrame
    <3>2. Buffered(call[u], mgr[u], bufs[u])
      BY <2>2, BufferedIs
    <3>3. Pending(call'[u]) = Pending(call[u])
      BY <2>2, <3>1, MarkedFrame DEF CallInv
    <3>4. Buffered(call'[u], mgr[u], bufs[u])
      BY <3>1, <3>2, <3>3 DEF Marked, Buffered, SameBuffer, SameLookup
    <3> QED BY <1>1, <3>4 DEF BufferInv, Buffered
  <2> QED BY <2>1, <2>2
<1> QED BY <1>3, <1>4

-----------------------------------------------------------------------------
(* The invariant, over every step. *)

LEMMA InitWorld == ASSUME Init PROVE BufferWorld
<1>1. call = [t \in Threads |-> NoCall] /\ mgr = [t \in Threads |-> NoMgr]
      /\ bufs = [t \in Threads |-> <<>>] /\ info = <<>>
  BY DEF Init
<1>2. CountTypes
  BY ScenarioAssumption DEF CountTypes, Init
<1>3. ManagerTypes
  <2>1. NoMgr \in MgrT /\ <<>> \in Seq(BufT)
    BY DEF NoMgr, MgrT, None
  <2> HIDE DEF MgrT, BufT
  <2> QED BY <1>1, <2>1 DEF ManagerTypes, Init
<1>4. DeviceTypes
  BY DEF DeviceTypes, Init, DevT, None
<1>5. RecordTypes
  <2>1. info = <<>> /\ reports = <<>> /\ dumps = <<>> /\ done = <<>>
        /\ kill = FALSE /\ dead = FALSE
    BY DEF Init
  <2>2. /\ <<>> \in Seq([skip : BOOLEAN, sink : BOOLEAN]) /\ <<>> \in Seq(Nat)
        /\ <<>> \in Seq(Seq(Nat)) /\ <<>> \in Seq(FrameT \cup {NoCall})
    OBVIOUS
  <2> QED BY <2>1, <2>2 DEF RecordTypes
<1>6. Types
  BY <1>1, <1>2, <1>3, <1>4, <1>5, TypesParts
<1>7. IdsInv
  BY <1>1 DEF IdsInv, Init, Ids, None
<1>8. CallInv /\ Buffer
  BY <1>1 DEF CallInv, Buffer, BufferInv, ManagerInv, Held, NoMgr
<1> QED BY <1>6, <1>7, <1>8 DEF BufferWorld

LEMMA WorldWork ==
    ASSUME NEW t \in Threads, BufferWorld, Work(t)
    PROVE  BufferWorld'
<1>1. Types /\ IdsInv /\ CallInv /\ ManagerInv(t) /\ BufferInv(t)
  BY DEF BufferWorld, Buffer
<1>2. Types' /\ IdsInv' /\ CallInv' /\ ManagerInv(t)' /\ BufferInv(t)' /\ Others(t)
  BY <1>1, TypesWork, IdsWork, WorkCall, ManagerWork, BufferWork
<1>3. \A u \in Threads : u # t => mgr'[u] = mgr[u] /\ bufs'[u] = bufs[u]
  BY <1>1, WorkLocal
<1>4. ASSUME NEW u \in Threads, u # t
      PROVE  ManagerInv(u)' /\ BufferInv(u)'
  BY <1>2, <1>3, <1>4 DEF Others, BufferWorld, Buffer, ManagerInv, BufferInv
<1>5. Buffer'
  BY <1>2, <1>4 DEF Buffer
<1> QED BY <1>2, <1>5 DEF BufferWorld

LEMMA WorldAdvance ==
    ASSUME NEW t \in Threads, BufferWorld, Advance(t)
    PROVE  BufferWorld'
<1>1. Types /\ IdsInv /\ CallInv /\ BufferInv(t)
  BY DEF BufferWorld, Buffer
<1>2. Types' /\ IdsInv' /\ CallInv' /\ BufferInv(t)' /\ Others(t) /\ UNCHANGED <<mgr, bufs>>
  BY <1>1, TypesAdvance, IdsAdvance, AdvanceCall, BufferAdvance
<1>3. ASSUME NEW u \in Threads
      PROVE  ManagerInv(u)' /\ (u # t => BufferInv(u)')
  BY <1>2 DEF Others, BufferWorld, Buffer, ManagerInv, BufferInv
<1>4. Buffer'
  BY <1>2, <1>3 DEF Buffer
<1> QED BY <1>2, <1>4 DEF BufferWorld

LEMMA WorldBegin ==
    ASSUME NEW t \in Threads, BufferWorld, Begin(t)
    PROVE  BufferWorld'
<1>1. Types /\ IdsInv /\ CallInv /\ Buffer
  BY DEF BufferWorld
<1>2. Types' /\ IdsInv' /\ CallInv' /\ UNCHANGED <<mgr, bufs>>
  BY <1>1, TypesBegin, IdsBegin, BeginCall
<1>3. \A u \in Threads : BufferInv(u)'
  BY <1>1, BufferBegin DEF Buffer
<1>4. Buffer'
  BY <1>1, <1>2, <1>3 DEF Buffer, ManagerInv
<1> QED BY <1>2, <1>4 DEF BufferWorld

LEMMA WorldKept ==
    ASSUME BufferWorld, Kept, kill' \in BOOLEAN
    PROVE  BufferWorld'
<1>1. Types'
  BY DEF BufferWorld, Types, Kept
<1>2. IdsInv'
  BY DEF BufferWorld, IdsInv, FrameIds, Ids, Kept
<1>3. CallInv'
  BY DEF BufferWorld, CallInv, Kept
<1>4. Buffer'
  BY DEF BufferWorld, Buffer, ManagerInv, BufferInv, Kept
<1> QED BY <1>1, <1>2, <1>3, <1>4 DEF BufferWorld

LEMMA NextCases ==
    ASSUME Next
    PROVE  Interrupt \/ \E t \in Threads : Begin(t) \/ Advance(t) \/ Work(t)
BY DEF Next, Work

LEMMA WorldNext ==
    ASSUME BufferWorld, [Next]_vars
    PROVE  BufferWorld'
BY WorldKept, WorldWork, WorldAdvance, WorldBegin, NextCases DEF vars, Kept, BufferWorld, Types,
   Interrupt

\* The inductive invariant of the record buffer: where a call stands in its
\* script, what each thread's DevMemManager holds for it, and the records its
\* kernel writes into.
THEOREM BufferWorldHolds == Spec => []BufferWorld
<1>1. Init => BufferWorld
  BY InitWorld
<1>2. BufferWorld /\ [Next]_vars => BufferWorld'
  BY WorldNext
<1> QED BY <1>1, <1>2, PTL DEF Spec

-----------------------------------------------------------------------------
(* What the invariant says of the properties. *)

LEMMA WorldTypeOK == ASSUME BufferWorld PROVE TypeOK
<1>1. Types /\ IdsInv
  BY DEF BufferWorld
<1>2. ASSUME NEW t \in Threads
      PROVE  /\ mgr[t].ptr \in 0..Len(bufs[t]) /\ dbi[t] \in {"off", "named", "all"}
             /\ \A i \in DOMAIN bufs[t] : bufs[t][i].heads \in 0..Len(info)
             /\ call[t] = NoCall \/ (call[t].id \in Ids /\ call[t].hook \in Hooks)
  <2>1. mgr[t] \in MgrT /\ bufs[t] \in Seq(BufT) /\ Held(mgr[t], bufs[t])
    BY <1>1 DEF BufferWorld, Buffer, ManagerInv, Types
  <2>2. mgr[t].ptr \in 0..Len(bufs[t])
    BY <2>1 DEF Held, MgrT, None
  <2>3. dbi[t] \in {"off", "named", "all"} /\ \A i \in DOMAIN bufs[t] : bufs[t][i].heads \in 0..Len(info)
    BY <1>1 DEF Types, IdsInv
  <2>4. call[t] = NoCall \/ (call[t].id \in Ids /\ call[t].hook \in Hooks)
    BY <1>1 DEF Types, IdsInv, FrameIds, FrameT
  <2> QED BY <2>2, <2>3, <2>4
<1>3. /\ left \in Nat /\ fails \in Nat /\ scen \in Scenarios
      /\ Len(reports) = Len(info) /\ Len(dumps) = Len(info) /\ Len(done) = Len(info)
      /\ configured \in BOOLEAN /\ kill \in BOOLEAN /\ dead \in BOOLEAN
  BY <1>1 DEF Types
<1>4. /\ \A a \in {"acl", "rt"} : dev[a].args \in 0..Len(info) /\ dev[a].ops \subseteq Ids
      /\ told.announced \subseteq Ids /\ told.ops \subseteq Ids
  BY <1>1 DEF IdsInv
<1> QED BY <1>2, <1>3, <1>4 DEF TypeOK

LEMMA CallWorld ==
    ASSUME BufferWorld, NEW t \in Threads, call[t] # NoCall
    PROVE  /\ call[t] \in FrameT /\ ScriptInv(call[t]) /\ FrameInv(call[t])
           /\ Held(mgr[t], bufs[t]) /\ Buffered(call[t], mgr[t], bufs[t])
BY BufferedIs DEF BufferWorld, Types, CallInv, Buffer, ManagerInv

LEMMA WorldRunning == ASSUME BufferWorld PROVE RunningHaveBuffer
<1> SUFFICES ASSUME NEW t \in Threads, call[t] # NoCall, call[t].running,
                    call[t].arg # None, ~call[t].skip
             PROVE  bufs[t][call[t].arg].live
  BY DEF RunningHaveBuffer
<1> DEFINE f == call[t]
<1>1. f \in FrameT /\ FrameInv(f) /\ Held(mgr[t], bufs[t]) /\ Buffered(f, mgr[t], bufs[t])
  BY CallWorld
<1>2. f.running /\ f.arg # None /\ ~f.skip
  OBVIOUS
<1>3. f.phase \in {"open", "init", "pre", "post", "end", "close"}
  BY <1>1 DEF FrameT
<1> HIDE DEF f
<1>4. f.phase = "post" /\ f.arg = f.mem
  BY <1>1, <1>2, <1>3 DEF FrameInv, Fresh, Early
<1>5. f.arg = mgr[t].ptr
  BY <1>1, <1>2, <1>4 DEF Buffered
<1>6. bufs[t][f.arg].live
  BY <1>1, <1>2, <1>5 DEF Held
<1> QED BY <1>6 DEF f

LEMMA WorldFinalize == ASSUME BufferWorld PROVE FinalizeReadsOwn
<1> SUFFICES ASSUME NEW t \in Threads,
                    NEW ptr, ptr = IF At(t, "Finalize") THEN call[t].mem ELSE call[t].outer,
                    At(t, "Finalize") \/ At(t, "OuterFinalize"), Sends(t, ptr),
                    IF At(t, "OuterFinalize") THEN ~call[t].sink /\ ~call[t].failed
                    ELSE ~call[t].stale
             PROVE  Headed(t, ptr, call[t].id)
  BY DEF FinalizeReadsOwn
<1>1. /\ call[t] \in FrameT /\ FrameInv(call[t]) /\ ScriptInv(call[t])
      /\ Held(mgr[t], bufs[t]) /\ Buffered(call[t], mgr[t], bufs[t])
  BY CallWorld DEF At
<1>2. Types /\ CallInv
  BY DEF BufferWorld
<1>3. CASE At(t, "OuterFinalize")
  BY <1>1, <1>2, <1>3, PhaseAt, PhaseOf DEF PhaseCalls, Buffered, Sends
<1>4. CASE ~At(t, "OuterFinalize")
  <2>1. At(t, "Finalize") /\ ptr = call[t].mem /\ ~call[t].stale /\ ptr # None
    BY <1>4 DEF Sends
  <2>2. "Finalize" \in PhaseCalls(call[t]) /\ call[t].phase = "post"
    BY <1>1, <1>2, <2>1, PhaseAt, PhaseOf
  <2>3. ~call[t].skip
    BY <2>2 DEF PhaseCalls, PostCalls
  <2>4. ptr = mgr[t].ptr /\ bufs[t][ptr].heads = call[t].id
    BY <1>1, <2>1, <2>2, <2>3 DEF Buffered
  <2> QED BY <1>1, <2>1, <2>4 DEF Held, Headed
<1> QED BY <1>3, <1>4

LEMMA WorldHeads == ASSUME BufferWorld PROVE CheckedHasHeads
<1> SUFFICES ASSUME NEW t \in Threads, AtLaunch(t), ReadsRecords(call[t]), ~call[t].skip,
                    ~call[t].stale, ~FailedUnprepared(call[t]),
                    ~(call[t].static /\ call[t].sink)
             PROVE  Headed(t, call[t].arg, call[t].id)
  BY DEF CheckedHasHeads
<1> DEFINE f == call[t]
<1>1. f \in FrameT /\ FrameInv(f) /\ Held(mgr[t], bufs[t]) /\ Buffered(f, mgr[t], bufs[t])
  BY CallWorld DEF AtLaunch
<1>2. /\ f.phase = "pre" /\ ~f.abort /\ ~f.skip /\ ~f.stale /\ ~(f.static /\ f.sink)
      /\ ReadsRecords(f) /\ ~FailedUnprepared(f)
  BY DEF AtLaunch
<1>3. Pending(f) = {}
  BY EmptyPending DEF AtLaunch, Pending
<1> HIDE DEF f
<1>4. ~f.sink
  BY <1>1, <1>2 DEF FrameInv, ReadsRecords
<1>5. f.arg # None
  <2>1. CASE f.failed
    <3>1. CASE f.hook \notin InstrumentsFirst /\ f.inst
      BY <1>1, <1>2, <3>1 DEF FrameInv
    <3>2. CASE ~(f.hook \notin InstrumentsFirst /\ f.inst)
      BY <1>2, <2>1, <3>2, <1>1 DEF FailedUnprepared, ReadsRecords, FrameInv
    <3> QED BY <3>1, <3>2
  <2>2. CASE ~f.failed
    BY <1>1, <1>2, <1>3, <1>4, <2>2 DEF FrameInv
  <2> QED BY <2>1, <2>2
<1>6. f.arg = f.mem
  BY <1>1, <1>5 DEF FrameInv
<1>7. f.mem = mgr[t].ptr /\ bufs[t][f.mem].heads = f.id
  BY <1>1, <1>2, <1>5, <1>6 DEF Buffered
<1>8. bufs[t][f.mem].live
  BY <1>1, <1>5, <1>6, <1>7 DEF Held
<1> QED BY <1>5, <1>6, <1>7, <1>8 DEF Headed, f

\* Whatever was launched, skipped, refused or failed before, and whatever other
\* threads do: a kernel that writes records is handed to the library with the
\* address of a buffer whose heads were written for this very launch.
THEOREM HeadsHold == Spec => []CheckedHasHeads
<1>1. BufferWorld => CheckedHasHeads
  BY WorldHeads
<1> QED BY <1>1, BufferWorldHolds, PTL

\* The record buffer of a running kernel is allocated, and what
\* __sanitizer_finalize reads was written for the launch it reports.
THEOREM BuffersAreSound == Spec => []BufferSound
<1>1. BufferWorld => BufferSound
  BY WorldTypeOK, WorldRunning, WorldFinalize DEF BufferSound
<1> QED BY <1>1, BufferWorldHolds, PTL

-----------------------------------------------------------------------------
(* Reports: whose launch it is, how often it was reported, what was announced. *)

\* What a step of the script leaves alone.
LEMMA OkKept ==
    ASSUME NEW t \in Threads, Types, CallInv, ManagerInv(t), Work(t)
    PROVE  call'[t].ok = call[t].ok
<1>1. ASSUME NEW g, Gives(t, g) \/ MakesQuietly(t, g) \/ (Runs(t, g) /\ g.ok = call[t].ok)
      PROVE  call'[t].ok = call[t].ok
  BY <1>1 DEF Gives, MakesQuietly, Makes, Quiet, SameCourse, Runs
<1>2. CASE CreateContext(t) \/ GetLaunchId(t) \/ SectionsMalloc(t) \/ GetEvent(t) \/ ParseMetaData(t)
  <2>1. PICK g : Gives(t, g) \/ (Makes(t, g) /\ SameCourse(call[t], g))
    BY <1>2, CreateContextFrame, GetLaunchIdFrame, SectionsMallocFrame, GetEventFrame,
       ParseMetaDataFrame
  <2> QED BY <1>1, <2>1 DEF SameCourse, Makes
<1>3. CASE RunDBITask(t) \/ MakeInstrumented(t) \/ Commit(t)
  <2>1. PICK g : Gives(t, g) \/ MakesQuietly(t, g) \/ (Makes(t, g) /\ SameCourse(call[t], g))
    BY <1>3, RunDBITaskFrame, MakeInstrumentedFrame, CommitFrame
  <2> QED BY <1>1, <2>1 DEF SameCourse, Makes
<1>4. CASE AddLaunchEvent(t) \/ Clone(t) \/ GetBinary(t) \/ QuietActions(t) \/ Guards(t)
  <2>1. PICK g : Gives(t, g) \/ MakesQuietly(t, g)
    BY <1>4, AddLaunchEventFrame, CloneFrame, GetBinaryFrame, QuietFrame, GuardsFrame
  <2> QED BY <1>1, <2>1
<1>5. CASE Sync(t) \/ LaunchDumpTask(t)
  <2>1. PICK g : Makes(t, g) /\ g.ok = call[t].ok
    BY <1>5, SyncFrame, LaunchDumpTaskFrame
  <2> QED BY <1>1, <2>1 DEF Makes
<1>6. CASE InitStep(t)
  <2>1. PICK g : Gives(t, g) \/ MakesQuietly(t, g) \/ (Runs(t, g) /\ SameCourse(call[t], g))
    BY <1>6, InitStepFrame DEF Makes
  <2> QED BY <1>1, <2>1 DEF SameCourse
<1>7. CASE Finalize(t)
  <2>1. PICK g : Runs(t, g) /\ Quiet(call[t], g)
    BY <1>7, FinalizeFrame
  <2> QED BY <1>1, <2>1 DEF Quiet, SameCourse
<1>8. CASE ExpandArgs(t)
  <2>1. PICK g : Runs(t, g) /\ SameCourse(call[t], g)
    BY <1>8, ExpandArgsFrame DEF Makes
  <2> QED BY <1>1, <2>1 DEF SameCourse
<1> QED BY <1>2, <1>3, <1>4, <1>5, <1>6, <1>7, <1>8 DEF Work, QuietActions

LEMMA EventKept ==
    ASSUME NEW t \in Threads, Types, CallInv, ManagerInv(t), Work(t),
           ~(CreateContext(t) \/ GetLaunchId(t))
    PROVE  call'[t].event = call[t].event
<1>1. ASSUME NEW g, Gives(t, g) \/ MakesQuietly(t, g) \/ (Runs(t, g) /\ g.event = call[t].event)
      PROVE  call'[t].event = call[t].event
  BY <1>1 DEF Gives, MakesQuietly, Makes, Quiet, SameLookup, Runs
<1>2. CASE SectionsMalloc(t) \/ GetEvent(t) \/ ParseMetaData(t)
  <2>1. PICK g : Gives(t, g) \/ (Makes(t, g) /\ g.event = call[t].event)
    BY <1>2, SectionsMallocFrame, GetEventFrame, ParseMetaDataFrame
  <2> QED BY <1>1, <2>1 DEF Makes
<1>3. CASE RunDBITask(t) \/ MakeInstrumented(t) \/ Commit(t)
  <2>1. PICK g : Gives(t, g) \/ MakesQuietly(t, g) \/ (Makes(t, g) /\ SameLookup(call[t], g))
    BY <1>3, RunDBITaskFrame, MakeInstrumentedFrame, CommitFrame
  <2> QED BY <1>1, <2>1 DEF SameLookup, Makes
<1>4. CASE AddLaunchEvent(t) \/ Clone(t) \/ GetBinary(t) \/ QuietActions(t) \/ Guards(t)
  <2>1. PICK g : Gives(t, g) \/ MakesQuietly(t, g)
    BY <1>4, AddLaunchEventFrame, CloneFrame, GetBinaryFrame, QuietFrame, GuardsFrame
  <2> QED BY <1>1, <2>1
<1>5. CASE Sync(t) \/ LaunchDumpTask(t)
  <2>1. PICK g : Makes(t, g) /\ SameLookup(call[t], g)
    BY <1>5, SyncFrame, LaunchDumpTaskFrame
  <2> QED BY <1>1, <2>1 DEF Makes, SameLookup
<1>6. CASE InitStep(t)
  <2>1. PICK g : Gives(t, g) \/ MakesQuietly(t, g) \/ (Runs(t, g) /\ SameLookup(call[t], g))
    BY <1>6, InitStepFrame DEF Makes
  <2> QED BY <1>1, <2>1 DEF SameLookup
<1>7. CASE Finalize(t)
  <2>1. PICK g : Runs(t, g) /\ Quiet(call[t], g)
    BY <1>7, FinalizeFrame
  <2> QED BY <1>1, <2>1 DEF Quiet, SameLookup
<1>8. CASE ExpandArgs(t)
  <2>1. PICK g : Runs(t, g) /\ SameLookup(call[t], g)
    BY <1>8, ExpandArgsFrame DEF Makes
  <2> QED BY <1>1, <2>1 DEF SameLookup
<1> QED BY <1>2, <1>3, <1>4, <1>5, <1>6, <1>7, <1>8 DEF Work, QuietActions

\* The stream's model is looked up before SanitizerPre only.
LEMMA SinkKept ==
    ASSUME NEW t \in Threads, Types, CallInv, ManagerInv(t), Work(t), call[t].phase # "init"
    PROVE  call'[t].sink = call[t].sink
<1>1. CASE ~(InitStep(t) \/ Finalize(t) \/ ExpandArgs(t))
  BY <1>1, ApartUse DEF SameUse
<1>2. CASE InitStep(t)
  <2>1. PICK g : Gives(t, g) \/ MakesQuietly(t, g) \/ (Runs(t, g) /\ SameLookup(call[t], g))
    BY <1>2, InitStepFrame DEF Makes
  <2> QED BY <2>1 DEF SameLookup, Gives, MakesQuietly, Makes, Quiet, Runs
<1>3. CASE Finalize(t)
  <2>1. PICK g : Runs(t, g) /\ Quiet(call[t], g)
    BY <1>3, FinalizeFrame
  <2> QED BY <2>1 DEF Quiet, SameLookup, Runs
<1>4. CASE ExpandArgs(t)
  <2>1. PICK g : Runs(t, g) /\ SameLookup(call[t], g)
    BY <1>4, ExpandArgsFrame DEF Makes
  <2> QED BY <2>1 DEF SameLookup, Runs
<1> QED BY <1>1, <1>2, <1>3, <1>4

\* Only __sanitizer_finalize reports.
LEMMA ReportsKept ==
    ASSUME NEW t \in Threads, Work(t), ~(Finalize(t) \/ ExpandArgs(t))
    PROVE  reports' = reports
BY ApartWork DEF InitStep, SetSkipKernelFlag, ResetMemoryInit, FreeBuffer, Apart

LEMMA FinalizedReports ==
    ASSUME NEW t \in Threads, NEW ptr, NEW id \in Ids, Types, Finalized(t, ptr, id)
    PROVE  /\ reports'[id] = IF Sends(t, ptr) THEN reports[id] + 1 ELSE reports[id]
           /\ \A j \in Ids : j # id => reports'[j] = reports[j]
BY DEF Types, Ids, Finalized

LEMMA ReportsOwn ==
    ASSUME NEW t \in Threads, Types, IdsInv, CallInv, ManagerInv(t), Work(t)
    PROVE  \A j \in Ids : j # call[t].id => reports'[j] = reports[j]
<1>1. call[t].id \in Ids
  BY WorkCall DEF IdsInv, FrameIds
<1>2. CASE ~(Finalize(t) \/ ExpandArgs(t))
  BY <1>2, ReportsKept
<1>3. CASE Finalize(t)
  BY <1>1, <1>3, FinalizeFrame, FinalizedReports
<1>4. CASE ExpandArgs(t)
  BY <1>4, <1>1, FinalizedReports DEF ExpandArgs
<1> QED BY <1>2, <1>3, <1>4

LEMMA ReportsNat == ASSUME Types, NEW j \in Ids PROVE reports[j] \in Nat
BY DEF Types, Ids

LEMMA ReportingKept ==
    ASSUME NEW f, NEW g, NEW i \in BOOLEAN, NEW j \in BOOLEAN, NEW n \in Nat,
           SameUse(f, g), g.ok = f.ok, Reporting(f, i, n),
           f.todo[1].call \in Pending(f), f.todo[1].call # "Finalize",
           j = i \/ f.phase = "end" \/ (f.phase = "post" /\ f.skip /\ ~j),
           j => i
    PROVE  Reporting(g, j, n)
BY DEF SameUse, Reporting, Early

LEMMA ReportApart ==
    ASSUME NEW t \in Threads, Types, IdsInv, CallInv, ManagerInv(t), ReportInv(t), Work(t),
           ~(InitStep(t) \/ Finalize(t) \/ ExpandArgs(t))
    PROVE  ReportInv(t)'
<1> DEFINE f == call[t]
           g == call'[t]
<1>1. /\ f # NoCall /\ g # NoCall /\ SameUse(f, g) /\ g.ok = f.ok /\ g.id = f.id
      /\ f.todo[1].call = NextCall(t) /\ f.todo[1].call \in Pending(f)
  BY WorkCall, ApartUse, OkKept DEF NextCall, Runs, Works, SameUse
<1>2. /\ mgr[t].init \in BOOLEAN /\ mgr'[t].init \in BOOLEAN /\ f.id \in Ids
      /\ reports[f.id] \in Nat /\ reports' = reports
  <2>1. f.id \in Ids
    BY <1>1 DEF IdsInv, FrameIds
  <2> QED BY <2>1, ManagerTypesWork, ReportsKept, ReportsNat DEF ManagerTypes, Types, MgrT
<1>3. f.todo[1].call # "Finalize"
  BY <1>1 DEF Work, CreateContext, AddLaunchEvent, GetLaunchId, UpdateOpMemInfo,
     ParseMetaData, ArchiveMemInfo, SetSkipKernelFlag, ResetMemoryInit, FreeBuffer, RunDBITask,
     MakeInstrumented, Commit, Clone, Guards, ReportKernelSummary, GetEvent, GetBinary,
     SectionsMalloc, SectionsFree, OpMalloc, OpFree, Overflow, ClearArgsInfo,
     LaunchDumpTask, Sync, ExitAfterProcess, At
<1>4. \/ mgr'[t].init = mgr[t].init
      \/ f.phase = "post" /\ f.skip /\ ~mgr'[t].init
  <2>1. CASE SetSkipKernelFlag(t) \/ ResetMemoryInit(t)
    <3>1. mgr'[t].init = (mgr[t].init /\ ~ResetMemoryInit(t))
      BY <2>1, FlagMgr
    <3>2. ResetMemoryInit(t) => "ResetMemoryInit" \in PhaseCalls(f) /\ f.phase = "post"
      BY PhaseAt, PhaseOf DEF ResetMemoryInit
    <3>3. ResetMemoryInit(t) => f.skip
      BY <3>2 DEF PhaseCalls, PostCalls
    <3> QED BY <1>2, <3>1, <3>2, <3>3
  <2>2. CASE FreeBuffer(t)
    BY <2>2, FreeHeld DEF FreeBuffer, Types
  <2>3. CASE ~(SetSkipKernelFlag(t) \/ ResetMemoryInit(t) \/ FreeBuffer(t))
    BY <2>3, ApartWork DEF Apart
  <2> QED BY <2>1, <2>2, <2>3
<1>5. Reporting(f, mgr[t].init, reports[f.id])
  BY <1>1 DEF ReportInv
<1> HIDE DEF f, g
<1>6. Reporting(g, mgr'[t].init, reports[f.id])
  BY <1>1, <1>2, <1>3, <1>4, <1>5, ReportingKept
<1> QED BY <1>1, <1>2, <1>6 DEF f, g, ReportInv, Reporting

LEMMA ReportMade ==
    ASSUME NEW t \in Threads, Types, IdsInv, CallInv, ManagerInv(t), ReportInv(t), InitStep(t)
    PROVE  ReportInv(t)'
<1> DEFINE f == call[t]
           g == call'[t]
<1>1. PICK o, e :
         /\ mgr' = [mgr EXCEPT ![t] = o.mgr]
         /\ OutcomeWell(mgr[t], bufs[t], f.id, o)
         /\ NextCall(t) = "OuterInit" => Runs(t, e)
         /\ NextCall(t) # "OuterInit" =>
               /\ NextCall(t) = "Init" /\ e.mem = o.ptr
               /\ \/ o.ptr = None /\ Runs(t, e)
                  \/ o.ptr # None /\ Makes(t, e) /\ e.stale = (mgr[t].skip # f.skip)
  BY InitStepFrame DEF MakesQuietly, Makes, Gives
<1>2. mgr'[t] = o.mgr
  BY <1>1 DEF Types
<1>3. Runs(t, e)
  BY <1>1 DEF Makes
<1>4. /\ g = e /\ g.phase = f.phase /\ g.id = f.id /\ g.skip = f.skip /\ f \in FrameT
      /\ NextCall(t) \in PhaseCalls(f) /\ NextCall(t) \in Pending(f) /\ f # NoCall
  BY <1>3 DEF Runs, Works, SameCall, NextCall
<1>5. mgr[t].skip \in BOOLEAN /\ f.skip \in BOOLEAN
  BY <1>4 DEF Types, MgrT, FrameT
<1>6. reports' = reports /\ reports[f.id] \in Nat
  BY <1>4, ReportsNat DEF IdsInv, FrameIds, InitStep
<1>7. Reporting(f, mgr[t].init, reports[f.id])
  BY <1>4 DEF ReportInv
<1>8. SUFFICES Reporting(g, mgr'[t].init, reports[f.id])
  BY <1>4, <1>6 DEF ReportInv, Reporting
<1>9. CASE NextCall(t) = "OuterInit"
  BY <1>4, <1>9, PhaseOf, <1>7 DEF Reporting, Early
<1>10. CASE NextCall(t) # "OuterInit"
  BY <1>1, <1>4, <1>6, <1>7, <1>10, PhaseOf, <1>2, <1>5 DEF Reporting, OutcomeWell, Early
<1> QED BY <1>9, <1>10

LEMMA ReportFinalized ==
    ASSUME NEW t \in Threads, Types, IdsInv, CallInv, ManagerInv(t), BufferInv(t), ReportInv(t),
           Finalize(t)
    PROVE  ReportInv(t)'
<1> DEFINE f == call[t]
           g == call'[t]
           n == reports[f.id]
<1>1. PICK e : /\ NextCall(t) \in {"Finalize", "OuterFinalize"} /\ Finalized(t, Given(t), f.id)
               /\ Runs(t, e) /\ Quiet(f, e) /\ Pending(e) = Pending(f) \ {NextCall(t)}
  BY FinalizeFrame
<1>2. /\ g = e /\ f \in FrameT /\ f # NoCall /\ g # NoCall /\ f.id \in Ids
      /\ NextCall(t) \in PhaseCalls(f) /\ (f.failed => g.failed)
  BY <1>1, WorkCall DEF Runs, Works, NextCall, IdsInv, FrameIds, Work
<1>3. /\ g.phase = f.phase /\ g.id = f.id /\ g.wrapped = f.wrapped /\ g.skip = f.skip
      /\ g.mem = f.mem /\ g.stale = f.stale /\ g.sink = f.sink /\ g.ok = f.ok
      /\ Pending(g) = Pending(f) \ {NextCall(t)}
  BY <1>1, <1>2 DEF Quiet, SameCall, SameBuffer, SameLookup, SameCourse
<1>4. Buffered(f, mgr[t], bufs[t]) /\ Reporting(f, mgr[t].init, n)
  BY <1>2, BufferedIs DEF ReportInv
<1>5. f.id \in Nat /\ n \in Nat /\ mgr[t].init \in BOOLEAN
  BY <1>2 DEF FrameT, Types, MgrT, Ids
<1>6. /\ mgr'[t].init = (mgr[t].init /\ ~Sends(t, Given(t)))
      /\ reports'[f.id] = IF Sends(t, Given(t)) THEN n + 1 ELSE n
  BY <1>1, <1>2, <1>5, FinalizeMgr, FinalizedReports
<1>7. \/ NextCall(t) = "Finalize" /\ f.phase = "post" /\ f.mem # None /\ ~f.skip
      \/ NextCall(t) = "OuterFinalize" /\ f.phase = "close" /\ f.wrapped
  BY <1>2, PhaseOf, <1>1 DEF PhaseCalls, PostCalls
<1>8. SUFFICES Reporting(g, mgr'[t].init, reports'[f.id])
  BY <1>3 DEF ReportInv, Reporting
<1>9. Sends(t, Given(t)) <=> mgr[t].init /\ Given(t) # None
  BY DEF Sends
<1>10. NextCall(t) = "Finalize" => Given(t) = f.mem
  BY DEF Given
<1>11. Sends(t, Given(t)) \in BOOLEAN
  BY <1>5 DEF Sends
<1> HIDE DEF f, g, n
<1>12. CASE Sends(t, Given(t))
  <2>1. n = 0 /\ mgr[t].init
    BY <1>4, <1>5, <1>9, <1>12 DEF Reporting
  <2>2. mgr'[t].init = FALSE /\ reports'[f.id] = 1
    <3>1. mgr'[t].init = FALSE
      BY <1>6, <1>12, Zenon
    <3>2. reports'[f.id] = n + 1
      BY <1>6, <1>12, Zenon
    <3> QED BY <2>1, <3>1, <3>2
  <2>3. g.phase \in {"post", "close"} /\ ~(g.skip /\ ~g.sink /\ ~g.failed)
    BY <1>2, <1>3, <1>4, <1>7, <2>1 DEF Buffered
  <2> QED BY <2>2, <2>3 DEF Reporting, Early
<1>13. CASE ~Sends(t, Given(t))
  <2>1. mgr'[t].init = mgr[t].init /\ reports'[f.id] = n
    BY <1>5, <1>6, <1>13
  <2>2. NextCall(t) = "Finalize" => ~mgr[t].init
    BY <1>7, <1>9, <1>10, <1>13
  <2>3. CASE NextCall(t) = "Finalize"
    BY <1>2, <1>3, <1>4, <1>5, <1>7, <2>1, <2>2, <2>3 DEF Reporting, Early
  <2>4. CASE NextCall(t) # "Finalize"
    BY <1>2, <1>3, <1>4, <1>5, <1>7, <2>1, <2>4 DEF Reporting, Early
  <2> QED BY <2>3, <2>4
<1> QED BY <1>12, <1>13

LEMMA ReportExpanded ==
    ASSUME NEW t \in Threads, Types, IdsInv, CallInv, ManagerInv(t), ReportInv(t), ExpandArgs(t)
    PROVE  ReportInv(t)'
<1> DEFINE f == call[t]
           g == call'[t]
           n == reports[f.id]
<1>1. PICK e :
        /\ NextCall(t) = "ExpandArgs" /\ Runs(t, e) /\ e.stale = f.stale
        /\ SameCourse(f, e) /\ SameLookup(f, e)
        /\ \/ e.mem = f.mem /\ UNCHANGED <<mgr, reports>>
           \/ e.mem = None /\ e.failed /\ Pending(e) = {} /\ Finalized(t, f.mem, f.id)
  <2>1. PICK e :
                /\ SameCourse(call[t], e) /\ SameLookup(call[t], e)
                /\ e.stale = call[t].stale
                /\ \/ /\ Makes(t, e) /\ e.mem = call[t].mem
                      /\ UNCHANGED <<fails, mgr, dbi, configured, reports>>
                   \/ /\ Runs(t, e) /\ e.failed
                      /\ Mode(t) # "go" => Pending(e) = {}
                      /\ Mode(t) = "undo" =>
                            /\ e.mem = None
                            /\ Finalized(t, call[t].mem, call[t].id)
                      /\ Mode(t) # "undo" =>
                            /\ e.mem = call[t].mem
                            /\ UNCHANGED <<mgr, dbi, configured, reports>>
    BY ExpandArgsFrame
  <2>2. NextCall(t) = "ExpandArgs"
    BY ExpandArgsFrame
  <2> QED BY <2>1, <2>2 DEF Makes
<1>2. /\ g = e /\ f \in FrameT /\ f # NoCall /\ g # NoCall /\ f.id \in Ids
      /\ NextCall(t) \in PhaseCalls(f) /\ NextCall(t) \in Pending(f)
      /\ g.phase = f.phase /\ g.id = f.id /\ g.skip = f.skip /\ (f.failed => g.failed)
  BY <1>1, WorkCall DEF Runs, Works, SameCall, NextCall, IdsInv, FrameIds, Work
<1>3. f.phase = "pre"
  BY <1>1, <1>2, PhaseOf
<1>4. Reporting(f, mgr[t].init, n) /\ f.id \in Nat /\ n \in Nat /\ mgr[t].init \in BOOLEAN
  <2>1. n \in Nat
    BY <1>2, ReportsNat
  <2>2. Reporting(f, mgr[t].init, n)
    BY <1>2 DEF ReportInv
  <2>3. f.id \in Nat
    BY <1>2 DEF FrameT
  <2>4. mgr[t].init \in BOOLEAN
    BY DEF Types, MgrT
  <2> QED BY <2>1, <2>2, <2>3, <2>4
<1>5. n = 0
  BY <1>2, <1>3, <1>4 DEF Reporting
<1>6. SUFFICES Reporting(g, mgr'[t].init, reports'[f.id])
  BY <1>2 DEF ReportInv, Reporting
<1>7. g.sink = f.sink /\ g.ok = f.ok /\ g.stale = f.stale
  BY <1>1, <1>2 DEF SameCourse, SameLookup
<1>8. CASE UNCHANGED <<mgr, reports>> /\ e.mem = f.mem
  BY <1>2, <1>3, <1>4, <1>5, <1>7, <1>8 DEF Reporting, Early
<1>9. CASE e.mem = None /\ e.failed /\ Pending(e) = {} /\ Finalized(t, f.mem, f.id)
  <2>1. /\ mgr'[t].init = (mgr[t].init /\ ~Sends(t, f.mem))
        /\ reports'[f.id] = IF Sends(t, f.mem) THEN 1 ELSE 0
    BY <1>2, <1>4, <1>5, <1>9, FinalizeMgr, FinalizedReports
  <2>2. reports'[f.id] \in {0, 1} /\ (reports'[f.id] = 1 => mgr'[t].init = FALSE)
    <3>1. CASE Sends(t, f.mem)
      BY <2>1, <3>1
    <3>2. CASE ~Sends(t, f.mem)
      BY <2>1, <3>2
    <3> QED BY <3>1, <3>2
  <2> HIDE DEF f, g, n
  <2> QED BY <1>2, <1>3, <1>9, <2>2 DEF Reporting, Early
<1> QED BY <1>1, <1>8, <1>9

LEMMA ReportWork ==
    ASSUME NEW t \in Threads, Types, IdsInv, CallInv, ManagerInv(t), BufferInv(t), ReportInv(t),
           Work(t)
    PROVE  ReportInv(t)'
BY ReportApart, ReportMade, ReportFinalized, ReportExpanded

LEMMA TellsMore ==
    ASSUME NEW t \in Threads, Types, CallInv, ManagerInv(t), Work(t)
    PROVE  Grows
<1>1. call[t] \in FrameT /\ Api(call[t].hook) \in {"acl", "rt"} /\ Types
  BY WorkCall, ApiOf
<1>2. CASE CreateContext(t) \/ AddLaunchEvent(t)
  <2>1. told' = told /\ (dev' = dev \/ dev' = Entered(call[t]))
    BY <1>2 DEF CreateContext, AddLaunchEvent, Registry
  <2>2. dev["rt"].launches \in Seq(Nat) /\ call[t].id \in Nat
    BY <1>1 DEF Types, DevT, FrameT
  <2>3. Append(dev["rt"].launches, call[t].id) # <<>>
    BY <2>2, SeqMore
  <2>4. \/ Entered(call[t])["rt"].launches = dev["rt"].launches
        \/ Entered(call[t])["rt"].launches = Append(dev["rt"].launches, call[t].id)
    BY <1>1, EnteredTypes
  <2> QED BY <2>1, <2>3, <2>4 DEF Grows
<1>3. CASE UpdateOpMemInfo(t) \/ ParseMetaData(t)
  BY <1>3, <1>1, DescribedTypes DEF UpdateOpMemInfo, ParseMetaData, Registry, Grows
<1>4. CASE ArchiveMemInfo(t)
  BY <1>4, <1>1, ArchivedTypes DEF ArchiveMemInfo, Registry, Grows
<1>5. CASE ReportKernelSummary(t) \/ SectionsMalloc(t) \/ SectionsFree(t) \/ Overflow(t)
  <2>1. dev' = dev
    BY <1>5 DEF ReportKernelSummary, SectionsMalloc, SectionsFree, Overflow
  <2>2. told.announced \subseteq told'.announced
    <3>1. \A x : /\ [told EXCEPT !.sections = x].announced = told.announced
                 /\ [told EXCEPT !.overflow = x].announced = told.announced
                 /\ [told EXCEPT !.announced = x].announced = x
      BY <1>1 DEF Types
    <3>2. CASE ReportKernelSummary(t)
      BY <3>1, <3>2 DEF ReportKernelSummary
    <3>3. CASE SectionsMalloc(t)
      BY <3>1, <3>3 DEF SectionsMalloc
    <3>4. CASE SectionsFree(t)
      BY <3>1, <3>4 DEF SectionsFree
    <3>5. CASE Overflow(t)
      BY <3>1, <3>5 DEF Overflow
    <3> QED BY <1>5, <3>2, <3>3, <3>4, <3>5
  <2> QED BY <2>1, <2>2 DEF Grows
<1>6. CASE OpMalloc(t) \/ OpFree(t) \/ ClearArgsInfo(t)
  BY <1>1, <1>6, OpsTypes DEF Types, OpMalloc, OpFree, ClearArgsInfo, Grows
<1> QED BY <1>2, <1>3, <1>4, <1>5, <1>6, SilentWork DEF Silent, Grows

LEMMA HooksApart == ASSUME NEW h \in AclHooks PROVE h \notin RtHooks
BY DEF AclHooks, RtHooks

LEMMA Entries ==
    ASSUME NEW f \in FrameT, ScriptInv(f), f.phase # "init"
    PROVE  {"CreateContext", "AddLaunchEvent", "GetLaunchId"} \cap Pending(f) = {}
<1> SUFFICES ASSUME NEW c \in Pending(f), c \in {"CreateContext", "AddLaunchEvent", "GetLaunchId"}
             PROVE  FALSE
  OBVIOUS
<1>1. c \in PhaseCalls(f)
  BY DEF ScriptInv
<1> QED BY <1>1, PhaseOf

LEMMA NumberedKept ==
    ASSUME NEW f, NEW g, NEW l, NEW m, NEW a, NEW b, Numbered(f, l, a), a \subseteq b,
           l # <<>> => m # <<>>, g.hook = f.hook, g.phase = f.phase, g.skip = f.skip,
           g.id = f.id, g.event = f.event, f.failed => g.failed,
           f.phase # "init" => g.sink = f.sink,
           ~g.failed => \A c \in {"CreateContext", "AddLaunchEvent", "GetLaunchId",
                                  "ReportKernelSummary"} : c \in Pending(f) => c \in Pending(g)
    PROVE  Numbered(g, m, b)
BY DEF Numbered, Early

LEMMA EventWork ==
    ASSUME NEW t \in Threads, Types, IdsInv, CallInv, ManagerInv(t), EventInv(t), Work(t)
    PROVE  EventInv(t)'
<1> DEFINE f == call[t]
           g == call'[t]
           l == dev["rt"].launches
           m == dev'["rt"].launches
           a == told.announced
           b == told'.announced
<1>1. /\ f # NoCall /\ g # NoCall /\ f \in FrameT /\ g \in FrameT
      /\ ScriptInv(f) /\ Works(f, g) /\ f.todo[1].call = NextCall(t)
      /\ NextCall(t) \in PhaseCalls(f) /\ NextCall(t) \notin Pending(g)
  BY WorkCall DEF Runs, Works, NextCall
<1>2. Numbered(f, l, a) /\ a \subseteq b /\ (l # <<>> => m # <<>>)
  BY <1>1, TellsMore DEF EventInv, Grows
<1>3. /\ g.hook = f.hook /\ g.phase = f.phase /\ g.skip = f.skip /\ g.id = f.id
      /\ (f.failed => g.failed)
      /\ ~g.failed => Pending(g) = Pending(f) \ {NextCall(t)}
  BY <1>1 DEF Works, SameCall
<1>4. f.phase # "init" => g.sink = f.sink
  BY SinkKept
<1>5. SUFFICES Numbered(g, m, b)
  BY DEF EventInv
<1>6. CASE CreateContext(t)
  <2>1. NextCall(t) = "CreateContext" /\ (g.failed \/ g.event = g.id)
    <3>1. PICK e : Gives(t, e) \/ (Makes(t, e) /\ e.event = e.id)
      BY <1>6, CreateContextFrame
    <3>2. g = e
      BY <3>1 DEF Gives, Makes, Runs
    <3> QED BY <1>6, <3>1, <3>2, CreateContextFrame DEF Gives
  <2>2. f.phase = "init" /\ f.hook \in AclHooks
    BY <1>1, <2>1, PhaseOf DEF PhaseCalls, InitCalls
  <2>3. f.hook \notin RtHooks
    BY <2>2, HooksApart
  <2> HIDE DEF f, g, l, m, a, b
  <2> QED BY <1>3, <2>1, <2>2, <2>3 DEF Numbered, Early
<1>7. CASE AddLaunchEvent(t)
  <2>1. NextCall(t) = "AddLaunchEvent" /\ (g.failed \/ (dev' = Entered(f) /\ g.event = f.event))
    <3>1. PICK e : \/ Gives(t, e)
                   \/ MakesQuietly(t, e) /\ dev' = Entered(f)
      BY <1>7, AddLaunchEventFrame
    <3>2. g = e
      BY <3>1 DEF Gives, MakesQuietly, Makes, Runs
    <3> QED BY <1>7, <3>1, <3>2, AddLaunchEventFrame DEF Gives, MakesQuietly, Quiet, SameLookup
  <2>2. f.phase = "init" /\ f.hook \notin AclHooks
    BY <1>1, <2>1, PhaseOf DEF PhaseCalls, InitCalls
  <2>3. ~g.failed => m # <<>>
    <3>1. l \in Seq(Nat) /\ f.id \in Nat /\ Api(f.hook) = "rt"
      BY <1>1, <2>2 DEF Types, DevT, FrameT, Api
    <3>2. Append(l, f.id) # <<>>
      BY <3>1, SeqMore
    <3> QED BY <1>1, <2>1, <3>1, <3>2, EnteredTypes
  <2> HIDE DEF f, g, l, m, a, b
  <2> QED BY <1>2, <1>3, <2>1, <2>2, <2>3 DEF Numbered, Early
<1>8. CASE GetLaunchId(t)
  <2>1. NextCall(t) = "GetLaunchId" /\ g.event = LastOf("rt")
    <3>1. PICK e : Makes(t, e) /\ e.event = LastOf("rt")
      BY <1>8, GetLaunchIdFrame
    <3> QED BY <1>8, <3>1, GetLaunchIdFrame DEF Makes, Runs
  <2>2. f.phase = "init" /\ f.hook \notin AclHooks
    BY <1>1, <2>1, PhaseOf DEF PhaseCalls, InitCalls
  <2>3. "AddLaunchEvent" \notin Pending(f)
    BY <1>1, <2>1, Ranks DEF Works
  <2>4. l # <<>> => LastOf("rt") # None
    BY LastOfKnown DEF Ids, None
  <2> HIDE DEF f, g, l, m, a, b
  <2> QED BY <1>2, <1>3, <2>1, <2>2, <2>3, <2>4 DEF Numbered, Early
<1>9. CASE ReportKernelSummary(t)
  <2>1. NextCall(t) = "ReportKernelSummary" /\ g.event = f.event
    BY <1>9, PhaseAt, EventKept DEF ReportKernelSummary, CreateContext, GetLaunchId, At, NextCall
  <2>2. f.phase = "pre"
    BY <1>1, <2>1, PhaseOf
  <2>3. b = a \cup ({f.event} \ {None})
    BY <1>9 DEF ReportKernelSummary, Types
  <2>4. {"CreateContext", "AddLaunchEvent", "GetLaunchId"} \cap Pending(f) = {}
    BY <1>1, <2>2, Entries
  <2>5. f.id # None
    BY <1>1 DEF IdsInv, FrameIds, Ids, None
  <2>6. f.hook \in AclHooks \/ f.hook \in RtHooks
    BY <1>1 DEF FrameT, Hooks
  <2> HIDE DEF f, g, l, m, a, b
  <2>7. ~f.failed => f.event # None
    BY <1>2, <2>2, <2>4, <2>5, <2>6 DEF Numbered
  <2> QED BY <1>2, <1>3, <1>4, <2>1, <2>2, <2>3, <2>4, <2>7 DEF Numbered, Early
<1>10. CASE ~(CreateContext(t) \/ AddLaunchEvent(t) \/ GetLaunchId(t) \/ ReportKernelSummary(t))
  <2>1. g.event = f.event
    BY <1>10, EventKept
  <2>2. NextCall(t) \notin {"CreateContext", "AddLaunchEvent", "GetLaunchId", "ReportKernelSummary"}
    BY <1>10 DEF Work, UpdateOpMemInfo, ParseMetaData, ArchiveMemInfo, InitStep, Finalize,
       SetSkipKernelFlag, ResetMemoryInit, FreeBuffer, ExpandArgs, RunDBITask, MakeInstrumented,
       Commit, Clone, Guards, GetEvent, GetBinary, SectionsMalloc, SectionsFree, OpMalloc,
       OpFree, Overflow, ClearArgsInfo, LaunchDumpTask, Sync, ExitAfterProcess, At, NextCall
  <2> HIDE DEF f, g, l, m, a, b
  <2> QED BY <1>2, <1>3, <1>4, <2>1, <2>2, NumberedKept
<1> QED BY <1>6, <1>7, <1>8, <1>9, <1>10

-----------------------------------------------------------------------------
(* Reports when a call enters its next phase. *)

LEMMA ReportLaunched ==
    ASSUME NEW t \in Threads, NEW g, Enters(t, g), call[t].phase \in {"init", "pre"},
           call[t].phase = "init" => ~call[t].tracked, g.skip = call[t].skip,
           NEW i \in BOOLEAN, NEW n \in Nat, Reporting(call[t], i, n),
           NEW l, NEW a, Numbered(call[t], l, a), g.phase \in {"post", "end"},
           g.phase = "post" => Pending(g) = PostCalls(g.hook, g.skip, g.sink, g.mem # None),
           \/ call[t].abort /\ g.failed = call[t].failed
           \/ g.failed = call[t].failed /\ (call[t].tracked => g.phase = "post")
           \/ g.failed
    PROVE  Reporting(g, i, n) /\ Numbered(g, l, a)
<1> DEFINE f == call[t]
<1>1. /\ g.hook = f.hook /\ g.id = f.id /\ g.wrapped = f.wrapped /\ g.tracked = f.tracked
      /\ g.mem = f.mem /\ g.abort = f.abort /\ g.stale = f.stale /\ g.sink = f.sink
      /\ g.event = f.event /\ Pending(f) = {} /\ FrameInv(f) /\ g \in FrameT /\ f \in FrameT
  BY EntersSame
<1>2. (f.abort => f.failed) /\ (~f.tracked => f.failed) /\ (f.phase = "init" => f.mem = None)
  BY <1>1 DEF FrameInv, Fresh, Early
<1>3. (f.failed => g.failed) /\ (f.phase = "init" => g.failed)
  BY <1>2
<1>4. ~g.failed => g.phase = "post" /\ f.phase = "pre" /\ ~f.failed
  BY <1>1, <1>2, <1>3
<1>5. ASSUME ~g.failed, ~g.sink, ~g.skip
      PROVE  "Finalize" \in Pending(g)
  BY <1>1, <1>4, <1>5 DEF FrameInv, PostCalls
<1>6. Reporting(f, i, n) /\ Numbered(f, l, a) /\ f.phase \in {"init", "pre"} /\ g.skip = f.skip
  OBVIOUS
<1> HIDE DEF f
<1>7. Reporting(g, i, n)
  BY <1>1, <1>2, <1>3, <1>4, <1>5, <1>6 DEF Reporting, Early
<1>8. Numbered(g, l, a)
  BY <1>1, <1>3, <1>4, <1>6 DEF Numbered, Early
<1> QED BY <1>7, <1>8

LEMMA ReportAdvance ==
    ASSUME NEW t \in Threads, Types, IdsInv, CallInv, ReportInv(t), EventInv(t), Advance(t)
    PROVE  /\ ReportInv(t)' /\ EventInv(t)'
           /\ UNCHANGED <<mgr, reports, dev, told, dead>>
           /\ done' = done \/ Returns(t)
<1> DEFINE f == call[t]
           h == call'[t]
           i == mgr[t].init
           n == reports[f.id]
           l == dev["rt"].launches
           a == told.announced
<1>1. UNCHANGED <<mgr, reports, dev, told, dead>> /\ (done' = done \/ Returns(t))
  BY DEF Advance, ToPre, Launch, Moves, Returns
<1>2. /\ AtPhaseEnd(t)
      /\ OpenEnds(t) \/ ToPre(t) \/ Launch(t) \/ PostEnds(t) \/ EndEnds(t) \/ Returns(t)
  BY AdvanceCases
<1>3. Reporting(f, i, n) /\ Numbered(f, l, a)
  BY <1>2 DEF AtPhaseEnd, ReportInv, EventInv
<1>4. i \in BOOLEAN /\ n \in Nat
  BY <1>2, ReportsNat DEF AtPhaseEnd, IdsInv, FrameIds, Types, MgrT
<1>5. SUFFICES h # NoCall => h.id = f.id /\ Reporting(h, i, n) /\ Numbered(h, l, a)
  BY <1>1 DEF ReportInv, EventInv
<1>6. \A g : Enters(t, g) =>
        /\ h = g /\ g.hook = f.hook /\ g.id = f.id /\ g.mem = f.mem /\ g.stale = f.stale
        /\ g.sink = f.sink /\ g.event = f.event /\ Pending(f) = {} /\ g \in FrameT
        /\ f \in FrameT /\ FrameInv(f)
  <2> SUFFICES ASSUME NEW g, Enters(t, g)
               PROVE  /\ h = g /\ g.hook = f.hook /\ g.id = f.id /\ g.mem = f.mem
                      /\ g.stale = f.stale /\ g.sink = f.sink /\ g.event = f.event
                      /\ Pending(f) = {} /\ g \in FrameT /\ f \in FrameT /\ FrameInv(f)
    OBVIOUS
  <2>1. h = g
    BY DEF Enters
  <2> QED BY <2>1, EntersSame
<1> HIDE DEF f, h, i, n, l, a
<1>7. CASE OpenEnds(t)
  <2>1. PICK g : /\ Enters(t, g) /\ f.phase = "open" /\ g.phase = "init"
                  /\ Pending(g) = InitCalls(g.hook)
    BY <1>2, <1>7, OpenEndsFrame DEF f
  <2>2. n = 0
    BY <1>3, <2>1 DEF Reporting, Early
  <2>3. Reporting(g, i, n)
    BY <2>1, <2>2 DEF Reporting, Early
  <2>4. /\ g.hook \in AclHooks => "CreateContext" \in Pending(g)
        /\ g.hook \in RtHooks => {"AddLaunchEvent", "GetLaunchId"} \subseteq Pending(g)
    BY <2>1, HooksApart DEF InitCalls
  <2>5. Numbered(g, l, a)
    BY <2>1, <2>4 DEF Numbered, Early
  <2> QED BY <1>6, <2>1, <2>3, <2>5
<1>8. CASE ToPre(t)
  <2>1. PICK g : /\ Enters(t, g) /\ f.phase = "init" /\ g.phase = "pre"
                 /\ Pending(g) = PreCalls(g.hook, g.skip, g.sink) /\ g.failed = f.failed
    BY <1>2, <1>8, ToPreFrame DEF f
  <2>2. n = 0 /\ g.mem = None
    BY <1>3, <1>6, <2>1 DEF Reporting, FrameInv, Fresh, Early
  <2>3. Reporting(g, i, n)
    BY <2>1, <2>2 DEF Reporting, Early
  <2>4. ~g.skip /\ ~g.sink => "ReportKernelSummary" \in Pending(g)
    BY <2>1 DEF PreCalls
  <2>5. Numbered(g, l, a)
    BY <1>3, <1>6, <2>1, <2>4 DEF Numbered, Early
  <2> QED BY <1>6, <2>1, <2>3, <2>5
<1>9. CASE Launch(t)
  <2>1. PICK g :
       /\ Enters(t, g) /\ f.phase \in {"init", "pre"} /\ (f.phase = "init" => ~f.tracked)
       /\ g.skip = f.skip
       /\ \/ g.phase = "end" /\ Pending(g) = {}
          \/ /\ g.phase = "post" /\ g.tracked
             /\ Pending(g) = PostCalls(g.hook, g.skip, g.sink, g.mem # None)
       /\ \/ /\ f.abort /\ g.phase = "end" /\ g.failed = f.failed
             /\ g.running = f.running /\ g.ok = f.ok
          \/ /\ ~f.abort /\ g.failed = f.failed /\ g.running /\ g.ok
             /\ (f.tracked => g.phase = "post")
          \/ /\ ~f.abort /\ g.failed /\ g.running = f.running /\ g.ok = f.ok
             /\ (f.hook \in RtHooks => g.phase = "post")
    BY <1>2, <1>9, LaunchFrame DEF f
  <2>2. Reporting(g, i, n) /\ Numbered(g, l, a)
    BY <1>3, <1>4, <2>1, ReportLaunched DEF f
  <2> QED BY <1>6, <2>1, <2>2
<1>10. CASE PostEnds(t)
  <2>1. PICK g : /\ Enters(t, g) /\ f.phase = "post" /\ g.phase = "end" /\ g.skip = f.skip
                 /\ g.failed = f.failed /\ SameCourse(f, g)
    BY <1>2, <1>10, PostEndsFrame DEF f
  <2> QED BY <1>3, <1>6, <2>1 DEF Reporting, Numbered, SameCourse, Early
<1>11. CASE EndEnds(t)
  <2>1. PICK g : /\ Enters(t, g) /\ f.phase = "end" /\ g.phase = "close" /\ g.skip = f.skip
                 /\ g.failed = f.failed /\ SameCourse(f, g)
    BY <1>2, <1>11, EndEndsFrame DEF f
  <2> QED BY <1>3, <1>6, <2>1 DEF Reporting, Numbered, SameCourse, Early
<1>12. CASE Returns(t)
  <2>1. h = NoCall
    BY <1>12 DEF Returns, Types, h
  <2> QED BY <2>1
<1> QED BY <1>2, <1>7, <1>8, <1>9, <1>10, <1>11, <1>12

\* Calls that end, or are cut off by Ctrl-C after their report, are as promised.
LEMMA EndedWell ==
    ASSUME NEW f \in FrameT, NEW i, NEW n \in Nat, NEW l, Reporting(f, i, n),
           Numbered(f, l, told.announced), f.phase \in {"post", "close"},
           "Finalize" \notin Pending(f), "ReportKernelSummary" \notin Pending(f)
    PROVE  /\ n <= 1
           /\ f.ok /\ ~f.sink /\ ~f.failed /\ ~f.stale =>
                 /\ n = IF f.skip THEN 0 ELSE 1
                 /\ ~f.skip => f.event \in told.announced
BY DEF Reporting, Numbered, Early

-----------------------------------------------------------------------------
(* ReportWorld over every step. *)

LEMMA WorkDone ==
    ASSUME NEW t \in Threads, Types, CallInv, ManagerInv(t), Work(t)
    PROVE  \/ done' = done /\ dead' = dead
           \/ /\ Ends(t) /\ dead' /\ call[t].phase = "post"
              /\ {"Finalize", "ReportKernelSummary"} \cap Pending(call[t]) = {}
              /\ UNCHANGED <<reports, told>>
<1>1. CASE ~ExitAfterProcess(t)
  BY <1>1 DEF Work, CreateContext, AddLaunchEvent, GetLaunchId, UpdateOpMemInfo, ParseMetaData,
     ArchiveMemInfo, InitStep, Finalize, SetSkipKernelFlag, ResetMemoryInit, FreeBuffer,
     ExpandArgs, RunDBITask, MakeInstrumented, Commit, Clone, Guards, ReportKernelSummary,
     GetEvent, GetBinary, SectionsMalloc, SectionsFree, OpMalloc, OpFree, Overflow,
     ClearArgsInfo, LaunchDumpTask, Sync, Registry, Buffers, Local, Telling
<1>2. CASE ExitAfterProcess(t)
  <2>1. kill \in BOOLEAN /\ dead = FALSE
    BY <1>2 DEF Types, ExitAfterProcess, At
  <2>2. NextCall(t) = "ExitAfterProcess" /\ call[t].phase = "post" /\ call[t] \in FrameT
    BY <1>2, PhaseAt, PhaseOf DEF ExitAfterProcess
  <2>3. /\ ScriptInv(call[t])
        /\ \A c \in Pending(call[t]) : Rank(call[t].hook, "ExitAfterProcess") <= Rank(call[t].hook, c)
    BY <2>2, WorkCall DEF Runs, Works, NextCall
  <2>4. "Finalize" \notin Pending(call[t])
    BY <2>3, Ranks
  <2>5. "ReportKernelSummary" \notin Pending(call[t])
    BY <2>3, <2>2, PhaseOf DEF ScriptInv
  <2>6. UNCHANGED <<reports, told>>
    BY <1>2 DEF ExitAfterProcess
  <2>7. IF kill THEN Ends(t) /\ dead' ELSE done' = done /\ dead' = dead
    BY <1>2, <2>1 DEF ExitAfterProcess, Ends
  <2> QED BY <2>2, <2>4, <2>5, <2>6, <2>7
<1> QED BY <1>1, <1>2

LEMMA ReportParts ==
    ASSUME ReportWorld
    PROVE  /\ BufferWorld /\ Types /\ IdsInv /\ CallInv /\ OwnersInv
           /\ \A t \in Threads : /\ ManagerInv(t) /\ BufferInv(t) /\ ReportInv(t) /\ EventInv(t)
                                 /\ call[t] # NoCall => call[t] \in FrameT /\ call[t].id \in Ids
BY DEF ReportWorld, BufferWorld, Buffer, IdsInv, FrameIds, Types

\* A launch that ended stays as it was reported.
LEMMA WellKept ==
    ASSUME NEW id, ReportedWell(id), done'[id] = done[id], reports'[id] = reports[id],
           told.announced \subseteq told'.announced
    PROVE  ReportedWell(id)'
BY DEF ReportedWell

LEMMA WellEnded ==
    ASSUME NEW t \in Threads, Types, call[t] # NoCall, call[t].id \in Ids,
           ReportInv(t), EventInv(t), Ends(t), call[t].phase \in {"post", "close"},
           {"Finalize", "ReportKernelSummary"} \cap Pending(call[t]) = {},
           UNCHANGED <<reports, told>>
    PROVE  \A j \in Ids : IF j = call[t].id THEN ReportedWell(j)' ELSE done'[j] = done[j]
<1> DEFINE f == call[t]
<1>1. f \in FrameT /\ done \in Seq(FrameT \cup {NoCall}) /\ DOMAIN done = Ids
  BY DEF Types, Ids
<1>2. done'[f.id] = f /\ \A j \in Ids : j # f.id => done'[j] = done[j]
  BY <1>1 DEF Ends
<1>3. /\ Reporting(f, mgr[t].init, reports[f.id]) /\ Numbered(f, dev["rt"].launches, told.announced)
      /\ reports[f.id] \in Nat
  BY ReportsNat DEF ReportInv, EventInv
<1>4. f.phase \in {"post", "close"} /\ "Finalize" \notin Pending(f)
      /\ "ReportKernelSummary" \notin Pending(f)
  OBVIOUS
<1>5. /\ reports[f.id] <= 1
      /\ f.ok /\ ~f.sink /\ ~f.failed /\ ~f.stale =>
            /\ reports[f.id] = IF f.skip THEN 0 ELSE 1
            /\ ~f.skip => f.event \in told.announced
  <2> HIDE DEF f
  <2> QED BY <1>1, <1>3, <1>4, EndedWell
<1>6. reports'[f.id] = reports[f.id] /\ told' = told
  OBVIOUS
<1> HIDE DEF f
<1>7. ASSUME NEW j \in Ids, j = f.id PROVE ReportedWell(j)'
  BY <1>2, <1>5, <1>6, <1>7 DEF ReportedWell
<1> QED BY <1>2, <1>7 DEF f

LEMMA ReportWorldWork ==
    ASSUME NEW t \in Threads, ReportWorld, Work(t)
    PROVE  ReportWorld'
<1>1. /\ BufferWorld /\ Types /\ IdsInv /\ CallInv /\ OwnersInv /\ ManagerInv(t) /\ BufferInv(t)
      /\ ReportInv(t) /\ EventInv(t)
  BY ReportParts
<1>2. /\ BufferWorld' /\ ReportInv(t)' /\ EventInv(t)' /\ Grows /\ info' = info
      /\ ~dead /\ call[t] # NoCall /\ call'[t] # NoCall /\ call'[t].id = call[t].id
      /\ Others(t) /\ call[t].id \in Ids
  BY <1>1, WorldWork, ReportWork, EventWork, TellsMore, RecordTypesWork, WorkCall, WorkLooks,
     ReportParts
<1>3. \A j \in Ids : j # call[t].id => reports'[j] = reports[j]
  BY <1>1, ReportsOwn
<1>4. \/ done' = done /\ dead' = dead
      \/ /\ Ends(t) /\ dead' /\ call[t].phase = "post"
         /\ {"Finalize", "ReportKernelSummary"} \cap Pending(call[t]) = {}
         /\ UNCHANGED <<reports, told>>
  BY <1>1, WorkDone
<1>5. \A u \in Threads : /\ u # t => call'[u] = call[u] /\ mgr'[u] = mgr[u]
                         /\ call'[u] # NoCall <=> call[u] # NoCall
                         /\ call'[u].id = call[u].id
  BY <1>1, WorkLocal, <1>2 DEF Others
<1>6. OwnersInv'
  BY <1>1, <1>2, <1>4, <1>5 DEF OwnersInv
<1>7. ASSUME NEW u \in Threads, u # t PROVE ReportInv(u)' /\ EventInv(u)'
  BY <1>5, <1>7, ReportParts, <1>1, <1>2, <1>3, NumberedKept DEF OwnersInv, EventInv, Grows,
     ReportInv
<1>8. ASSUME NEW id \in Ids PROVE ReportedWell(id)'
  <2>1. ReportedWell(id)
    BY DEF ReportWorld
  <2>2. CASE done' = done
    <3>1. CASE id = call[t].id
      BY <1>1, <1>2, <2>2, <3>1 DEF OwnersInv, ReportInv, Reporting, ReportedWell
    <3>2. CASE id # call[t].id
      BY <1>2, <1>3, <2>1, <2>2, <3>2, WellKept DEF Grows
    <3> QED BY <3>1, <3>2
  <2>3. CASE done' # done
    BY <1>1, <1>2, <1>4, <2>3, WellEnded, <1>3, <2>1, WellKept DEF Grows
  <2> QED BY <2>2, <2>3
<1>9. \A id \in Ids' : ReportedWell(id)'
  BY <1>2, <1>8 DEF Ids
<1> QED BY <1>2, <1>6, <1>7, <1>9 DEF ReportWorld

LEMMA ReportWorldAdvance ==
    ASSUME NEW t \in Threads, ReportWorld, Advance(t)
    PROVE  ReportWorld'
<1>1. /\ BufferWorld /\ Types /\ IdsInv /\ CallInv /\ OwnersInv /\ ReportInv(t) /\ EventInv(t)
  BY ReportParts
<1>2. /\ BufferWorld' /\ ReportInv(t)' /\ EventInv(t)' /\ info' = info
      /\ UNCHANGED <<mgr, reports, dev, told, dead>> /\ (done' = done \/ Returns(t))
      /\ ~dead /\ call[t] # NoCall /\ Others(t) /\ call[t].id \in Ids /\ call[t] \in FrameT
  BY <1>1, WorldAdvance, ReportAdvance, IdsAdvance, AdvanceCall, ReportParts
<1>3. call'[t] # NoCall => call'[t].id = call[t].id
  BY <1>1, AdvanceCall DEF Enters
<1>4. \A u \in Threads : u # t => call'[u] = call[u]
  BY <1>2 DEF Others
<1>5. Returns(t) => Ends(t) /\ call[t].phase = "close" /\ call'[t] = NoCall
  BY <1>1 DEF Returns, Ends, Types
<1>6. Returns(t) => {"Finalize", "ReportKernelSummary"} \cap Pending(call[t]) = {}
  BY <1>1, <1>2, <1>5, PhaseOf DEF CallInv, ScriptInv
<1>7. done' # done =>
         \A j \in Ids : IF j = call[t].id THEN ReportedWell(j)' ELSE done'[j] = done[j]
  BY <1>1, <1>2, <1>5, <1>6, WellEnded
<1>8. OwnersInv'
  <2>1. \A u, v \in Threads : u # v /\ call'[u] # NoCall /\ call'[v] # NoCall =>
                                call'[u].id # call'[v].id
    BY <1>1, <1>2, <1>3, <1>4 DEF OwnersInv
  <2>2. ASSUME NEW u \in Threads, call'[u] # NoCall PROVE done'[call'[u].id] = NoCall
    <3>1. call[u] # NoCall /\ call'[u].id = call[u].id /\ done[call[u].id] = NoCall
      BY <1>1, <1>2, <1>3, <1>4, <2>2 DEF OwnersInv
    <3>2. CASE done' = done
      BY <3>1, <3>2
    <3>3. CASE done' # done
      BY <1>2, <1>5, <2>2, <3>3, <1>1, <3>1, ReportParts, <1>7 DEF OwnersInv
    <3> QED BY <3>2, <3>3
  <2> QED BY <2>1, <2>2 DEF OwnersInv
<1>9. ASSUME NEW u \in Threads, u # t PROVE ReportInv(u)' /\ EventInv(u)'
  BY <1>2, <1>4, <1>9, ReportParts DEF ReportInv, EventInv
<1>10. ASSUME NEW id \in Ids PROVE ReportedWell(id)'
  BY <1>2, WellKept, <1>7 DEF ReportWorld
<1>11. \A id \in Ids' : ReportedWell(id)'
  BY <1>2, <1>10 DEF Ids
<1> QED BY <1>2, <1>8, <1>9, <1>11 DEF ReportWorld

LEMMA ReportWorldBegin ==
    ASSUME NEW t \in Threads, ReportWorld, Begin(t)
    PROVE  ReportWorld'
<1> DEFINE new == Len(info) + 1
<1>1. /\ BufferWorld /\ Types /\ IdsInv /\ CallInv /\ OwnersInv
  BY ReportParts
<1>2. /\ BufferWorld' /\ Len(info') = new /\ Len(info) \in Nat
      /\ \A i \in Ids : reports'[i] = reports[i] /\ done'[i] = done[i]
      /\ reports'[new] = 0 /\ done'[new] = NoCall
      /\ UNCHANGED <<mgr, dev, told, dead>>
  BY <1>1, WorldBegin, TypesBegin, InfoNat DEF Ids
<1>3. PICK g : call'[t] = g /\ Opened(g) /\ g.id = new
  BY <1>1, BeginFrame
<1>4. /\ call[t] = NoCall /\ ~dead
      /\ \A u \in Threads : u # t =>
            /\ call[u] = NoCall => call'[u] = NoCall
            /\ call[u] # NoCall => call'[u] # NoCall /\ Marked(call[u], call'[u])
  BY <1>1, BeginFrame
<1>5. \A u \in Threads : u # t /\ call'[u] # NoCall =>
         call[u] # NoCall /\ call'[u].id = call[u].id /\ call[u].id \in Ids /\ call[u].id # new
  BY <1>2, <1>4, ReportParts DEF Marked, Ids
<1>6. OwnersInv'
  BY <1>1, <1>3, <1>5, <1>2, <1>4 DEF OwnersInv
<1>7. ReportInv(t)' /\ EventInv(t)'
  BY <1>2, <1>3 DEF Opened, FrameT, ReportInv, EventInv, Reporting, Numbered, Early
<1>8. ASSUME NEW u \in Threads, u # t PROVE ReportInv(u)' /\ EventInv(u)'
  <2>1. CASE call'[u] = NoCall
    BY <2>1 DEF ReportInv, EventInv
  <2>2. CASE call'[u] # NoCall
    <3>1. /\ call[u] # NoCall /\ Marked(call[u], call'[u]) /\ call[u].id \in Ids
          /\ ReportInv(u) /\ EventInv(u)
      BY <1>4, <1>5, <1>8, <2>2, ReportParts
    <3>2. Pending(call'[u]) = Pending(call[u])
      BY <1>1, <3>1, MarkedFrame DEF CallInv
    <3>3. Reporting(call'[u], mgr[u].init, reports[call[u].id])
      BY <3>1, <3>2 DEF ReportInv, Marked, Reporting, SameBuffer, SameLookup, SameCourse
    <3>4. Numbered(call'[u], dev["rt"].launches, told.announced)
      BY <3>1, <3>2 DEF EventInv, Marked, Numbered, SameLookup
    <3>5. call'[u].id = call[u].id /\ reports'[call[u].id] = reports[call[u].id]
      BY <1>2, <3>1 DEF Marked
    <3> QED BY <1>2, <3>3, <3>4, <3>5 DEF ReportInv, EventInv
  <2> QED BY <2>1, <2>2
<1>9. ASSUME NEW id \in Ids' PROVE ReportedWell(id)'
  <2>1. CASE id = new
    BY <1>2, <2>1 DEF ReportedWell
  <2>2. CASE id # new
    BY <1>2, <2>2, WellKept DEF Ids, ReportWorld
  <2> QED BY <2>1, <2>2
<1> QED BY <1>2, <1>6, <1>7, <1>8, <1>9 DEF ReportWorld

LEMMA ReportWorldKept ==
    ASSUME ReportWorld, Kept, kill' \in BOOLEAN
    PROVE  ReportWorld'
<1>1. BufferWorld'
  BY WorldKept DEF ReportWorld
<1>2. OwnersInv'
  BY DEF ReportWorld, OwnersInv, Kept
<1>3. \A t \in Threads : ReportInv(t)' /\ EventInv(t)'
  BY DEF ReportWorld, ReportInv, EventInv, Kept
<1>4. \A id \in Ids' : ReportedWell(id)'
  BY DEF ReportWorld, ReportedWell, Kept, Ids
<1> QED BY <1>1, <1>2, <1>3, <1>4 DEF ReportWorld

LEMMA ReportWorldNext ==
    ASSUME ReportWorld, [Next]_vars
    PROVE  ReportWorld'
BY ReportWorldKept, ReportParts, ReportWorldWork, ReportWorldAdvance, ReportWorldBegin, NextCases
   DEF vars, Kept, Types, Interrupt

LEMMA ReportWorldInit == ASSUME Init PROVE ReportWorld
<1>1. BufferWorld
  BY InitWorld
<1>2. \A t \in Threads : call[t] = NoCall
  BY DEF Init
<1>3. Ids = {}
  BY DEF Init, Ids
<1> QED BY <1>1, <1>2, <1>3 DEF ReportWorld, OwnersInv, ReportInv, EventInv

\* The inductive invariant of the reports: no two calls make the same launch, a
\* launch has no report before its kernel is prepared and at most one after, a
\* valid buffer or a pending Finalize says that its report is still to come, and
\* the tool was told its number by then.
THEOREM ReportWorldHolds == Spec => []ReportWorld
<1>1. Init => ReportWorld
  BY ReportWorldInit
<1>2. ReportWorld /\ [Next]_vars => ReportWorld'
  BY ReportWorldNext
<1> QED BY <1>1, <1>2, PTL DEF Spec

\* No launch is reported twice; one that ran and is checked was announced and
\* reported when its call returns, or when Ctrl-C ends the process, and a skipped
\* one was not reported.
THEOREM ReportsAreSingle == Spec => []ReportedOnce
<1>1. ReportWorld => ReportedOnce
  BY DEF ReportWorld, ReportedWell, ReportedOnce
<1> QED BY <1>1, ReportWorldHolds, PTL

-----------------------------------------------------------------------------
(* Launches nobody overlaps: they are judged, instrumented and dumped as      *)
(* themselves.                                                                *)

\* What a step of the script leaves alone.
LEMMA KernelKept ==
    ASSUME NEW t \in Threads, Types, CallInv, ManagerInv(t), Work(t), ~RunDBITask(t)
    PROVE  call'[t].kernel = call[t].kernel
<1>1. ASSUME NEW g, Gives(t, g) \/ MakesQuietly(t, g) \/ (Runs(t, g) /\ g.kernel = call[t].kernel)
      PROVE  call'[t].kernel = call[t].kernel
  BY <1>1 DEF Gives, MakesQuietly, Makes, Quiet, SameBuffer, Runs
<1>2. CASE CreateContext(t) \/ GetLaunchId(t) \/ SectionsMalloc(t) \/ GetEvent(t) \/ ParseMetaData(t)
  <2>1. PICK g : Gives(t, g) \/ (Makes(t, g) /\ SameBuffer(call[t], g))
    BY <1>2, CreateContextFrame, GetLaunchIdFrame, SectionsMallocFrame, GetEventFrame,
       ParseMetaDataFrame
  <2> QED BY <1>1, <2>1 DEF SameBuffer, Makes
<1>3. CASE MakeInstrumented(t) \/ Commit(t)
  <2>1. PICK g : Gives(t, g) \/ MakesQuietly(t, g) \/ (Makes(t, g) /\ g.kernel = call[t].kernel)
    BY <1>3, MakeInstrumentedFrame, CommitFrame
  <2> QED BY <1>1, <2>1 DEF Makes
<1>4. CASE AddLaunchEvent(t) \/ Clone(t) \/ GetBinary(t) \/ QuietActions(t) \/ Guards(t)
  <2>1. PICK g : Gives(t, g) \/ MakesQuietly(t, g)
    BY <1>4, AddLaunchEventFrame, CloneFrame, GetBinaryFrame, QuietFrame, GuardsFrame
  <2> QED BY <1>1, <2>1
<1>5. CASE Sync(t) \/ LaunchDumpTask(t)
  <2>1. PICK g : Makes(t, g) /\ SameBuffer(call[t], g)
    BY <1>5, SyncFrame, LaunchDumpTaskFrame
  <2> QED BY <1>1, <2>1 DEF Makes, SameBuffer
<1>6. CASE InitStep(t)
  <2>1. PICK g : Gives(t, g) \/ MakesQuietly(t, g) \/ (Runs(t, g) /\ g.kernel = call[t].kernel)
    BY <1>6, InitStepFrame DEF Makes
  <2> QED BY <1>1, <2>1
<1>7. CASE Finalize(t)
  <2>1. PICK g : Runs(t, g) /\ Quiet(call[t], g)
    BY <1>7, FinalizeFrame
  <2> QED BY <1>1, <2>1 DEF Quiet, SameBuffer
<1>8. CASE ExpandArgs(t)
  <2>1. PICK g : Runs(t, g) /\ g.kernel = call[t].kernel
    BY <1>8, ExpandArgsFrame DEF Makes
  <2> QED BY <1>1, <2>1
<1> QED BY <1>2, <1>3, <1>4, <1>5, <1>6, <1>7, <1>8 DEF Work, QuietActions

LEMMA SinkKeptEarly ==
    ASSUME NEW t \in Threads, Types, CallInv, ManagerInv(t), Work(t), ~ParseMetaData(t)
    PROVE  call'[t].sink = call[t].sink
<1>1. CASE call[t].phase # "init"
  BY <1>1, SinkKept
<1>2. CASE call[t].phase = "init"
  <2>1. NextCall(t) \in InitCalls(call[t].hook)
    BY <1>2, WorkCall DEF Runs, Works, NextCall, PhaseCalls
  <2>2. NextCall(t) \in {"CreateContext", "AddLaunchEvent", "GetLaunchId", "UpdateOpMemInfo",
                     "ParseMetaData", "ArchiveMemInfo"}
    BY <2>1 DEF InitCalls
  <2>3. \/ CreateContext(t) \/ AddLaunchEvent(t) \/ GetLaunchId(t) \/ UpdateOpMemInfo(t)
        \/ ArchiveMemInfo(t)
    BY <2>2 DEF Work, InitStep, Finalize,
       SetSkipKernelFlag, ResetMemoryInit, FreeBuffer, ExpandArgs, RunDBITask, MakeInstrumented,
       Commit, Clone, Guards, GetEvent, GetBinary, SectionsMalloc, SectionsFree, OpMalloc,
       OpFree, Overflow, ClearArgsInfo, LaunchDumpTask, Sync, ExitAfterProcess, At, NextCall,
       ReportKernelSummary
  <2>4. PICK g : Gives(t, g) \/ MakesQuietly(t, g) \/ (Makes(t, g) /\ g.sink = call[t].sink)
    BY <2>3, CreateContextFrame, AddLaunchEventFrame, GetLaunchIdFrame, QuietFrame
       DEF QuietActions
  <2> QED BY <2>4 DEF Gives, MakesQuietly, Makes, Quiet, SameLookup, Runs
<1> QED BY <1>1, <1>2

\* Which steps change what the device holds.
LEMMA DevParts ==
    ASSUME NEW t \in Threads, Types, CallInv, ManagerInv(t), Work(t), NEW a \in {"acl", "rt"}
    PROVE  /\ ~(CreateContext(t) \/ AddLaunchEvent(t)) => dev'[a].launches = dev[a].launches
           /\ ~ArchiveMemInfo(t) => dev'[a].archive = dev[a].archive
           /\ ~(UpdateOpMemInfo(t) \/ ParseMetaData(t) \/ OpFree(t) \/ ClearArgsInfo(t)) =>
                 dev'[a].args = dev[a].args
<1>1. call[t] \in FrameT
  BY WorkCall
<1>2. CASE CreateContext(t) \/ AddLaunchEvent(t)
  BY <1>2, <1>1, EnteredTypes DEF CreateContext, AddLaunchEvent
<1>3. CASE UpdateOpMemInfo(t) \/ ParseMetaData(t)
  BY <1>3, <1>1, DescribedTypes DEF UpdateOpMemInfo, ParseMetaData
<1>4. CASE ArchiveMemInfo(t)
  BY <1>1, <1>4, ArchivedTypes
<1>5. CASE OpMalloc(t) \/ OpFree(t) \/ ClearArgsInfo(t)
  BY <1>1, <1>5, OpsTypes
<1>6. CASE ReportKernelSummary(t) \/ SectionsMalloc(t) \/ SectionsFree(t) \/ Overflow(t)
  BY <1>6 DEF ReportKernelSummary, SectionsMalloc, SectionsFree, Overflow
<1> QED BY <1>2, <1>3, <1>4, <1>5, <1>6, SilentWork DEF Silent

-----------------------------------------------------------------------------
(* A step of the script, seen from its own launch. *)

LEMMA NamedKept ==
    ASSUME NEW f, NEW g, NEW c, NEW l, NEW w, Named(f, l, w), SameCall(f, g),
           f.failed => g.failed, g.kernel = f.kernel, g.event = f.event, g.sink = f.sink,
           ~g.failed => Pending(g) = Pending(f) \ {c},
           c \notin {"CreateContext", "AddLaunchEvent", "GetLaunchId"}
    PROVE  Named(g, l, w)
BY DEF Named, SameCall, Past, Entering

\* What every step of a script gives.
LEMMA OwnStep ==
    ASSUME NEW t \in Threads, Types, IdsInv, CallInv, ManagerInv(t), Work(t)
    PROVE  /\ call[t] # NoCall /\ call'[t] # NoCall
           /\ call[t] \in FrameT /\ call'[t] \in FrameT
           /\ ScriptInv(call[t]) /\ SameCall(call[t], call'[t]) /\ info' = info
           /\ call[t].failed => call'[t].failed
           /\ ~call'[t].failed => Pending(call'[t]) = Pending(call[t]) \ {NextCall(t)}
           /\ NextCall(t) \in PhaseCalls(call[t]) /\ NextCall(t) \in Pending(call[t])
           /\ \A c \in Pending(call[t]) :
                 Rank(call[t].hook, NextCall(t)) <= Rank(call[t].hook, c)
           /\ call[t].id \in Ids /\ call[t].id # None /\ ~dead
           /\ call[t].hook \in AclHooks \/ call[t].hook \in RtHooks
           /\ call[t].hook \in AclHooks => call[t].hook \notin RtHooks
<1>1. /\ call[t] # NoCall /\ call'[t] # NoCall /\ Runs(t, call'[t]) /\ ~dead
      /\ call[t] \in FrameT /\ call'[t] \in FrameT
  BY WorkCall
<1>2. Works(call[t], call'[t])
  BY <1>1 DEF Runs
<1>3. info' = info
  BY RecordTypesWork
<1>4. call[t].id \in Ids /\ call[t].id # None
  BY <1>1 DEF IdsInv, FrameIds, Ids, None
<1>5. call[t].hook \in AclHooks \/ call[t].hook \in RtHooks
  BY <1>1 DEF FrameT, Hooks
<1> QED BY <1>1, <1>2, <1>3, <1>4, <1>5, HooksApart DEF Works, NextCall

\* The head of a script names the action.
LEMMA HeadNames ==
    ASSUME NEW t \in Threads, Work(t)
    PROVE  /\ CreateContext(t) <=> NextCall(t) = "CreateContext"
           /\ AddLaunchEvent(t) <=> NextCall(t) = "AddLaunchEvent"
           /\ GetLaunchId(t) <=> NextCall(t) = "GetLaunchId"
           /\ UpdateOpMemInfo(t) <=> NextCall(t) = "UpdateOpMemInfo"
           /\ ParseMetaData(t) <=> NextCall(t) = "ParseMetaData"
           /\ ArchiveMemInfo(t) <=> NextCall(t) = "ArchiveMemInfo"
           /\ RunDBITask(t) <=> NextCall(t) = "RunDBITask"
           /\ LaunchDumpTask(t) <=> NextCall(t) = "LaunchDumpTask"
           /\ ExitAfterProcess(t) <=> NextCall(t) = "ExitAfterProcess"
           /\ OpFree(t) <=> NextCall(t) = "OpFree"
           /\ ClearArgsInfo(t) <=> NextCall(t) = "ClearArgsInfo"
BY DEF Work, CreateContext, AddLaunchEvent, GetLaunchId, ReportKernelSummary, UpdateOpMemInfo,
       ParseMetaData, ArchiveMemInfo, InitStep, Finalize,
       SetSkipKernelFlag, ResetMemoryInit, FreeBuffer, ExpandArgs, RunDBITask, MakeInstrumented,
       Commit, Clone, Guards, GetEvent, GetBinary, SectionsMalloc, SectionsFree, OpMalloc,
       OpFree, Overflow, ClearArgsInfo, LaunchDumpTask, Sync, ExitAfterProcess, At, NextCall

LEMMA LastIs ==
    ASSUME NEW t \in Threads, Types, CallInv, ManagerInv(t), Work(t), NEW a \in {"acl", "rt"},
           ~(CreateContext(t) \/ AddLaunchEvent(t))
    PROVE  LastOf(a)' = LastOf(a)
BY DevParts DEF LastOf

LEMMA LastAppended ==
    ASSUME NEW f \in FrameT, Types, dev' = Entered(f), NEW a, a = Api(f.hook)
    PROVE  dev'[a].launches # <<>> /\ LastOf(a)' = f.id
<1> DEFINE l == dev[a].launches
           m == dev'[a].launches
<1>1. l \in Seq(Nat) /\ f.id \in Nat /\ m = Append(l, f.id)
  BY EnteredTypes, ApiOf DEF Types, DevT, FrameT
<1>2. m \in Seq(Nat) /\ Len(m) = Len(l) + 1 /\ m[Len(l) + 1] = f.id /\ m # <<>>
  BY <1>1, SeqMore
<1>3. Last(m) = f.id
  BY <1>2 DEF Last
<1> QED BY <1>2, <1>3 DEF LastOf

LEMMA NamedWork ==
    ASSUME NEW t \in Threads, Types, IdsInv, CallInv, ManagerInv(t), NamedInv(t), Ordered(call[t]),
           Work(t)
    PROVE  NamedInv(t)'
<1> DEFINE f == call[t]
           g == call'[t]
           w == info[f.id]
<1> PICK a \in {"acl", "rt"} : a = Api(f.hook)
  BY ApiOf
<1> DEFINE l == LastOf(a)
           m == LastOf(a)'
<1>1. /\ f # NoCall /\ g # NoCall /\ f \in FrameT /\ g \in FrameT /\ ScriptInv(f)
      /\ SameCall(f, g) /\ info' = info /\ (f.failed => g.failed)
      /\ ~g.failed => Pending(g) = Pending(f) \ {NextCall(t)}
      /\ NextCall(t) \in PhaseCalls(f) /\ NextCall(t) \in Pending(f)
      /\ \A c \in Pending(f) : Rank(f.hook, NextCall(t)) <= Rank(f.hook, c)
      /\ f.id \in Ids /\ f.id # None
      /\ f.hook \in AclHooks \/ f.hook \in RtHooks
      /\ f.hook \in AclHooks => f.hook \notin RtHooks
  BY OwnStep
<1>2. Named(f, l, w)
  BY <1>1 DEF NamedInv
<1>3. /\ g.phase = f.phase /\ g.hook = f.hook /\ g.id = f.id /\ g.alone = f.alone
      /\ g.skip = f.skip
  BY <1>1 DEF SameCall
<1>4. SUFFICES Named(g, m, w)
  BY <1>1, <1>3 DEF LastOf, NamedInv
<1>5. NextCall(t) # "RunDBITask" => g.kernel = f.kernel
  BY HeadNames, KernelKept
<1>6. NextCall(t) # "ParseMetaData" => g.sink = f.sink
  BY HeadNames, SinkKeptEarly
<1>7. NextCall(t) \notin {"CreateContext", "GetLaunchId"} => g.event = f.event
  BY HeadNames, EventKept
<1>8. NextCall(t) \notin {"CreateContext", "AddLaunchEvent"} => m = l
  BY HeadNames, LastIs
<1>9. CASE NextCall(t) \in {"CreateContext", "AddLaunchEvent"}
  <2>1. /\ g.failed \/ dev' = Entered(f)
        /\ NextCall(t) = "CreateContext" => g.failed \/ g.event = f.id
    <3>1. CASE CreateContext(t)
      <4>1. PICK e : Gives(t, e) \/ (Makes(t, e) /\ e.event = e.id /\ dev' = Entered(f))
        BY <3>1, CreateContextFrame
      <4>2. g = e
        BY <4>1 DEF Gives, Makes, Runs
      <4> QED BY <1>3, <4>1, <4>2 DEF Gives
    <3>2. CASE AddLaunchEvent(t)
      <4>1. PICK e : Gives(t, e) \/ (MakesQuietly(t, e) /\ dev' = Entered(f))
        BY <3>2, AddLaunchEventFrame
      <4>2. g = e
        BY <4>1 DEF Gives, MakesQuietly, Makes, Runs
      <4>3. NextCall(t) # "CreateContext"
        BY <3>2, HeadNames
      <4> QED BY <4>1, <4>2, <4>3 DEF Gives
    <3> QED BY <1>9, <3>1, <3>2, HeadNames
  <2>2. ~g.failed => m = f.id
    BY <1>1, <2>1, LastAppended
  <2>3. f.phase = "init"
    BY <1>1, <1>9, PhaseOf
  <2>4. NextCall(t) = Entering(f.hook) /\ (f.hook \in RtHooks => NextCall(t) = "AddLaunchEvent")
    BY <1>1, <1>9, <2>3 DEF PhaseCalls, InitCalls, Entering
  <2>5. f.hook \in RtHooks /\ ~f.failed => "GetLaunchId" \in Pending(f)
    BY <1>1, <2>3, <2>4 DEF Ordered, InitCalls
  <2>6. g.kernel = f.kernel /\ g.sink = f.sink
    BY <1>5, <1>6, <1>9
  <2> HIDE DEF f, g, l, m, w
  <2> QED BY <1>1, <1>2, <1>3, <1>9, <2>1, <2>2, <2>3, <2>4, <2>5, <2>6
          DEF Named, Past, Early, Entering
<1>10. ASSUME NextCall(t) \in {"GetLaunchId", "ParseMetaData"}
       PROVE  /\ f.phase = "init" /\ f.hook \in RtHooks /\ f.hook \notin AclHooks /\ a = "rt"
              /\ Entering(f.hook) \notin Pending(f)
              /\ NextCall(t) = "ParseMetaData" => "GetLaunchId" \notin Pending(f)
              /\ f.alone /\ ~f.failed => l = f.id
  <2>1. f.phase = "init"
    BY <1>1, <1>10, PhaseOf
  <2>2. f.hook \in RtHooks /\ f.hook \notin AclHooks /\ a = "rt"
    BY <1>1, <1>10, <2>1 DEF PhaseCalls, InitCalls, Api
  <2>3. Entering(f.hook) \notin Pending(f)
    BY <1>1, <1>10, <2>2, Ranks DEF Entering
  <2>4. NextCall(t) = "ParseMetaData" => "GetLaunchId" \notin Pending(f)
    BY <1>1, Ranks
  <2> QED BY <1>2, <2>1, <2>2, <2>3, <2>4 DEF Named, Past
<1>11. CASE NextCall(t) = "GetLaunchId"
  <2>1. g.event = l
    <3>1. PICK e : Makes(t, e) /\ e.event = LastOf("rt")
      BY <1>11, HeadNames, GetLaunchIdFrame
    <3> QED BY <1>10, <1>11, <3>1 DEF Makes, Runs
  <2>2. g.kernel = f.kernel /\ g.sink = f.sink /\ m = l
    BY <1>5, <1>6, <1>8, <1>11
  <2>3. f.phase = "init" /\ (f.alone /\ ~f.failed => l = f.id)
    BY <1>10, <1>11
  <2> HIDE DEF f, g, l, m, w
  <2> QED BY <1>1, <1>2, <1>3, <2>1, <2>2, <2>3 DEF Named, Past, Early
<1>12. CASE NextCall(t) = "ParseMetaData"
  <2>1. g.sink = Sees(Looked(f), "sink")
    <3>1. PICK e : Makes(t, e) /\ e.sink = Sees(Looked(f), "sink")
      BY <1>12, HeadNames, ParseMetaDataFrame
    <3> QED BY <3>1 DEF Makes, Runs
  <2>2. g.kernel = f.kernel /\ g.event = f.event /\ m = l
    BY <1>5, <1>7, <1>8, <1>12
  <2>3. f.alone /\ ~f.failed => Looked(f) = f.id
    BY <1>2, <1>10, <1>12 DEF Named, Past, Looked
  <2>4. f.alone /\ ~f.failed => g.sink = w.sink
    <3>1. w.sink \in BOOLEAN
      <4>1. f.id \in 1..Len(info)
        BY <1>1 DEF Ids
      <4>2. info \in Seq([skip : BOOLEAN, sink : BOOLEAN])
        BY DEF Types
      <4>3. w \in [skip : BOOLEAN, sink : BOOLEAN]
        BY <4>1, <4>2, SeqElement
      <4> QED BY <4>3
    <3>2. f.alone /\ ~f.failed => g.sink = (f.id # None /\ w["sink"])
      BY <2>1, <2>3 DEF Sees
    <3> QED BY <1>1, <3>1, <3>2
  <2>5. f.phase = "init" /\ Entering(f.hook) \notin Pending(f) /\ "GetLaunchId" \notin Pending(f)
    BY <1>10, <1>12
  <2> HIDE DEF f, g, l, m, w
  <2> QED BY <1>1, <1>2, <1>3, <2>2, <2>4, <2>5 DEF Named, Past, Early
<1>13. CASE NextCall(t) = "RunDBITask"
  <2>1. g.kernel = f.kernel \/ g.kernel = Instrumentable(f)
    <3>1. PICK e : \/ Gives(t, e) \/ MakesQuietly(t, e)
                   \/ Makes(t, e) /\ e.kernel = Instrumentable(f)
      BY <1>13, HeadNames, RunDBITaskFrame
    <3> QED BY <3>1 DEF Makes, Gives, MakesQuietly, Quiet, SameBuffer, Runs
  <2>2. f.phase = "pre"
    BY <1>1, <1>13, PhaseOf
  <2>3. {"CreateContext", "AddLaunchEvent", "GetLaunchId"} \cap Pending(f) = {}
    BY <1>1, <2>2, Entries
  <2>4. Entering(f.hook) \notin Pending(f)
    BY <2>3 DEF Entering
  <2>5. f.alone /\ ~f.failed => Instrumentable(f) = f.id
    BY <1>2, <2>2, <2>4 DEF Instrumentable, Named, Past, Api
  <2>6. g.event = f.event /\ g.sink = f.sink /\ m = l
    BY <1>6, <1>7, <1>8, <1>13
  <2> HIDE DEF f, g, l, m, w
  <2> QED BY <1>1, <1>2, <1>3, <2>1, <2>2, <2>3, <2>4, <2>5, <2>6 DEF Named, Past, Early
<1>14. CASE NextCall(t) \notin {"CreateContext", "AddLaunchEvent", "GetLaunchId", "ParseMetaData",
                            "RunDBITask"}
  <2>1. g.kernel = f.kernel /\ g.event = f.event /\ g.sink = f.sink /\ m = l
    BY <1>5, <1>6, <1>7, <1>8, <1>14
  <2>2. SameCall(f, g)
    BY <1>1
  <2> HIDE DEF f, g, l, m, w
  <2> QED BY <1>1, <1>2, <1>14, <2>1, <2>2, NamedKept
<1> QED BY <1>9, <1>11, <1>12, <1>13, <1>14

LEMMA OrderedWork ==
    ASSUME NEW t \in Threads, Types, IdsInv, CallInv, ManagerInv(t), Ordered(call[t]), Work(t)
    PROVE  Ordered(call'[t])
<1> DEFINE f == call[t]
           g == call'[t]
<1>1. /\ SameCall(f, g) /\ (f.failed => g.failed)
      /\ ~g.failed => Pending(g) = Pending(f) \ {NextCall(t)}
      /\ NextCall(t) \in PhaseCalls(f) /\ NextCall(t) \in Pending(f)
      /\ \A c \in Pending(f) : Rank(f.hook, NextCall(t)) <= Rank(f.hook, c)
  BY OwnStep
<1>2. g.phase = f.phase /\ g.hook = f.hook
  BY <1>1 DEF SameCall
<1> SUFFICES ASSUME f.phase = "init", ~g.failed, Entering(f.hook) \in Pending(g)
             PROVE  FALSE
  BY <1>2 DEF Ordered
<1> HIDE DEF f, g
<1>3. Entering(f.hook) \in Pending(f) /\ NextCall(t) # Entering(f.hook)
  BY <1>1
<1>4. Rank(f.hook, Entering(f.hook)) = 1
  BY Ranks DEF Entering
<1>5. NextCall(t) \in InitCalls(f.hook)
  BY <1>1 DEF PhaseCalls
<1>6. Rank(f.hook, NextCall(t)) <= 1
  BY <1>1, <1>3, <1>4
<1> QED BY <1>3, <1>5, <1>6, Ranks DEF InitCalls, Entering

\* Which calls stand between their two entries after a step.
LEMMA AmidWork ==
    ASSUME NEW t \in Threads, Types, IdsInv, CallInv, ManagerInv(t), Ordered(call[t]), Work(t),
           ~call'[t].failed, NEW a \in {"acl", "rt"}
    PROVE  /\ NextCall(t) \in {"CreateContext", "AddLaunchEvent"} /\ a = Api(call[t].hook) =>
                 ~Amid(call[t], a) /\ Amid(call'[t], a)
           /\ NextCall(t) = "ArchiveMemInfo" /\ a = Api(call[t].hook) =>
                 Amid(call[t], a) /\ ~Amid(call'[t], a)
           /\ NextCall(t) \notin {"CreateContext", "AddLaunchEvent", "ArchiveMemInfo"}
                 \/ a # Api(call[t].hook) =>
                 (Amid(call'[t], a) <=> Amid(call[t], a))
<1> DEFINE f == call[t]
           g == call'[t]
           h == NextCall(t)
<1>1. /\ SameCall(f, g) /\ (f.failed => g.failed) /\ f \in FrameT
      /\ Pending(g) = Pending(f) \ {h}
      /\ h \in PhaseCalls(f) /\ h \in Pending(f)
      /\ \A c \in Pending(f) : Rank(f.hook, h) <= Rank(f.hook, c)
  BY OwnStep
<1>2. h \in {"CreateContext", "AddLaunchEvent", "ArchiveMemInfo"} => f.phase = "init"
  BY <1>1, PhaseOf
<1>3. h \in {"CreateContext", "AddLaunchEvent"} => h = Entering(f.hook)
  BY <1>1, <1>2 DEF PhaseCalls, InitCalls, Entering
<1>4. h = Entering(f.hook) => "ArchiveMemInfo" \in Pending(f)
  BY <1>1, <1>2 DEF Ordered, InitCalls, Entering
<1>5. h = "ArchiveMemInfo" => Entering(f.hook) \notin Pending(f)
  BY <1>1, Ranks DEF Entering
<1>6. Entering(f.hook) \in {"CreateContext", "AddLaunchEvent"}
  BY DEF Entering
<1> HIDE DEF f, g, h
<1>7. CASE h \in {"CreateContext", "AddLaunchEvent"}
  BY <1>1, <1>2, <1>3, <1>4, <1>7 DEF Amid, SameCall, f, g, h
<1>8. CASE h = "ArchiveMemInfo"
  BY <1>1, <1>2, <1>5, <1>6, <1>8 DEF Amid, SameCall, f, g, h
<1>9. CASE h \notin {"CreateContext", "AddLaunchEvent", "ArchiveMemInfo"}
  BY <1>1, <1>6, <1>9 DEF Amid, SameCall, f, g, h
<1> QED BY <1>7, <1>8, <1>9 DEF h

LEMMA DumpsWork ==
    ASSUME NEW t \in Threads, Types, IdsInv, CallInv, ManagerInv(t), Work(t)
    PROVE  /\ NextCall(t) # "LaunchDumpTask" => dumps' = dumps
           /\ \A j \in Ids : j # call[t].id => dumps'[j] = dumps[j]
<1>1. CASE LaunchDumpTask(t)
  <2>1. NextCall(t) = "LaunchDumpTask"
    BY <1>1, HeadNames
  <2>2. \/ dumps' = dumps
        \/ \E v : dumps' = [dumps EXCEPT ![call[t].id] = v]
    BY <1>1 DEF LaunchDumpTask
  <2>3. DOMAIN dumps = Ids
    BY DEF Types, Ids
  <2>4. dumps \in Seq(Seq(Nat))
    BY DEF Types
  <2> QED BY <2>1, <2>2, <2>3, <2>4
<1>2. CASE ~LaunchDumpTask(t)
  BY <1>2 DEF Work, CreateContext, AddLaunchEvent, GetLaunchId, ReportKernelSummary,
       UpdateOpMemInfo, ParseMetaData, ArchiveMemInfo, InitStep, Finalize,
       SetSkipKernelFlag, ResetMemoryInit, FreeBuffer, ExpandArgs, RunDBITask, MakeInstrumented,
       Commit, Clone, Guards, GetEvent, GetBinary, SectionsMalloc, SectionsFree, OpMalloc,
       OpFree, Overflow, ClearArgsInfo, Sync, ExitAfterProcess, Registry, Buffers, Local, Telling
<1> QED BY <1>1, <1>2

\* A dump of a launch nobody overlapped, with archive and list in step.
LEMMA DumpMade ==
    ASSUME NEW t \in Threads, Types, IdsInv, CallInv, LaunchDumpTask(t),
           NEW a, a = Api(call[t].hook), LastOf(a) = call[t].id,
           dev[a].archive # <<>>, Last(dev[a].archive) = call[t].id,
           Len(dev[a].launches) = Len(dev[a].archive)
    PROVE  dumps'[call[t].id] = <<call[t].id, call[t].id>>
<1> DEFINE id == call[t].id
           l == dev[a].launches
           r == dev[a].archive
           n == Len(l)
<1>1. call[t] # NoCall /\ id \in Ids /\ id # None
  BY DEF LaunchDumpTask, At, IdsInv, FrameIds, Ids, None
<1>2. dev[a] \in DevT
  BY ApiOf DEF Types
<1>3. l \in Seq(Nat) /\ r \in Seq(Nat) /\ n \in Nat
  BY <1>2 DEF DevT
<1>4. l # <<>> /\ Last(l) = id
  BY <1>1 DEF LastOf
<1>5. n # 0 /\ l[n] = id /\ r[n] = id
  BY <1>3, <1>4 DEF Last
<1>6. dumps' = IF n = 0 \/ n > Len(r) THEN dumps
               ELSE [dumps EXCEPT ![id] = <<l[n], r[n]>>]
  BY DEF LaunchDumpTask
<1>7. dumps \in Seq(Seq(Nat)) /\ DOMAIN dumps = Ids
  BY DEF Types, Ids
<1>8. dumps' = [dumps EXCEPT ![id] = <<id, id>>]
  BY <1>3, <1>5, <1>6
<1> QED BY <1>1, <1>7, <1>8

LEMMA NoneFailedWork ==
    ASSUME NEW t \in Threads, Types, IdsInv, CallInv, ManagerInv(t), Work(t), NoneFailed', ~dead'
    PROVE  NoneFailed /\ ~dead /\ ~call[t].failed /\ ~call'[t].failed /\ done' = done
<1>1. /\ call[t] # NoCall /\ call'[t] # NoCall /\ info' = info /\ ~dead
      /\ call[t].failed => call'[t].failed
  BY OwnStep
<1>2. done' = done
  BY WorkDone
<1>3. \A u \in Threads : u # t => call'[u] = call[u]
  BY WorkCall DEF Others
<1>4. ~call'[t].failed
  BY <1>1 DEF NoneFailed
<1>5. \A u \in Threads : call[u] # NoCall => ~call[u].failed
  BY <1>1, <1>3, <1>4 DEF NoneFailed
<1>6. \A id \in Ids : done[id] # NoCall => ~done[id].failed
  BY <1>1, <1>2 DEF NoneFailed, Ids
<1> QED BY <1>1, <1>2, <1>4, <1>5, <1>6 DEF NoneFailed

LEMMA InStepWork ==
    ASSUME NEW t \in Threads, Types, IdsInv, CallInv, ManagerInv(t), Ordered(call[t]), InStep,
           Work(t)
    PROVE  InStep'
<1> SUFFICES ASSUME NoneFailed', ~dead', NEW a \in {"acl", "rt"}
             PROVE  /\ IsFiniteSet(Between(a)')
                    /\ Len(dev'[a].launches) = Len(dev'[a].archive) + Cardinality(Between(a)')
  BY DEF InStep
<1> DEFINE f == call[t]
           g == call'[t]
           B == Between(a)
           C == {u \in Threads : call'[u] # NoCall /\ Amid(call'[u], a)}
<1>1. Between(a)' = C
  BY DEF Between
<1>2. NoneFailed /\ ~dead /\ ~g.failed
  BY NoneFailedWork
<1>3. IsFiniteSet(B) /\ Len(dev[a].launches) = Len(dev[a].archive) + Cardinality(B)
  BY <1>2 DEF InStep
<1>4. /\ f # NoCall /\ g # NoCall /\ f \in FrameT
      /\ \A u \in Threads : u # t => call'[u] = call[u]
  BY OwnStep, WorkCall DEF Others
<1>5. \A u \in Threads : u # t => (u \in C <=> u \in B)
  BY <1>4 DEF Between
<1>6. (t \in C <=> Amid(g, a)) /\ (t \in B <=> Amid(f, a))
  BY <1>4 DEF Between
<1>7. B \subseteq Threads /\ C \subseteq Threads
  BY DEF Between
<1>8. /\ dev[a].launches \in Seq(Nat) /\ dev[a].archive \in Seq(Nat)
      /\ dev[a].args \in Nat /\ f.id \in Nat
  BY <1>4 DEF Types, DevT, FrameT
<1>9. Cardinality(B) \in Nat
  BY <1>3, FS_CardinalityType
<1>10. CASE NextCall(t) \in {"CreateContext", "AddLaunchEvent"} /\ a = Api(f.hook)
  <2>1. dev' = Entered(f)
    <3>1. CASE CreateContext(t)
      <4>1. PICK e : Gives(t, e) \/ (Makes(t, e) /\ dev' = Entered(f))
        BY <3>1, CreateContextFrame
      <4> QED BY <1>2, <4>1 DEF Gives, Runs
    <3>2. CASE AddLaunchEvent(t)
      <4>1. PICK e : Gives(t, e) \/ (MakesQuietly(t, e) /\ dev' = Entered(f))
        BY <3>2, AddLaunchEventFrame
      <4> QED BY <1>2, <4>1 DEF Gives, Runs
    <3> QED BY <1>10, <3>1, <3>2, HeadNames
  <2>2. /\ dev'[a].launches = Append(dev[a].launches, f.id)
        /\ dev'[a].archive = dev[a].archive
    BY <1>4, <1>10, <2>1, EnteredTypes
  <2>3. Len(dev'[a].launches) = Len(dev[a].launches) + 1
    BY <1>8, <2>2
  <2>4. t \notin B /\ C = B \cup {t}
    <3>1. ~Amid(f, a) /\ Amid(g, a)
      BY <1>2, <1>10, AmidWork
    <3> HIDE DEF f, g, B, C
    <3> QED BY <1>5, <1>6, <1>7, <3>1
  <2>5. IsFiniteSet(C) /\ Cardinality(C) = Cardinality(B) + 1
    BY <1>3, <2>4, FS_AddElement
  <2>6. Len(dev'[a].launches) = Len(dev'[a].archive) + Cardinality(C)
    <3>1. Len(dev[a].archive) \in Nat
      BY <1>8
    <3>2. Len(dev'[a].archive) = Len(dev[a].archive)
      BY <2>2
    <3> HIDE DEF B, C
    <3> QED BY <1>3, <1>9, <2>3, <2>5, <3>1, <3>2
  <2> QED BY <1>1, <2>5, <2>6
<1>11. CASE NextCall(t) = "ArchiveMemInfo" /\ a = Api(f.hook)
  <2>1. /\ dev'[a].archive = Append(dev[a].archive, dev[a].args)
        /\ dev'[a].launches = dev[a].launches
    BY <1>4, <1>11, HeadNames, ArchivedTypes
  <2>2. Len(dev'[a].archive) = Len(dev[a].archive) + 1
    BY <1>8, <2>1
  <2>3. t \in B /\ C = B \ {t}
    <3>1. Amid(f, a) /\ ~Amid(g, a)
      BY <1>2, <1>11, AmidWork
    <3> HIDE DEF f, g, B, C
    <3> QED BY <1>5, <1>6, <1>7, <3>1
  <2>4. IsFiniteSet(C) /\ Cardinality(C) = Cardinality(B) - 1
    BY <1>3, <2>3, FS_RemoveElement
  <2> QED BY <1>1, <1>3, <1>8, <1>9, <2>1, <2>2, <2>4
<1>12. CASE NextCall(t) \notin {"CreateContext", "AddLaunchEvent", "ArchiveMemInfo"}
               \/ a # Api(f.hook)
  <2>1. C = B
    <3>1. Amid(g, a) <=> Amid(f, a)
      BY <1>2, <1>12, AmidWork
    <3> HIDE DEF f, g, B, C
    <3> QED BY <1>5, <1>6, <1>7, <3>1
  <2>2. dev'[a].launches = dev[a].launches /\ dev'[a].archive = dev[a].archive
    <3>1. CASE CreateContext(t) \/ AddLaunchEvent(t)
      BY <3>1, <1>12, HeadNames, <1>4, EnteredTypes DEF CreateContext, AddLaunchEvent
    <3>2. CASE ArchiveMemInfo(t)
      BY <1>12, <3>2, HeadNames, <1>4, ArchivedTypes
    <3>3. CASE ~(CreateContext(t) \/ AddLaunchEvent(t) \/ ArchiveMemInfo(t))
      BY <3>3, DevParts
    <3> QED BY <3>1, <3>2, <3>3
  <2> QED BY <1>1, <1>3, <2>1, <2>2
<1> QED BY <1>10, <1>11, <1>12

LEMMA ArchiveWork ==
    ASSUME NEW t \in Threads, Types, IdsInv, CallInv, ManagerInv(t), AloneInv, NamedInv(t),
           InStep, ArchiveInv(t), Work(t)
    PROVE  ArchiveInv(t)'
<1> PICK a \in {"acl", "rt"} : a = Api(call[t].hook)
  BY ApiOf
<1> DEFINE f == call[t]
           g == call'[t]
           s == NoneFailed /\ ~dead
           r == NoneFailed' /\ ~dead'
<1>1. /\ f # NoCall /\ g # NoCall /\ f \in FrameT /\ g \in FrameT /\ ScriptInv(f)
      /\ SameCall(f, g) /\ info' = info /\ (f.failed => g.failed)
      /\ ~g.failed => Pending(g) = Pending(f) \ {NextCall(t)}
      /\ NextCall(t) \in PhaseCalls(f) /\ NextCall(t) \in Pending(f)
      /\ \A c \in Pending(f) : Rank(f.hook, NextCall(t)) <= Rank(f.hook, c)
      /\ f.id \in Ids /\ f.id # None
  BY OwnStep
<1>2. /\ g.phase = f.phase /\ g.hook = f.hook /\ g.id = f.id /\ g.alone = f.alone
      /\ g.skip = f.skip
  BY <1>1 DEF SameCall
<1>3. Filed(f, dev[a].args, dev[a].archive, dumps[f.id], s)
  BY <1>1 DEF ArchiveInv
<1>4. SUFFICES Filed(g, dev'[a].args, dev'[a].archive, dumps'[f.id], r)
  BY <1>2 DEF ArchiveInv
<1>5. r => s
  BY NoneFailedWork
<1>6. g.ok = f.ok
  BY OkKept
<1>7. f.phase # "init" => g.sink = f.sink
  BY SinkKept
<1>8. NextCall(t) # "LaunchDumpTask" => dumps' = dumps
  BY DumpsWork
<1>9. NextCall(t) # "ArchiveMemInfo" => dev'[a].archive = dev[a].archive
  BY HeadNames, DevParts
<1>10. NextCall(t) \notin {"UpdateOpMemInfo", "ParseMetaData", "OpFree", "ClearArgsInfo"} =>
          dev'[a].args = dev[a].args
  BY HeadNames, DevParts
<1>11. CASE NextCall(t) \in {"UpdateOpMemInfo", "ParseMetaData"}
  <2>1. dev'[a].args = f.id
    BY <1>11, HeadNames, <1>1, DescribedTypes DEF UpdateOpMemInfo, ParseMetaData
  <2>2. f.phase = "init"
    BY <1>1, <1>11, PhaseOf
  <2>3. dev'[a].archive = dev[a].archive
    BY <1>9, <1>11
  <2> HIDE DEF f, g, s, r
  <2> QED BY <1>1, <1>2, <1>3, <1>11, <2>1, <2>2, <2>3 DEF Filed, Past
<1>12. CASE NextCall(t) = "ArchiveMemInfo"
  <2>1. dev'[a].archive = Append(dev[a].archive, dev[a].args)
    BY <1>1, <1>12, HeadNames, ArchivedTypes
  <2>2. f.phase = "init"
    BY <1>1, <1>12, PhaseOf
  <2>3. Past(f, Describing(f.hook))
    BY <1>1, <1>12, Ranks, <2>2 DEF Describing, Past
  <2>4. dev'[a].archive # <<>> /\ Last(dev'[a].archive) = dev[a].args
    <3> DEFINE l == dev[a].archive
               m == dev'[a].archive
               v == dev[a].args
    <3>1. l \in Seq(Nat) /\ v \in Nat /\ m = Append(l, v)
      BY <2>1 DEF Types, DevT
    <3>2. m \in Seq(Nat) /\ m # <<>> /\ Len(m) = Len(l) + 1 /\ m[Len(l) + 1] = v
      <4> HIDE DEF l, m, v
      <4> QED BY <3>1, SeqMore
    <3> QED BY <3>2 DEF Last
  <2> HIDE DEF f, g, s, r
  <2> QED BY <1>1, <1>2, <1>3, <1>12, <2>2, <2>3, <2>4 DEF Filed
<1>13. CASE NextCall(t) = "LaunchDumpTask"
  <2>1. f.phase = "post"
    BY <1>1, <1>13, PhaseOf
  <2>2. dev'[a].archive = dev[a].archive
    BY <1>9, <1>13
  <2>3. ASSUME f.alone, ~f.failed, r PROVE dumps'[f.id] = <<f.id, f.id>>
    <3>1. {"CreateContext", "AddLaunchEvent", "GetLaunchId"} \cap Pending(f) = {}
      BY <1>1, <2>1, Entries
    <3>2. LastOf(a) = f.id
      BY <1>1, <2>1, <2>3, <3>1 DEF NamedInv, Named, Past, Entering
    <3>3. "ArchiveMemInfo" \notin Pending(f)
      BY <1>1, <2>1, PhaseOf DEF ScriptInv
    <3>4. dev[a].archive # <<>> /\ Last(dev[a].archive) = f.id
      BY <1>3, <2>1, <2>3, <3>3 DEF Filed, Past
    <3>5. Between(a) = {}
      BY <1>1, <2>3, <2>1 DEF AloneInv, Amid, Between
    <3>6. Len(dev[a].launches) = Len(dev[a].archive)
      <4>1. Len(dev[a].launches) = Len(dev[a].archive) + Cardinality({})
        BY <1>5, <2>3, <3>5 DEF InStep
      <4>2. dev[a].archive \in Seq(Nat)
        BY DEF Types, DevT
      <4> QED BY <4>1, <4>2, FS_EmptySet
    <3> QED BY <1>13, <3>2, <3>4, <3>6, HeadNames, DumpMade
  <2> HIDE DEF f, g, s, r
  <2> QED BY <1>1, <1>2, <1>3, <1>13, <2>1, <2>2, <2>3 DEF Filed, Past
<1>14. CASE NextCall(t) \notin {"UpdateOpMemInfo", "ParseMetaData", "ArchiveMemInfo",
                            "LaunchDumpTask"}
  <2>1. dev'[a].archive = dev[a].archive /\ dumps' = dumps
    BY <1>8, <1>9, <1>14
  <2>2. f.phase = "init" => dev'[a].args = dev[a].args
    BY <1>1, <1>10, <1>14, PhaseOf DEF Withdrawals
  <2>3. NextCall(t) # Describing(f.hook)
    BY <1>14 DEF Describing
  <2> HIDE DEF f, g, s, r
  <2> QED BY <1>1, <1>2, <1>3, <1>5, <1>6, <1>7, <1>14, <2>1, <2>2, <2>3 DEF Filed, Past
<1> QED BY <1>11, <1>12, <1>13, <1>14

-----------------------------------------------------------------------------
(* A call that enters its next phase, and one that ends, seen from its launch. *)

LEMMA AdvanceSteps ==
    ASSUME NEW t \in Threads, Types, IdsInv, CallInv, Advance(t), call'[t] # NoCall,
           NEW f, f = call[t], NEW g, g = call'[t]
    PROVE  /\ Enters(t, g) /\ (f.failed => g.failed)
           /\ \/ /\ f.phase = "open" /\ g.phase = "init" /\ Pending(g) = InitCalls(g.hook)
              \/ /\ f.phase = "init" /\ g.phase = "pre" /\ g.skip = Asked(t)
              \/ /\ f.phase = "pre" /\ g.phase = "post" /\ g.skip = f.skip
                 /\ Pending(g) = PostCalls(g.hook, g.skip, g.sink, g.mem # None)
              \/ g.failed /\ g.phase \in {"post", "end"}
              \/ /\ f.phase \in {"post", "end"} /\ g.phase \in {"end", "close"}
                 /\ g.skip = f.skip /\ g.ok = f.ok
<1>1. /\ AtPhaseEnd(t)
      /\ OpenEnds(t) \/ ToPre(t) \/ Launch(t) \/ PostEnds(t) \/ EndEnds(t) \/ Returns(t)
  BY AdvanceCases
<1>2. ~Returns(t)
  BY DEF Returns, Types
<1>3. \A e : Enters(t, e) => g = e
  BY DEF Enters
<1>4. CASE OpenEnds(t)
  <2>1. PICK e : /\ Enters(t, e) /\ f.phase = "open" /\ e.phase = "init"
                 /\ Pending(e) = InitCalls(e.hook) /\ e.failed = f.failed
    BY <1>1, <1>4, OpenEndsFrame
  <2>2. g = e
    BY <1>3, <2>1
  <2> QED BY <2>1, <2>2
<1>5. CASE ToPre(t)
  <2>1. PICK e : /\ Enters(t, e) /\ f.phase = "init" /\ e.phase = "pre"
                 /\ e.skip = Asked(t) /\ e.failed = f.failed
    BY <1>1, <1>5, ToPreFrame
  <2>2. g = e
    BY <1>3, <2>1
  <2> QED BY <2>1, <2>2
<1>6. CASE Launch(t)
  <2>1. PICK e :
       /\ Enters(t, e) /\ f.phase \in {"init", "pre"} /\ (f.phase = "init" => ~f.tracked)
       /\ e.skip = f.skip
       /\ \/ e.phase = "end" /\ Pending(e) = {}
          \/ /\ e.phase = "post" /\ e.tracked
             /\ Pending(e) = PostCalls(e.hook, e.skip, e.sink, e.mem # None)
       /\ \/ /\ f.abort /\ e.phase = "end" /\ e.failed = f.failed
             /\ e.running = f.running /\ e.ok = f.ok
          \/ /\ ~f.abort /\ e.failed = f.failed /\ e.running /\ e.ok
             /\ (f.tracked => e.phase = "post")
          \/ /\ ~f.abort /\ e.failed /\ e.running = f.running /\ e.ok = f.ok
             /\ (f.hook \in RtHooks => e.phase = "post")
    BY <1>1, <1>6, LaunchFrame
  <2>2. g = e
    BY <1>3, <2>1
  <2>3. FrameInv(f) /\ f \in FrameT /\ e \in FrameT
    BY <2>1 DEF Enters
  <2>4. (f.abort => f.failed) /\ (~f.tracked => f.failed)
    BY <2>3 DEF FrameInv
  <2>5. f.failed => e.failed
    BY <2>1
  <2>6. e.failed \/ (f.phase = "pre" /\ e.phase = "post")
    BY <2>1, <2>4
  <2> QED BY <2>1, <2>2, <2>5, <2>6
<1>7. CASE PostEnds(t)
  <2>1. PICK e : /\ Enters(t, e) /\ f.phase = "post" /\ e.phase = "end" /\ e.skip = f.skip
                 /\ e.failed = f.failed /\ SameCourse(f, e)
    BY <1>1, <1>7, PostEndsFrame
  <2>2. g = e
    BY <1>3, <2>1
  <2> QED BY <2>1, <2>2 DEF SameCourse
<1>8. CASE EndEnds(t)
  <2>1. PICK e : /\ Enters(t, e) /\ f.phase = "end" /\ e.phase = "close" /\ e.skip = f.skip
                 /\ e.failed = f.failed /\ SameCourse(f, e)
    BY <1>1, <1>8, EndEndsFrame
  <2>2. g = e
    BY <1>3, <2>1
  <2> QED BY <2>1, <2>2 DEF SameCourse
<1> QED BY <1>1, <1>2, <1>4, <1>5, <1>6, <1>7, <1>8

LEMMA AdvanceKeeps ==
    ASSUME NEW t \in Threads, Types, IdsInv, CallInv, Advance(t)
    PROVE  /\ UNCHANGED <<info, dev, dumps, dead>>
           /\ call'[t] # NoCall => done' = done
           /\ call'[t] = NoCall => Returns(t) /\ Ends(t)
<1>1. UNCHANGED <<info, dev, dumps, dead>>
  BY DEF Advance, ToPre, Launch, Moves
<1>2. done' = done \/ Returns(t)
  BY DEF Advance, ToPre, Launch, Moves, Returns
<1>3. Returns(t) => call'[t] = NoCall /\ Ends(t)
  BY DEF Returns, Ends, Types
<1>4. call'[t] = NoCall => Returns(t)
  BY AdvanceCall
<1> QED BY <1>1, <1>2, <1>3, <1>4

LEMMA NoneFailedAdvance ==
    ASSUME NEW t \in Threads, Types, IdsInv, CallInv, OwnersInv, Advance(t), NoneFailed', ~dead
    PROVE  NoneFailed
<1>1. /\ info' = info /\ call[t] # NoCall /\ call[t].id \in Ids /\ call[t] \in FrameT
      /\ \A u \in Threads : u # t => call'[u] = call[u]
  BY AdvanceKeeps, AdvanceCall DEF Others, IdsInv, FrameIds
<1>2. DOMAIN done = Ids /\ done \in Seq(FrameT \cup {NoCall})
  BY DEF Types, Ids
<1>3. CASE call'[t] # NoCall
  BY <1>3, AdvanceKeeps, AdvanceSteps, <1>1 DEF NoneFailed, Ids
<1>4. CASE call'[t] = NoCall
  <2>1. done' = [done EXCEPT ![call[t].id] = call[t]]
    BY <1>4, AdvanceKeeps DEF Ends
  <2>2. done'[call[t].id] = call[t] /\ \A j \in Ids : j # call[t].id => done'[j] = done[j]
    BY <1>1, <1>2, <2>1
  <2>3. ~call[t].failed
    BY <1>1, <2>2 DEF NoneFailed, Ids
  <2>4. \A u \in Threads : call[u] # NoCall => ~call[u].failed
    BY <1>1, <2>3 DEF NoneFailed
  <2>5. done[call[t].id] = NoCall
    BY <1>1 DEF OwnersInv
  <2>6. ASSUME NEW j \in Ids, done[j] # NoCall PROVE ~done[j].failed
    BY <1>1, <2>2, <2>5, <2>6 DEF Ids, NoneFailed
  <2> QED BY <2>4, <2>6 DEF NoneFailed
<1> QED BY <1>3, <1>4

\* What each phase starts with.
LEMMA PhaseStarts ==
    ASSUME NEW h \in Hooks
    PROVE  /\ {Entering(h), Describing(h), "ArchiveMemInfo"} \subseteq InitCalls(h)
           /\ \A m \in BOOLEAN : "LaunchDumpTask" \in PostCalls(h, FALSE, TRUE, m)
           /\ \A m \in BOOLEAN : "ExitAfterProcess" \notin PostCalls(h, FALSE, TRUE, m)
BY DEF InitCalls, PostCalls, Entering, Describing, Hooks

LEMMA NamedAdvance ==
    ASSUME NEW t \in Threads, Types, IdsInv, CallInv, NamedInv(t), Advance(t), call'[t] # NoCall
    PROVE  NamedInv(t)'
<1> DEFINE f == call[t]
           g == call'[t]
           w == info[f.id]
<1> PICK a \in {"acl", "rt"} : a = Api(f.hook)
  BY ApiOf
<1> DEFINE l == LastOf(a)
<1>1. /\ Enters(t, g) /\ (f.failed => g.failed)
      /\ \/ /\ f.phase = "open" /\ g.phase = "init" /\ Pending(g) = InitCalls(g.hook)
         \/ /\ f.phase = "init" /\ g.phase = "pre" /\ g.skip = Asked(t)
         \/ /\ f.phase = "pre" /\ g.phase = "post" /\ g.skip = f.skip
         \/ g.failed /\ g.phase \in {"post", "end"}
         \/ /\ f.phase \in {"post", "end"} /\ g.phase \in {"end", "close"}
            /\ g.skip = f.skip /\ g.ok = f.ok
  BY AdvanceSteps
<1>2. /\ g.hook = f.hook /\ g.id = f.id /\ g.alone = f.alone /\ g.kernel = f.kernel
      /\ g.event = f.event /\ g.sink = f.sink /\ Pending(f) = {} /\ f \in FrameT
      /\ g \in FrameT /\ f # NoCall
  BY <1>1, EntersSame
<1>3. Named(f, l, w)
  BY <1>2 DEF NamedInv
<1>4. info' = info /\ dev' = dev
  BY AdvanceKeeps
<1>5. SUFFICES Named(g, l, w)
  BY <1>2, <1>4 DEF LastOf, NamedInv
<1>6. f.phase = "init" /\ f.alone /\ ~f.failed => Asked(t) = w.skip
  <2> SUFFICES ASSUME f.phase = "init", f.alone, ~f.failed PROVE Asked(t) = w.skip
    OBVIOUS
  <2>1. l = f.id
    BY <1>2, <1>3 DEF Named, Past
  <2>2. f.id # None /\ f.id \in 1..Len(info)
    BY <1>2 DEF IdsInv, FrameIds, Ids, None
  <2>3. info \in Seq([skip : BOOLEAN, sink : BOOLEAN])
    BY DEF Types
  <2>4. w \in [skip : BOOLEAN, sink : BOOLEAN]
    BY <2>2, <2>3, SeqElement
  <2>5. w.skip \in BOOLEAN
    BY <2>4
  <2>6. a = "rt" => Sees(LastOf("rt"), "skip") = (f.id # None /\ w["skip"])
    BY <2>1 DEF Sees
  <2>7. a = "rt" => Sees(LastOf("rt"), "skip") = w.skip
    BY <2>2, <2>5, <2>6
  <2> QED BY <2>7 DEF Asked
<1>7. g.phase = "init" /\ Pending(g) = InitCalls(g.hook) => ~Past(g, Entering(g.hook))
  BY <1>2, PhaseStarts DEF Past, FrameT
<1> HIDE DEF f, g, l, w
<1> QED BY <1>1, <1>2, <1>3, <1>6, <1>7 DEF Named, Past, Early

LEMMA ArchiveAdvance ==
    ASSUME NEW t \in Threads, Types, IdsInv, CallInv, OwnersInv, ArchiveInv(t), Advance(t),
           call'[t] # NoCall
    PROVE  ArchiveInv(t)' /\ Ordered(call'[t])
<1> PICK a \in {"acl", "rt"} : a = Api(call[t].hook)
  BY ApiOf
<1> DEFINE f == call[t]
           g == call'[t]
           args == dev[a].args
           archive == dev[a].archive
           dump == dumps[f.id]
           s == NoneFailed /\ ~dead
           r == NoneFailed' /\ ~dead'
<1>1. /\ Enters(t, g) /\ (f.failed => g.failed)
      /\ \/ /\ f.phase = "open" /\ g.phase = "init" /\ Pending(g) = InitCalls(g.hook)
         \/ /\ f.phase = "init" /\ g.phase = "pre"
         \/ /\ f.phase = "pre" /\ g.phase = "post" /\ g.skip = f.skip
            /\ Pending(g) = PostCalls(g.hook, g.skip, g.sink, g.mem # None)
         \/ g.failed /\ g.phase \in {"post", "end"}
         \/ /\ f.phase \in {"post", "end"} /\ g.phase \in {"end", "close"}
            /\ g.skip = f.skip /\ g.ok = f.ok
  BY AdvanceSteps
<1>2. /\ g.hook = f.hook /\ g.id = f.id /\ g.alone = f.alone
      /\ g.sink = f.sink /\ Pending(f) = {} /\ f \in FrameT /\ g \in FrameT /\ f # NoCall
  BY <1>1, EntersSame
<1>3. Filed(f, args, archive, dump, s)
  BY <1>2 DEF ArchiveInv
<1>4. info' = info /\ dev' = dev /\ dumps' = dumps /\ dead' = dead
  BY AdvanceKeeps
<1>5. r => s
  BY <1>4, NoneFailedAdvance
<1>6. SUFFICES Filed(g, args, archive, dump, r) /\ Ordered(g)
  BY <1>2, <1>4 DEF ArchiveInv
<1>7. {Entering(g.hook), Describing(g.hook), "ArchiveMemInfo"} \subseteq InitCalls(g.hook)
  BY <1>2, PhaseStarts DEF FrameT
<1>8. g.sink /\ ~g.skip => "LaunchDumpTask" \in PostCalls(g.hook, g.skip, g.sink, g.mem # None)
  BY <1>2, PhaseStarts DEF FrameT
<1> HIDE DEF f, g, args, archive, dump, s, r
<1>9. Ordered(g)
  BY <1>1 DEF Ordered
<1> QED BY <1>1, <1>2, <1>3, <1>5, <1>7, <1>8, <1>9 DEF Filed, Past

-----------------------------------------------------------------------------
(* Launches that ended, and the invariant of all of this. *)

LEMMA OwnParts ==
    ASSUME OwnWorld
    PROVE  /\ ReportWorld /\ Types /\ IdsInv /\ CallInv /\ OwnersInv
           /\ AloneInv /\ OpenInv /\ InStep
           /\ \A t \in Threads : /\ ManagerInv(t) /\ NamedInv(t) /\ ArchiveInv(t)
                                 /\ call[t] # NoCall => /\ call[t] \in FrameT /\ call[t].id \in Ids
                                                        /\ Ordered(call[t])
           /\ \A id \in Ids : OwnWell(id)
BY ReportParts DEF OwnWorld, OrderedInv

LEMMA OwnWellKept ==
    ASSUME NEW id \in Nat, OwnWell(id), done'[id] = done[id],
           done[id] # NoCall => dumps'[id] = dumps[id] /\ info'[id] = info[id],
           \A j \in 1..id : done[j] # NoCall => done'[j] = done[j]
    PROVE  OwnWell(id)'
BY DEF OwnWell

\* A call ends after its dump.
LEMMA OwnEnded ==
    ASSUME NEW t \in Threads, OwnWorld, call[t] # NoCall, ~dead, Ends(t),
           call[t].phase \in {"post", "close"}, "LaunchDumpTask" \notin Pending(call[t]),
           call[t].phase = "post" => ~(call[t].sink /\ ~call[t].skip),
           UNCHANGED <<info, dumps>>, NEW id, id = call[t].id
    PROVE  OwnWell(id)'
<1> DEFINE f == call[t]
<1>1. /\ Types /\ f \in FrameT /\ f # NoCall /\ id \in Ids /\ NamedInv(t) /\ ArchiveInv(t)
      /\ OpenInv /\ AloneInv /\ OwnersInv /\ ScriptInv(f)
  BY OwnParts DEF CallInv
<1>2. done \in Seq(FrameT \cup {NoCall}) /\ DOMAIN done = Ids /\ Ids = 1..Len(info)
      /\ Len(info) \in Nat
  BY <1>1, InfoNat DEF Types, Ids
<1>3. done'[id] = f /\ \A j \in Ids : j # id => done'[j] = done[j]
  BY <1>1, <1>2 DEF Ends
<1>4. SUFFICES ASSUME f.alone, ~f.failed
               PROVE  /\ f.kernel = id /\ f.event = id
                      /\ f.skip = info[id].skip /\ f.sink = info[id].sink
                      /\ \A j \in 1..id : done'[j] # NoCall
                      /\ f.sink /\ f.ok /\ ~f.skip /\ (\A j \in 1..id : ~done'[j].failed) =>
                            dumps[id] = <<id, id>>
  <2>1. done'[id] = f /\ info' = info /\ dumps' = dumps
    BY <1>3
  <2> HIDE DEF f
  <2> QED BY <2>1 DEF OwnWell
<1>5. Named(f, LastOf(Api(f.hook)), info[id])
  BY <1>1 DEF NamedInv
<1>6. {"CreateContext", "AddLaunchEvent", "GetLaunchId"} \cap Pending(f) = {}
  BY <1>1, Entries
<1>7. f.phase # "open" /\ Entering(f.hook) \notin Pending(f) /\ "GetLaunchId" \notin Pending(f)
  BY <1>6 DEF Entering
<1>8. /\ f.kernel = id /\ f.event = id /\ f.skip = info[id].skip /\ f.sink = info[id].sink
  BY <1>4, <1>5, <1>7 DEF Named, Past, Early
<1>9. id = Len(info) /\ \A u \in Threads : u # t => call[u] = NoCall
  BY <1>1, <1>4 DEF AloneInv
<1>10. ASSUME NEW j \in 1..id PROVE done'[j] # NoCall
  <2>1. CASE j = id
    BY <1>1, <1>3, <2>1
  <2>2. CASE j # id
    <3>1. j \in Ids
      BY <1>2, <1>9
    <3>2. done[j] # NoCall
      <4> SUFFICES ASSUME done[j] = NoCall PROVE FALSE
        OBVIOUS
      <4>1. PICK u \in Threads : call[u] # NoCall /\ call[u].id = j
        BY <1>1, <3>1 DEF OpenInv
      <4> QED BY <1>9, <2>2, <4>1
    <3> QED BY <1>3, <2>2, <3>1, <3>2
  <2> QED BY <2>1, <2>2
<1>11. ASSUME f.sink, f.ok, ~f.skip, \A j \in 1..id : ~done'[j].failed
       PROVE  dumps[id] = <<id, id>>
  <2>1. done[id] = NoCall
    BY <1>1 DEF OwnersInv
  <2>2. \A j \in Ids : done[j] # NoCall => ~done[j].failed
    BY <1>2, <1>3, <1>9, <1>11, <2>1
  <2>3. \A u \in Threads : call[u] # NoCall => ~call[u].failed
    BY <1>4, <1>9
  <2>4. NoneFailed
    BY <2>2, <2>3 DEF NoneFailed
  <2>5. f.phase = "close"
    BY <1>11
  <2> QED BY <1>1, <1>4, <1>11, <2>4, <2>5 DEF ArchiveInv, Filed
<1> QED BY <1>8, <1>10, <1>11

LEMMA DoneKept ==
    ASSUME NEW t \in Threads, Work(t), ~ExitAfterProcess(t)
    PROVE  done' = done /\ dead' = dead
BY DEF Work, CreateContext, AddLaunchEvent, GetLaunchId, UpdateOpMemInfo, ParseMetaData,
     ArchiveMemInfo, InitStep, Finalize, SetSkipKernelFlag, ResetMemoryInit, FreeBuffer,
     ExpandArgs, RunDBITask, MakeInstrumented, Commit, Clone, Guards, ReportKernelSummary,
     GetEvent, GetBinary, SectionsMalloc, SectionsFree, OpMalloc, OpFree, Overflow,
     ClearArgsInfo, LaunchDumpTask, Sync, Registry, Buffers, Local, Telling

LEMMA OwnExits ==
    ASSUME NEW t \in Threads, OwnWorld, ExitAfterProcess(t), Ends(t),
           NEW id, id = call[t].id
    PROVE  OwnWell(id)'
<1> DEFINE f == call[t]
<1>1. /\ Types /\ CallInv /\ f # NoCall /\ ~dead /\ f \in FrameT /\ ScriptInv(f)
  BY OwnParts DEF ExitAfterProcess, At, CallInv
<1>2. NextCall(t) = "ExitAfterProcess" /\ NextCall(t) \in PhaseCalls(f)
  BY <1>1, PhaseAt DEF ExitAfterProcess
<1>3. f.phase = "post"
  BY <1>1, <1>2, PhaseOf
<1>4. "ExitAfterProcess" \in PostCalls(f.hook, f.skip, f.sink, f.mem # None)
  BY <1>2, <1>3 DEF PhaseCalls
<1>5. f.hook \in Hooks /\ f.skip \in BOOLEAN /\ f.sink \in BOOLEAN
  BY <1>1 DEF FrameT
<1>6. ~(f.sink /\ ~f.skip)
  BY <1>4, <1>5, PhaseStarts
<1>7. "LaunchDumpTask" \notin Pending(f)
  <2>1. \A c \in Pending(f) : Rank(f.hook, "ExitAfterProcess") <= Rank(f.hook, c)
    <3>1. f.todo # <<>> /\ f.todo \in Seq(StepT) /\ f.todo[1].call = "ExitAfterProcess"
      BY <1>1 DEF ExitAfterProcess, At, FrameT
    <3>2. Sorted(f.hook, f.todo)
      BY <1>1 DEF ScriptInv
    <3> QED BY <3>1, <3>2, RankNat DEF Sorted, Pending, CallsIn
  <2> QED BY <2>1, Ranks
<1>8. UNCHANGED <<info, dumps>>
  BY DEF ExitAfterProcess
<1> QED BY <1>1, <1>3, <1>6, <1>7, <1>8, OwnEnded

LEMMA OwnWorldWork ==
    ASSUME NEW t \in Threads, OwnWorld, Work(t)
    PROVE  OwnWorld'
<1>1. /\ ReportWorld /\ Types /\ IdsInv /\ CallInv /\ OwnersInv /\ ManagerInv(t)
      /\ AloneInv /\ OpenInv /\ InStep /\ NamedInv(t) /\ ArchiveInv(t)
      /\ \A u \in Threads : NamedInv(u) /\ ArchiveInv(u)
                            /\ (call[u] # NoCall => call[u].id \in Ids /\ Ordered(call[u]))
      /\ \A id \in Ids : OwnWell(id)
  BY OwnParts
<1>2. /\ call[t] # NoCall /\ call'[t] # NoCall /\ info' = info /\ ~dead
      /\ SameCall(call[t], call'[t])
      /\ \A u \in Threads : u # t => call'[u] = call[u]
  BY <1>1, OwnStep, WorkCall DEF Others
<1>3. call'[t].id = call[t].id /\ call'[t].alone = call[t].alone /\ Ordered(call[t])
  BY <1>1, <1>2 DEF SameCall
<1>4. ReportWorld' /\ InStep' /\ NamedInv(t)' /\ ArchiveInv(t)' /\ Ordered(call'[t])
  BY <1>1, <1>3, ReportWorldWork, InStepWork, NamedWork, ArchiveWork, OrderedWork
<1>5. AloneInv'
  BY <1>1, <1>2, <1>3 DEF AloneInv
<1>6. OpenInv'
  <2>1. CASE ExitAfterProcess(t) /\ dead'
    BY <2>1 DEF OpenInv
  <2>2. CASE ~(ExitAfterProcess(t) /\ dead')
    BY <2>2, DoneKept, <1>1, <1>2, <1>3 DEF ExitAfterProcess, OpenInv, Ids
  <2> QED BY <2>1, <2>2
<1>7. \A u \in Threads : call'[u] # NoCall => Ordered(call'[u])
  BY <1>1, <1>2, <1>4
<1>8. ASSUME NEW u \in Threads, u # t PROVE NamedInv(u)' /\ ArchiveInv(u)'
  BY <1>1, <1>2, <1>8 DEF AloneInv, NamedInv, ArchiveInv, Named, Filed
<1>9. ASSUME NEW id \in Ids PROVE OwnWell(id)'
  <2>1. /\ OwnWell(id) /\ done[call[t].id] = NoCall /\ call[t].id \in Ids
        /\ \A j \in Ids : j # call[t].id => dumps'[j] = dumps[j]
        /\ id \in Nat /\ \A j \in 1..id : j \in Ids
    BY <1>1, <1>2, DumpsWork, InfoNat DEF OwnersInv, Ids
  <2>2. CASE done' = done
    BY <2>1, <1>2, <2>2, OwnWellKept
  <2>3. CASE done' # done
    <3>1. ExitAfterProcess(t)
      BY <2>3, DoneKept
    <3>2. Ends(t)
      BY <2>3, <3>1 DEF ExitAfterProcess, Ends
    <3>3. \A j \in Ids : j # call[t].id => done'[j] = done[j]
      BY <1>1, <3>2 DEF Ends, Types, Ids
    <3>4. CASE id = call[t].id
      BY <3>1, <3>2, <3>4, OwnExits
    <3>5. CASE id # call[t].id
      BY <2>1, <3>3, <1>2, <3>5, OwnWellKept
    <3> QED BY <3>4, <3>5
  <2> QED BY <2>2, <2>3
<1>10. \A id \in Ids' : OwnWell(id)'
  BY <1>2, <1>9 DEF Ids
<1> QED BY <1>4, <1>5, <1>6, <1>7, <1>8, <1>10 DEF OwnWorld, OrderedInv

LEMMA OwnWorldAdvance ==
    ASSUME NEW t \in Threads, OwnWorld, Advance(t)
    PROVE  OwnWorld'
<1>1. /\ ReportWorld /\ Types /\ IdsInv /\ CallInv /\ OwnersInv /\ ManagerInv(t)
      /\ AloneInv /\ OpenInv /\ InStep /\ NamedInv(t) /\ ArchiveInv(t)
      /\ \A u \in Threads : NamedInv(u) /\ ArchiveInv(u)
                            /\ (call[u] # NoCall => call[u].id \in Ids /\ Ordered(call[u]))
      /\ \A id \in Ids : OwnWell(id)
  BY OwnParts
<1>2. /\ call[t] # NoCall /\ call[t] \in FrameT /\ info' = info /\ ~dead /\ dead' = dead
      /\ dev' = dev /\ dumps' = dumps
      /\ \A u \in Threads : u # t => call'[u] = call[u]
      /\ call'[t] # NoCall => done' = done
      /\ call'[t] = NoCall => Returns(t) /\ Ends(t)
  BY <1>1, AdvanceCall, AdvanceKeeps DEF Others
<1>3. call'[t] # NoCall => call'[t].id = call[t].id /\ call'[t].alone = call[t].alone
                           /\ call'[t].hook = call[t].hook
  <2> SUFFICES ASSUME call'[t] # NoCall
               PROVE  call'[t].id = call[t].id /\ call'[t].alone = call[t].alone
                      /\ call'[t].hook = call[t].hook
    OBVIOUS
  <2>1. Enters(t, call'[t])
    BY <1>1, AdvanceSteps
  <2> QED BY <2>1, EntersSame
<1>4. ReportWorld'
  BY <1>1, ReportWorldAdvance
<1>5. call'[t] # NoCall => NamedInv(t)' /\ ArchiveInv(t)' /\ Ordered(call'[t])
  BY <1>1, NamedAdvance, ArchiveAdvance
<1>6. call'[t] = NoCall => NamedInv(t)' /\ ArchiveInv(t)'
  BY DEF NamedInv, ArchiveInv
<1>7. AloneInv'
  BY <1>1, <1>2, <1>3 DEF AloneInv
<1>8. \A u \in Threads : call'[u] # NoCall => Ordered(call'[u])
  BY <1>1, <1>2, <1>5
<1>9. ASSUME NEW u \in Threads, u # t PROVE NamedInv(u)' /\ ArchiveInv(u)'
  BY <1>1, <1>2, <1>9 DEF AloneInv, NamedInv, ArchiveInv, Named, Filed
<1>10. done \in Seq(FrameT \cup {NoCall}) /\ DOMAIN done = Ids /\ call[t].id \in Ids
  BY <1>1, <1>2 DEF Types, Ids
<1>11. call'[t] = NoCall =>
          done'[call[t].id] = call[t] /\ \A j \in Ids : j # call[t].id => done'[j] = done[j]
  BY <1>2, <1>10 DEF Ends
<1>12. OpenInv'
  <2> SUFFICES ASSUME NEW j \in Ids, done'[j] = NoCall
               PROVE  \E u \in Threads : call'[u] # NoCall /\ call'[u].id = j
    BY <1>2 DEF OpenInv, Ids
  <2>1. CASE call'[t] # NoCall
    <3>1. PICK u \in Threads : call[u] # NoCall /\ call[u].id = j
      BY <1>1, <1>2, <2>1 DEF OpenInv
    <3> QED BY <1>2, <1>3, <2>1, <3>1
  <2>2. CASE call'[t] = NoCall
    <3>1. j # call[t].id /\ done[j] = NoCall
      BY <1>2, <1>11, <2>2
    <3>2. PICK u \in Threads : call[u] # NoCall /\ call[u].id = j
      BY <1>1, <1>2, <3>1 DEF OpenInv
    <3> QED BY <1>2, <3>1, <3>2
  <2> QED BY <2>1, <2>2
<1>13. InStep'
  <2> SUFFICES ASSUME NoneFailed', NEW a \in {"acl", "rt"}
               PROVE  /\ IsFiniteSet(Between(a)')
                      /\ Len(dev'[a].launches) = Len(dev'[a].archive) + Cardinality(Between(a)')
    BY DEF InStep
  <2>1. NoneFailed
    BY <1>1, <1>2, NoneFailedAdvance
  <2>2. ~Amid(call[t], a)
    <3>1. Pending(call[t]) = {}
      BY EmptyPending DEF Advance, Pending
    <3> QED BY <3>1 DEF Amid
  <2>3. call'[t] # NoCall => ~Amid(call'[t], a)
    <3> SUFFICES ASSUME call'[t] # NoCall PROVE ~Amid(call'[t], a)
      OBVIOUS
    <3> DEFINE g == call'[t]
    <3>1. g.phase = "init" => Pending(g) = InitCalls(g.hook)
      BY <1>1, AdvanceSteps
    <3>2. g.hook \in Hooks
      BY <1>2, <1>3 DEF FrameT
    <3>3. Entering(g.hook) \in InitCalls(g.hook)
      BY <3>2, PhaseStarts
    <3> QED BY <3>1, <3>3 DEF Amid
  <2>4. Between(a)' = Between(a)
    BY <1>2, <2>2, <2>3 DEF Between
  <2> QED BY <1>1, <1>2, <2>1, <2>4 DEF InStep
<1>14. ASSUME NEW id \in Ids PROVE OwnWell(id)'
  <2>1. OwnWell(id) /\ id \in Nat /\ \A j \in 1..id : j \in Ids
    BY <1>1, InfoNat DEF Ids
  <2>2. CASE call'[t] # NoCall
    BY <1>2, <2>1, <2>2, OwnWellKept
  <2>3. CASE call'[t] = NoCall
    <3>1. call[t].phase = "close" /\ "LaunchDumpTask" \notin Pending(call[t])
      BY <1>2, <2>3, EmptyPending DEF Advance, Pending, Returns
    <3>2. CASE id = call[t].id
      BY <1>2, <2>3, <3>1, <3>2, OwnEnded
    <3>3. CASE id # call[t].id
      BY <1>1, <1>2, <1>11, <2>1, <2>3, <3>3, OwnWellKept DEF OwnersInv
    <3> QED BY <3>2, <3>3
  <2> QED BY <2>2, <2>3
<1>15. \A id \in Ids' : OwnWell(id)'
  BY <1>2, <1>14 DEF Ids
<1>16. NamedInv(t)' /\ ArchiveInv(t)'
  BY <1>5, <1>6
<1> QED BY <1>4, <1>7, <1>8, <1>9, <1>12, <1>13, <1>15, <1>16 DEF OwnWorld, OrderedInv

LEMMA OwnWorldBegin ==
    ASSUME NEW t \in Threads, OwnWorld, Begin(t)
    PROVE  OwnWorld'
<1> DEFINE new == Len(info) + 1
<1>1. /\ ReportWorld /\ Types /\ IdsInv /\ CallInv /\ OwnersInv
      /\ AloneInv /\ OpenInv /\ InStep
      /\ \A u \in Threads : NamedInv(u) /\ ArchiveInv(u)
                            /\ (call[u] # NoCall => call[u].id \in Ids /\ Ordered(call[u]))
      /\ \A id \in Ids : OwnWell(id)
  BY OwnParts
<1>2. /\ ReportWorld' /\ Len(info') = new /\ Len(info) \in Nat
      /\ \A i \in Ids : info'[i] = info[i] /\ dumps'[i] = dumps[i] /\ done'[i] = done[i]
      /\ dumps'[new] = <<>> /\ done'[new] = NoCall
      /\ UNCHANGED <<dev, dead>>
  BY <1>1, ReportWorldBegin, TypesBegin, InfoNat DEF Ids
<1>3. PICK g : \E k \in scen.kinds :
         /\ call'[t] = g /\ Opened(g) /\ g.id = new /\ g.sink = k.sink
         /\ g.alone => \A u \in Threads : call[u] = NoCall
         /\ info' = Append(info, [skip |-> k.skip, sink |-> k.sink])
         /\ [skip |-> k.skip, sink |-> k.sink] \in [skip : BOOLEAN, sink : BOOLEAN]
  BY <1>1, BeginFrame
<1>4. PICK k \in scen.kinds :
         /\ call'[t] = g /\ Opened(g) /\ g.id = new /\ g.sink = k.sink
         /\ g.alone => \A u \in Threads : call[u] = NoCall
         /\ info' = Append(info, [skip |-> k.skip, sink |-> k.sink])
         /\ [skip |-> k.skip, sink |-> k.sink] \in [skip : BOOLEAN, sink : BOOLEAN]
  BY <1>3
<1>5. /\ call[t] = NoCall /\ ~dead
      /\ \A u \in Threads : u # t =>
            /\ call[u] = NoCall => call'[u] = NoCall
            /\ call[u] # NoCall => call'[u] # NoCall /\ Marked(call[u], call'[u])
  BY <1>1, BeginFrame
<1>6. /\ g.phase = "open" /\ g.kernel = g.id /\ g # NoCall /\ ~g.failed
  BY <1>4, NoCallFrame DEF Opened, Fresh
<1>7. info'[new].sink = g.sink
  <2>1. info \in Seq([skip : BOOLEAN, sink : BOOLEAN])
    BY <1>1 DEF Types
  <2>2. info'[new] = [skip |-> k.skip, sink |-> k.sink]
    <3> DEFINE v == [skip |-> k.skip, sink |-> k.sink]
               S == [skip : BOOLEAN, sink : BOOLEAN]
    <3>1. info \in Seq(S) /\ v \in S /\ info' = Append(info, v)
      BY <1>4, <2>1
    <3> HIDE DEF v, S
    <3>2. info'[Len(info) + 1] = v
      BY <3>1, SeqMore
    <3> QED BY <3>2 DEF v
  <2> QED BY <1>4, <2>2
<1>8. NamedInv(t)' /\ ArchiveInv(t)' /\ Ordered(call'[t])
  BY <1>4, <1>6, <1>7 DEF NamedInv, ArchiveInv, Named, Filed, Ordered, Past, Early
<1>9. ASSUME NEW u \in Threads, u # t
      PROVE  /\ NamedInv(u)' /\ ArchiveInv(u)'
             /\ call'[u] # NoCall => /\ call[u] # NoCall /\ call'[u].id = call[u].id
                                     /\ Ordered(call'[u]) /\ ~call'[u].alone
                                     /\ call'[u].failed = call[u].failed
             /\ \A a \in {"acl", "rt"} : (call'[u] # NoCall /\ Amid(call'[u], a))
                                           <=> (call[u] # NoCall /\ Amid(call[u], a))
  <2>1. CASE call[u] = NoCall
    BY <1>5, <1>9, <2>1 DEF NamedInv, ArchiveInv
  <2>2. CASE call[u] # NoCall
    <3>1. call'[u] # NoCall /\ Marked(call[u], call'[u])
      BY <1>5, <1>9, <2>2
    <3>2. Pending(call'[u]) = Pending(call[u])
      BY <1>1, <2>2, <3>1, MarkedFrame DEF CallInv
    <3>3. ~call'[u].alone
      BY <3>1 DEF Marked
    <3>4. /\ call'[u].phase = call[u].phase /\ call'[u].hook = call[u].hook
          /\ call'[u].failed = call[u].failed /\ call'[u].id = call[u].id
      BY <3>1 DEF Marked
    <3>5. Ordered(call'[u])
      BY <1>1, <2>2, <3>2, <3>4 DEF Ordered
    <3>6. \A a \in {"acl", "rt"} : Amid(call'[u], a) <=> Amid(call[u], a)
      BY <3>2, <3>4 DEF Amid
    <3>7. NamedInv(u)' /\ ArchiveInv(u)'
      BY <3>3 DEF NamedInv, ArchiveInv, Named, Filed
    <3> QED BY <2>2, <3>1, <3>3, <3>4, <3>5, <3>6, <3>7
  <2> QED BY <2>1, <2>2
<1>10. AloneInv'
  BY <1>4, <1>5, <1>2, <1>9 DEF AloneInv
<1>11. OpenInv'
  <2> SUFFICES ASSUME NEW j \in Ids', done'[j] = NoCall
               PROVE  \E u \in Threads : call'[u] # NoCall /\ call'[u].id = j
    BY DEF OpenInv
  <2>1. CASE j = new
    BY <1>4, <1>6, <2>1
  <2>2. CASE j # new
    <3>1. j \in Ids
      BY <1>2, <2>2 DEF Ids
    <3>2. PICK u \in Threads : call[u] # NoCall /\ call[u].id = j
      BY <1>1, <1>2, <1>5, <2>2, <3>1 DEF OpenInv
    <3>3. u # t /\ call'[u] # NoCall
      BY <1>5, <3>2
    <3> QED BY <1>9, <3>2, <3>3
  <2> QED BY <2>1, <2>2
<1>12. NoneFailed' => NoneFailed
  <2> SUFFICES ASSUME NoneFailed' PROVE NoneFailed
    OBVIOUS
  <2>1. ASSUME NEW u \in Threads, call[u] # NoCall PROVE ~call[u].failed
    BY <1>5, <2>1, <1>9 DEF NoneFailed
  <2>2. ASSUME NEW id \in Ids, done[id] # NoCall PROVE ~done[id].failed
    BY <1>2, <2>2 DEF Ids, NoneFailed
  <2> QED BY <2>1, <2>2 DEF NoneFailed
<1>13. InStep'
  <2> SUFFICES ASSUME NoneFailed', NEW a \in {"acl", "rt"}
               PROVE  /\ IsFiniteSet(Between(a)')
                      /\ Len(dev'[a].launches) = Len(dev'[a].archive) + Cardinality(Between(a)')
    BY DEF InStep
  <2>1. ~Amid(call'[t], a)
    BY <1>4, <1>6 DEF Amid
  <2>2. Between(a)' = Between(a)
    BY <1>5, <1>9, <2>1 DEF Between
  <2> QED BY <1>1, <1>2, <1>5, <1>12, <2>2 DEF InStep
<1>14. ASSUME NEW id \in Ids' PROVE OwnWell(id)'
  <2>1. CASE id = new
    BY <1>2, <2>1 DEF OwnWell
  <2>2. CASE id # new
    BY <1>2, <2>2, <1>1, OwnWellKept DEF Ids
  <2> QED BY <2>1, <2>2
<1>15. \A u \in Threads : /\ NamedInv(u)' /\ ArchiveInv(u)'
                          /\ call'[u] # NoCall => Ordered(call'[u])
  BY <1>8, <1>9
<1> QED BY <1>2, <1>10, <1>11, <1>13, <1>14, <1>15 DEF OwnWorld, OrderedInv

LEMMA OwnWorldKept ==
    ASSUME OwnWorld, Kept, kill' \in BOOLEAN
    PROVE  OwnWorld'
<1>1. ReportWorld'
  BY ReportWorldKept DEF OwnWorld
<1>2. /\ AloneInv' /\ OpenInv' /\ OrderedInv'
  BY DEF OwnWorld, AloneInv, OpenInv, OrderedInv, Kept, Ids
<1>3. (NoneFailed' <=> NoneFailed) /\ dead' = dead
  BY DEF NoneFailed, Kept, Ids
<1>4. InStep'
  <2>1. \A a \in {"acl", "rt"} : Between(a)' = Between(a)
    BY DEF Between, Kept
  <2> QED BY <1>3, <2>1 DEF OwnWorld, InStep, Kept
<1>5. \A t \in Threads : NamedInv(t)' /\ ArchiveInv(t)'
  BY <1>3, ApiOf DEF LastOf, Kept, OwnWorld, NamedInv, ArchiveInv, Filed
<1>6. \A id \in Ids' : OwnWell(id)'
  BY DEF OwnWorld, OwnWell, Kept, Ids
<1> QED BY <1>1, <1>2, <1>4, <1>5, <1>6 DEF OwnWorld

LEMMA OwnWorldNext ==
    ASSUME OwnWorld, [Next]_vars
    PROVE  OwnWorld'
BY OwnWorldKept, OwnParts, OwnWorldWork, OwnWorldAdvance, OwnWorldBegin, NextCases DEF vars,
   Kept, Types, Interrupt

LEMMA OwnWorldInit == ASSUME Init PROVE OwnWorld
<1>1. ReportWorld
  BY ReportWorldInit
<1>2. \A t \in Threads : call[t] = NoCall
  BY DEF Init
<1>3. Ids = {}
  BY DEF Init, Ids
<1>4. InStep
  <2>1. \A a \in {"acl", "rt"} : Between(a) = {}
    BY <1>2 DEF Between
  <2>2. \A a \in {"acl", "rt"} : dev[a].launches = <<>> /\ dev[a].archive = <<>>
    BY DEF Init
  <2>3. \A a \in {"acl", "rt"} : Len(dev[a].launches) = 0 /\ Len(dev[a].archive) = 0
    BY <2>2
  <2>4. \A a \in {"acl", "rt"} : IsFiniteSet(Between(a)) /\ Cardinality(Between(a)) = 0
    BY <2>1, FS_EmptySet
  <2> QED BY <2>3, <2>4 DEF InStep
<1> QED BY <1>1, <1>2, <1>3, <1>4 DEF OwnWorld, AloneInv, OpenInv, OrderedInv, NamedInv,
       ArchiveInv

\* The inductive invariant of a launch nobody overlaps: it is the last one of
\* its interface, what the call looked up is its own, and the list of launches is
\* ahead of the archive by the calls between their two entries.
THEOREM OwnWorldHolds == Spec => []OwnWorld
<1>1. Init => OwnWorld
  BY OwnWorldInit
<1>2. OwnWorld /\ [Next]_vars => OwnWorld'
  BY OwnWorldNext
<1> QED BY <1>1, <1>2, PTL DEF Spec

\* A launch that no other one overlapped, and in which nothing failed, was judged
\* by the filter, instrumented, announced and dumped as itself: the runtime's
\* hooks, which look up the last launch of the device each time, find their own.
THEOREM LaunchesUseTheirOwn == Spec => []OwnLaunchUsed
<1>1. OwnWorld => OwnLaunchUsed
  BY DEF OwnWorld, OwnWell, OwnLaunchUsed
<1> QED BY <1>1, OwnWorldHolds, PTL

-----------------------------------------------------------------------------
(* What a step tells. *)

LEMMA PcKept ==
    ASSUME NEW t \in Threads, Types, CallInv, ManagerInv(t), Work(t),
           ~(CreateContext(t) \/ GetEvent(t))
    PROVE  call'[t].pc = call[t].pc
<1>1. ASSUME NEW g, Gives(t, g) \/ MakesQuietly(t, g) \/ (Runs(t, g) /\ g.pc = call[t].pc)
      PROVE  call'[t].pc = call[t].pc
  BY <1>1 DEF Gives, MakesQuietly, Makes, Quiet, SameLookup, Runs
<1>2. CASE SectionsMalloc(t) \/ GetLaunchId(t) \/ ParseMetaData(t)
  <2>1. PICK g : Gives(t, g) \/ (Makes(t, g) /\ g.pc = call[t].pc)
    BY <1>2, SectionsMallocFrame, GetLaunchIdFrame, ParseMetaDataFrame
  <2> QED BY <1>1, <2>1 DEF Makes
<1>3. CASE RunDBITask(t) \/ MakeInstrumented(t) \/ Commit(t)
  <2>1. PICK g : Gives(t, g) \/ MakesQuietly(t, g) \/ (Makes(t, g) /\ SameLookup(call[t], g))
    BY <1>3, RunDBITaskFrame, MakeInstrumentedFrame, CommitFrame
  <2> QED BY <1>1, <2>1 DEF SameLookup, Makes
<1>4. CASE AddLaunchEvent(t) \/ Clone(t) \/ GetBinary(t) \/ QuietActions(t) \/ Guards(t)
  <2>1. PICK g : Gives(t, g) \/ MakesQuietly(t, g)
    BY <1>4, AddLaunchEventFrame, CloneFrame, GetBinaryFrame, QuietFrame, GuardsFrame
  <2> QED BY <1>1, <2>1
<1>5. CASE Sync(t) \/ LaunchDumpTask(t)
  <2>1. PICK g : Makes(t, g) /\ SameLookup(call[t], g)
    BY <1>5, SyncFrame, LaunchDumpTaskFrame
  <2> QED BY <1>1, <2>1 DEF Makes, SameLookup
<1>6. CASE InitStep(t)
  <2>1. PICK g : Gives(t, g) \/ MakesQuietly(t, g) \/ (Runs(t, g) /\ SameLookup(call[t], g))
    BY <1>6, InitStepFrame DEF Makes
  <2> QED BY <1>1, <2>1 DEF SameLookup
<1>7. CASE Finalize(t)
  <2>1. PICK g : Runs(t, g) /\ Quiet(call[t], g)
    BY <1>7, FinalizeFrame
  <2> QED BY <1>1, <2>1 DEF Quiet, SameLookup
<1>8. CASE ExpandArgs(t)
  <2>1. PICK g : Runs(t, g) /\ SameLookup(call[t], g)
    BY <1>8, ExpandArgsFrame DEF Makes
  <2> QED BY <1>1, <2>1 DEF SameLookup
<1> QED BY <1>2, <1>3, <1>4, <1>5, <1>6, <1>7, <1>8 DEF Work, QuietActions

LEMMA SectionsKept ==
    ASSUME NEW t \in Threads, Types, CallInv, ManagerInv(t), Work(t),
           ~SectionsMalloc(t)
    PROVE  call'[t].sections = call[t].sections
<1>1. ASSUME NEW g, Gives(t, g) \/ MakesQuietly(t, g) \/ (Runs(t, g) /\ g.sections = call[t].sections)
      PROVE  call'[t].sections = call[t].sections
  BY <1>1 DEF Gives, MakesQuietly, Makes, Quiet, SameLookup, Runs
<1>2. CASE CreateContext(t) \/ GetLaunchId(t) \/ GetEvent(t) \/ ParseMetaData(t)
  <2>1. PICK g : Gives(t, g) \/ (Makes(t, g) /\ g.sections = call[t].sections)
    BY <1>2, CreateContextFrame, GetLaunchIdFrame, GetEventFrame, ParseMetaDataFrame
  <2> QED BY <1>1, <2>1 DEF Makes
<1>3. CASE RunDBITask(t) \/ MakeInstrumented(t) \/ Commit(t)
  <2>1. PICK g : Gives(t, g) \/ MakesQuietly(t, g) \/ (Makes(t, g) /\ SameLookup(call[t], g))
    BY <1>3, RunDBITaskFrame, MakeInstrumentedFrame, CommitFrame
  <2> QED BY <1>1, <2>1 DEF SameLookup, Makes
<1>4. CASE AddLaunchEvent(t) \/ Clone(t) \/ GetBinary(t) \/ QuietActions(t) \/ Guards(t)
  <2>1. PICK g : Gives(t, g) \/ MakesQuietly(t, g)
    BY <1>4, AddLaunchEventFrame, CloneFrame, GetBinaryFrame, QuietFrame, GuardsFrame
  <2> QED BY <1>1, <2>1
<1>5. CASE Sync(t) \/ LaunchDumpTask(t)
  <2>1. PICK g : Makes(t, g) /\ SameLookup(call[t], g)
    BY <1>5, SyncFrame, LaunchDumpTaskFrame
  <2> QED BY <1>1, <2>1 DEF Makes, SameLookup
<1>6. CASE InitStep(t)
  <2>1. PICK g : Gives(t, g) \/ MakesQuietly(t, g) \/ (Runs(t, g) /\ SameLookup(call[t], g))
    BY <1>6, InitStepFrame DEF Makes
  <2> QED BY <1>1, <2>1 DEF SameLookup
<1>7. CASE Finalize(t)
  <2>1. PICK g : Runs(t, g) /\ Quiet(call[t], g)
    BY <1>7, FinalizeFrame
  <2> QED BY <1>1, <2>1 DEF Quiet, SameLookup
<1>8. CASE ExpandArgs(t)
  <2>1. PICK g : Runs(t, g) /\ SameLookup(call[t], g)
    BY <1>8, ExpandArgsFrame DEF Makes
  <2> QED BY <1>1, <2>1 DEF SameLookup
<1> QED BY <1>2, <1>3, <1>4, <1>5, <1>6, <1>7, <1>8 DEF Work, QuietActions

\* What the tool is told, by the name of the call.
LEMMA TellNames ==
    ASSUME NEW t \in Threads, Work(t)
    PROVE  /\ SectionsMalloc(t) <=> NextCall(t) = "SectionsMalloc"
           /\ SectionsFree(t) <=> NextCall(t) = "SectionsFree"
           /\ OpMalloc(t) <=> NextCall(t) = "OpMalloc"
           /\ GetEvent(t) <=> NextCall(t) \in Events
           /\ Overflow(t) <=> NextCall(t) \in {"OverflowMalloc", "OverflowFree"}
           /\ Overflow(t) => (At(t, "OverflowMalloc") <=> NextCall(t) = "OverflowMalloc")
BY DEF Work, CreateContext, AddLaunchEvent, GetLaunchId, ReportKernelSummary, UpdateOpMemInfo,
       ParseMetaData, ArchiveMemInfo, InitStep, Finalize,
       SetSkipKernelFlag, ResetMemoryInit, FreeBuffer, ExpandArgs, RunDBITask, MakeInstrumented,
       Commit, Clone, Guards, GetEvent, GetBinary, SectionsMalloc, SectionsFree, OpMalloc,
       OpFree, Overflow, ClearArgsInfo, LaunchDumpTask, Sync, ExitAfterProcess, At, NextCall,
       Events

\* The launch a call looks up is its own, or the one asked for.
LEMMA LookedUp ==
    ASSUME NEW t \in Threads, Types, CallInv, ManagerInv(t), Work(t)
    PROVE  /\ NextCall(t) = "SectionsMalloc" => call'[t].sections
           /\ NextCall(t) # "SectionsMalloc" => call'[t].sections = call[t].sections
           /\ NextCall(t) \in Events => call'[t].failed \/ call'[t].pc = Wanted(t)
           /\ NextCall(t) \in Events => call'[t].pc \in {call[t].pc, Wanted(t)}
           /\ NextCall(t) = "CreateContext" => call'[t].failed \/ call'[t].pc = call[t].id
           /\ NextCall(t) = "CreateContext" => call'[t].pc \in {call[t].pc, call[t].id}
           /\ NextCall(t) \notin Events \cup {"CreateContext"} => call'[t].pc = call[t].pc
<1>1. NextCall(t) = "SectionsMalloc" => call'[t].sections
  <2> SUFFICES ASSUME SectionsMalloc(t) PROVE call'[t].sections
    BY TellNames
  <2>1. PICK g : Makes(t, g) /\ g.sections = TRUE
    BY SectionsMallocFrame
  <2> QED BY <2>1 DEF Makes, Runs
<1>2. NextCall(t) \in Events =>
         /\ call'[t].failed \/ call'[t].pc = Wanted(t)
         /\ call'[t].pc \in {call[t].pc, Wanted(t)}
  <2> SUFFICES ASSUME GetEvent(t)
               PROVE  /\ call'[t].failed \/ call'[t].pc = Wanted(t)
                      /\ call'[t].pc \in {call[t].pc, Wanted(t)}
    BY TellNames
  <2>1. PICK g : Gives(t, g) \/ (Makes(t, g) /\ g.pc = Wanted(t))
    BY GetEventFrame
  <2>2. g = call'[t]
    BY <2>1 DEF Gives, Makes, Runs
  <2> QED BY <2>1, <2>2 DEF Gives, SameLookup
<1>3. NextCall(t) = "CreateContext" =>
         /\ call'[t].failed \/ call'[t].pc = call[t].id
         /\ call'[t].pc \in {call[t].pc, call[t].id}
  <2> SUFFICES ASSUME CreateContext(t)
               PROVE  /\ call'[t].failed \/ call'[t].pc = call[t].id
                      /\ call'[t].pc \in {call[t].pc, call[t].id}
    BY HeadNames
  <2>1. PICK g : Gives(t, g) \/ (Makes(t, g) /\ g.pc = g.id)
    BY CreateContextFrame
  <2>2. g = call'[t]
    BY <2>1 DEF Gives, Makes, Runs
  <2>3. g.id = call[t].id
    BY <2>1 DEF Gives, Makes, Runs, Works, SameCall
  <2> QED BY <2>1, <2>2, <2>3 DEF Gives, SameLookup
<1> QED BY <1>1, <1>2, <1>3, PcKept, SectionsKept, TellNames, HeadNames

\* What the tool knows after a step.
LEMMA ToldParts ==
    ASSUME NEW t \in Threads, Types, Work(t), NEW d, d = dev[Api(call[t].hook)]
    PROVE  /\ told'.sections =
                 IF NextCall(t) = "SectionsMalloc" THEN told.sections \cup {call[t].pc}
                 ELSE IF NextCall(t) = "SectionsFree" /\ call[t].sections
                 THEN told.sections \ {call[t].pc} ELSE told.sections
           /\ told'.ops =
                 IF NextCall(t) = "OpMalloc" THEN told.ops \cup d.ops \cup {call[t].id}
                 ELSE IF NextCall(t) = "OpFree" THEN told.ops \ d.ops ELSE told.ops
           /\ told'.overflow =
                 IF NextCall(t) = "OverflowMalloc" THEN {"buffer"}
                 ELSE IF NextCall(t) = "OverflowFree" THEN {} ELSE told.overflow
<1>1. told \in [announced : SUBSET Nat, sections : SUBSET Nat, ops : SUBSET Nat,
                overflow : SUBSET {"buffer"}]
  BY DEF Types
<1>2. /\ SectionsMalloc(t) <=> NextCall(t) = "SectionsMalloc"
      /\ SectionsFree(t) <=> NextCall(t) = "SectionsFree"
      /\ OpMalloc(t) <=> NextCall(t) = "OpMalloc"
      /\ OpFree(t) <=> NextCall(t) = "OpFree"
      /\ Overflow(t) <=> NextCall(t) \in {"OverflowMalloc", "OverflowFree"}
      /\ Overflow(t) => (At(t, "OverflowMalloc") <=> NextCall(t) = "OverflowMalloc")
  BY TellNames, HeadNames
<1>3. CASE SectionsMalloc(t)
  BY <1>1, <1>2, <1>3 DEF SectionsMalloc
<1>4. CASE SectionsFree(t)
  BY <1>1, <1>2, <1>4 DEF SectionsFree
<1>5. CASE OpMalloc(t)
  BY <1>1, <1>2, <1>5 DEF OpMalloc
<1>6. CASE OpFree(t)
  BY <1>1, <1>2, <1>6 DEF OpFree
<1>7. CASE Overflow(t)
  BY <1>1, <1>2, <1>7 DEF Overflow
<1>8. CASE ~(SectionsMalloc(t) \/ SectionsFree(t) \/ OpMalloc(t) \/ OpFree(t) \/ Overflow(t))
  <2>1. /\ told'.sections = told.sections /\ told'.ops = told.ops
        /\ told'.overflow = told.overflow
    BY <1>1, <1>8, SilentWork DEF ReportKernelSummary, Silent, CreateContext, AddLaunchEvent,
       UpdateOpMemInfo, ParseMetaData, ArchiveMemInfo, ClearArgsInfo, Registry, Telling
  <2> QED BY <1>2, <1>8, <2>1
<1> QED BY <1>3, <1>4, <1>5, <1>6, <1>7, <1>8

\* The device's list of tensors after a step.
LEMMA OpsParts ==
    ASSUME NEW t \in Threads, Types, CallInv, ManagerInv(t), Work(t), NEW a \in {"acl", "rt"}
    PROVE  /\ NextCall(t) \notin {"UpdateOpMemInfo", "ParseMetaData", "OpMalloc", "OpFree",
                                  "ClearArgsInfo"} => dev'[a].ops = dev[a].ops
           /\ NextCall(t) = "OpMalloc" /\ a = Api(call[t].hook) =>
                 dev'[a].ops = dev[a].ops \cup {call[t].id}
<1>1. call[t] \in FrameT
  BY WorkCall
<1>2. CASE CreateContext(t) \/ AddLaunchEvent(t)
  BY <1>2, HeadNames, <1>1, EnteredTypes DEF CreateContext, AddLaunchEvent
<1>3. CASE UpdateOpMemInfo(t) \/ ParseMetaData(t)
  BY <1>3, HeadNames
<1>4. CASE ArchiveMemInfo(t)
  BY <1>1, <1>4, ArchivedTypes, HeadNames
<1>5. CASE OpMalloc(t) \/ OpFree(t) \/ ClearArgsInfo(t)
  BY <1>1, <1>5, OpsTypes, HeadNames, TellNames
<1>6. CASE ReportKernelSummary(t) \/ SectionsMalloc(t) \/ SectionsFree(t) \/ Overflow(t)
  BY <1>6 DEF ReportKernelSummary, SectionsMalloc, SectionsFree, Overflow, At, NextCall
<1>7. CASE ~(CreateContext(t) \/ AddLaunchEvent(t) \/ UpdateOpMemInfo(t) \/ ParseMetaData(t)
             \/ ArchiveMemInfo(t) \/ ReportKernelSummary(t) \/ SectionsMalloc(t)
             \/ SectionsFree(t) \/ OpMalloc(t) \/ OpFree(t) \/ Overflow(t) \/ ClearArgsInfo(t))
  BY <1>7, SilentWork, TellNames DEF Silent
<1> QED BY <1>2, <1>3, <1>4, <1>5, <1>6, <1>7

\* Which hooks tell ranges, and in which phase.
LEMMA TellPhases ==
    ASSUME NEW f \in FrameT, NEW c \in PhaseCalls(f)
    PROVE  /\ c = "CreateContext" => f.phase = "init" /\ f.hook \in AclHooks
           /\ c = "AddLaunchEvent" => f.phase = "init" /\ f.hook \in RtHooks
           /\ c \in Events => f.phase \in {"pre", "post"} /\ f.hook \in RtHooks /\ Checks(f)
           /\ c \in {"SectionsMalloc", "OpMalloc", "OverflowMalloc"} => Checks(f)
           /\ c = "SectionsMalloc" => \/ f.phase = "pre" /\ f.hook \in TellsFirst
                                      \/ f.phase = "post" /\ f.hook \in AclHooks
           /\ c = "OpMalloc" => \/ f.phase = "pre" /\ f.hook \in SimtHooks
                                \/ f.phase = "post"
           /\ c = "OverflowMalloc" => f.phase = "pre" /\ f.hook \in RtHooks
           /\ c \in {"SectionsFree", "OpFree", "OverflowFree"} => f.phase = "post"
           /\ c \in {"Finalize", "SectionsFree", "OpFree", "OverflowFree"} => Checks(f)
<1>1. f.hook \in Hooks /\ f.skip \in BOOLEAN /\ f.sink \in BOOLEAN
  BY DEF FrameT
<1>2. CASE f.phase = "pre"
  <2>1. c \in PreCalls(f.hook, f.skip, f.sink)
    BY <1>2 DEF PhaseCalls
  <2>2. c \in {"SectionsMalloc", "OpMalloc", "OverflowMalloc"} \cup Events =>
           Checks(f)
    BY <1>1, <2>1 DEF PreCalls, Making, Checks, Events
  <2>3. /\ c = "SectionsMalloc" => f.hook \in TellsFirst
        /\ c = "OpMalloc" => f.hook \in SimtHooks
        /\ c \in {"OverflowMalloc"} \cup Events => f.hook \in RtHooks
    BY <1>1, <2>1 DEF PreCalls, Making, TellsFirst, RtHooks, Events
  <2>4. c \notin {"CreateContext", "AddLaunchEvent", "Finalize", "SectionsFree", "OpFree",
                  "OverflowFree"}
    BY <1>2, PhaseOf DEF Withdrawals
  <2> QED BY <1>2, <2>2, <2>3, <2>4
<1>3. CASE f.phase = "post"
  <2>1. c \in PostCalls(f.hook, f.skip, f.sink, f.mem # None)
    BY <1>3 DEF PhaseCalls
  <2>2. c \in {"SectionsMalloc", "OpMalloc", "Finalize", "SectionsFree", "OpFree",
               "OverflowFree"} \cup Events => Checks(f)
    BY <1>1, <2>1 DEF PostCalls, Checks, Events
  <2>3. /\ c = "SectionsMalloc" => f.hook \in AclHooks
        /\ c \in Events => f.hook \in RtHooks
    BY <1>1, <2>1 DEF PostCalls, RtHooks, Events, TwoRt
  <2>4. c \notin {"CreateContext", "AddLaunchEvent", "OverflowMalloc"}
    BY <1>3, PhaseOf
  <2> QED BY <1>3, <2>2, <2>3, <2>4
<1>4. CASE f.phase \notin {"pre", "post"}
  BY <1>4, PhaseOf, <1>1 DEF Withdrawals, PhaseCalls, InitCalls, Hooks
<1> QED BY <1>2, <1>3, <1>4

\* SanitizerPre starts with all of its calls.
LEMMA AdvancePre ==
    ASSUME NEW t \in Threads, Types, IdsInv, CallInv, Advance(t), call'[t] # NoCall,
           NEW f, f = call[t], NEW g, g = call'[t], g.phase = "pre"
    PROVE  f.phase = "init" /\ Pending(g) = PreCalls(g.hook, g.skip, g.sink)
<1>1. AtPhaseEnd(t)
  BY AdvanceCases
<1>2. CASE ToPre(t)
  <2>1. PICK e : /\ Enters(t, e) /\ call[t].phase = "init"
                 /\ Pending(e) = PreCalls(e.hook, e.skip, e.sink)
    BY <1>1, <1>2, ToPreFrame
  <2> QED BY <2>1 DEF Enters
<1>3. CASE OpenEnds(t)
  BY <1>1, <1>3, OpenEndsFrame DEF Enters
<1>4. CASE PostEnds(t)
  BY <1>1, <1>4, PostEndsFrame DEF Enters
<1>5. CASE EndEnds(t)
  BY <1>1, <1>5, EndEndsFrame DEF Enters
<1>6. CASE Launch(t)
  <2>1. PICK e : Enters(t, e) /\ e.phase \in {"end", "post"}
    BY <1>1, <1>6, LaunchFrame
  <2> QED BY <2>1 DEF Enters
<1>7. CASE Returns(t)
  BY <1>7 DEF Returns, Types
<1> QED BY <1>2, <1>3, <1>4, <1>5, <1>6, <1>7, AdvanceCases

-----------------------------------------------------------------------------
(* Ranges, seen from the call that tells them. *)

LEMMA PointedWork ==
    ASSUME NEW t \in Threads, Types, IdsInv, CallInv, ManagerInv(t), NamedInv(t),
           Pointed(call[t]), Work(t)
    PROVE  Pointed(call'[t])
<1> DEFINE f == call[t]
           g == call'[t]
           c == NextCall(t)
<1>1. /\ f \in FrameT /\ SameCall(f, g) /\ (f.failed => g.failed)
      /\ ~g.failed => Pending(g) = Pending(f) \ {c}
      /\ c \in PhaseCalls(f) /\ c \in Pending(f)
      /\ \A d \in Pending(f) : Rank(f.hook, c) <= Rank(f.hook, d)
      /\ f # NoCall /\ ScriptInv(f) /\ f.id # None
      /\ f.hook \in AclHooks => f.hook \notin RtHooks
  BY OwnStep
<1>2. /\ g.phase = f.phase /\ g.hook = f.hook /\ g.id = f.id /\ g.alone = f.alone
      /\ g.skip = f.skip
  BY <1>1 DEF SameCall
<1>3. /\ c = "SectionsMalloc" => g.sections
      /\ c # "SectionsMalloc" => g.sections = f.sections
      /\ c \in Events => g.failed \/ g.pc = Wanted(t)
      /\ c \in Events => g.pc \in {f.pc, Wanted(t)}
      /\ c = "CreateContext" => g.failed \/ g.pc = f.id
      /\ c = "CreateContext" => g.pc \in {f.pc, f.id}
      /\ c \notin Events \cup {"CreateContext"} => g.pc = f.pc
  BY LookedUp
<1>4. /\ c = "CreateContext" => f.phase = "init" /\ f.hook \in AclHooks
      /\ c \in Events => f.phase \in {"pre", "post"} /\ f.hook \in RtHooks /\ Checks(f)
      /\ c = "SectionsMalloc" => Checks(f)
      /\ c = "SectionsMalloc" => \/ f.phase = "pre" /\ f.hook \in TellsFirst
                                 \/ f.phase = "post" /\ f.hook \in AclHooks
  BY <1>1, TellPhases
<1>5. f.phase # "init" => g.sink = f.sink
  BY SinkKept
<1>6. f.hook \in RtHooks /\ f.alone /\ ~f.failed /\ c \in Events => Wanted(t) = f.id
  <2> SUFFICES ASSUME f.hook \in RtHooks, f.alone, ~f.failed, c \in Events PROVE Wanted(t) = f.id
    OBVIOUS
  <2>1. Named(f, LastOf(Api(f.hook)), info[f.id])
    BY <1>1 DEF NamedInv
  <2>2. f.phase \in {"pre", "post"} /\ Api(f.hook) = "rt" /\ f.hook \notin AclHooks
    BY <1>1, <1>4 DEF Api
  <2>3. {"CreateContext", "AddLaunchEvent", "GetLaunchId"} \cap Pending(f) = {}
    BY <1>1, <2>2, Entries
  <2>4. LastOf("rt") = f.id /\ f.event = f.id
    BY <2>1, <2>2, <2>3 DEF Named, Past, Entering
  <2> QED BY <2>4 DEF Wanted
<1>7. f.phase \in {"pre", "post"} /\ f.hook \in AclHooks /\ ~f.failed => Past(f, "CreateContext")
  BY <1>1, Entries DEF Past
<1>8. c = "SectionsMalloc" => Pending(f) \cap Events = {}
  BY <1>1, Ranks DEF Events
<1>9. Pointed(f)
  OBVIOUS
<1> HIDE DEF f, g, c
<1>10. g.hook \in AclHooks => g.pc = None \/ g.pc = g.id
  BY <1>1, <1>2, <1>3, <1>4, <1>9 DEF Pointed
<1>11. g.hook \in AclHooks /\ ~g.failed /\ Past(g, "CreateContext") => g.pc = g.id
  BY <1>1, <1>2, <1>3, <1>4, <1>9 DEF Pointed, Past
<1>12. g.hook \in RtHooks /\ g.alone /\ ~g.failed /\ g.phase = "pre" /\ Checks(g)
          /\ Pending(g) \cap Events = {} => g.pc = g.id
  <2> SUFFICES ASSUME g.hook \in RtHooks, g.alone, ~g.failed, g.phase = "pre", Checks(g),
                      Pending(g) \cap Events = {}
               PROVE  g.pc = g.id
    OBVIOUS
  <2>1. CASE c \in Events
    BY <1>1, <1>2, <1>3, <1>6, <2>1
  <2>2. CASE c \notin Events
    BY <1>1, <1>2, <1>5, <2>2, <1>9, <1>3, <1>4 DEF Checks, Pointed
  <2> QED BY <2>1, <2>2
<1>13. Owned(g) /\ g.sections => g.pc = g.id
  <2> SUFFICES ASSUME Owned(g), g.sections PROVE g.pc = g.id
    OBVIOUS
  <2>1. Owned(f) /\ ~f.failed /\ ~g.failed
    BY <1>1, <1>2 DEF Owned
  <2>2. CASE c = "SectionsMalloc"
    <3>1. f.pc = f.id
      <4>1. CASE f.hook \in AclHooks
        BY <1>4, <1>7, <1>9, <2>1, <2>2, <4>1 DEF Pointed
      <4>2. CASE f.hook \notin AclHooks
        BY <1>1, <1>4, <2>1, <2>2, <4>2, <1>8, <1>9 DEF FrameT, Hooks, Owned, Pointed
      <4> QED BY <4>1, <4>2
    <3>2. c \notin Events \cup {"CreateContext"}
      BY <2>2 DEF Events
    <3> QED BY <1>2, <1>3, <3>1, <3>2
  <2>3. CASE c # "SectionsMalloc"
    BY <1>3, <1>9, <2>1, <2>3, <1>1, <1>4, <1>2, <1>6 DEF Pointed, Owned
  <2> QED BY <2>2, <2>3
<1> QED BY <1>10, <1>11, <1>12, <1>13 DEF Pointed, f, g

LEMMA PairedWork ==
    ASSUME NEW t \in Threads, Types, IdsInv, CallInv, ManagerInv(t), Paired(call[t]), Work(t)
    PROVE  Paired(call'[t])
<1> DEFINE f == call[t]
           g == call'[t]
           c == NextCall(t)
<1>1. /\ f \in FrameT /\ SameCall(f, g) /\ (f.failed => g.failed)
      /\ ~g.failed => Pending(g) = Pending(f) \ {c}
      /\ c \in PhaseCalls(f) /\ c \in Pending(f)
      /\ \A d \in Pending(f) : Rank(f.hook, c) <= Rank(f.hook, d)
  BY OwnStep
<1>2. /\ g.phase = f.phase /\ g.hook = f.hook /\ g.id = f.id /\ g.alone = f.alone
      /\ g.skip = f.skip
  BY <1>1 DEF SameCall
<1>3. /\ c = "SectionsMalloc" => g.sections
      /\ c # "SectionsMalloc" => g.sections = f.sections
  BY LookedUp
<1>4. /\ c = "SectionsMalloc" => Checks(f)
      /\ c = "SectionsMalloc" => f.phase \in {"pre", "post"}
  BY <1>1, TellPhases
<1>5. f.phase # "init" => g.sink = f.sink
  BY SinkKept
<1>6. /\ c = "SectionsFree" => {"SectionsMalloc", "OpMalloc", "Finalize"} \cap Pending(f) = {}
      /\ c = "OpFree" => {"SectionsMalloc", "OpMalloc", "Finalize"} \cap Pending(f) = {}
  BY <1>1, Ranks
<1>7. f.phase # "init" => (Checks(f) <=> Checks(g))
  BY <1>2, <1>5 DEF Checks
<1>8. Paired(f)
  OBVIOUS
<1> HIDE DEF f, g, c
<1> SUFFICES ASSUME ~g.failed PROVE Paired(g)
  BY DEF Paired, g
<1>9. ~f.failed /\ Pending(g) = Pending(f) \ {c}
  BY <1>1
<1>10. g.sections => g.phase \notin Early /\ Checks(g)
  BY <1>8, <1>9, <1>4, <1>2, <1>3, <1>7 DEF Paired, Early
<1>11. /\ g.phase = "post" /\ "SectionsMalloc" \in Pending(g) => "SectionsFree" \in Pending(g)
       /\ g.phase = "post" /\ "OpMalloc" \in Pending(g) => "OpFree" \in Pending(g)
  BY <1>2, <1>6, <1>8, <1>9 DEF Paired
<1>12. g.phase = "post" /\ "Finalize" \in Pending(g) =>
          /\ "SectionsFree" \in Pending(g) /\ Checks(g)
          /\ "SectionsMalloc" \in Pending(g) \/ g.sections
  BY <1>2, <1>3, <1>6, <1>7, <1>8, <1>9 DEF Paired
<1>13. g.phase = "pre" /\ g.hook \in TellsFirst /\ Checks(g) =>
          "SectionsMalloc" \in Pending(g) \/ g.sections
  BY <1>2, <1>3, <1>7, <1>8, <1>9 DEF Paired
<1> QED BY <1>10, <1>11, <1>12, <1>13 DEF Paired, g

\* What the tool knows of the launch of the call.
LEMMA KnownWork ==
    ASSUME NEW t \in Threads, Types, IdsInv, CallInv, ManagerInv(t), Paired(call[t]),
           Pointed(call[t]), Pointed(call'[t]), ToolKnows(call[t], told.sections, told.ops), Work(t)
    PROVE  ToolKnows(call'[t], told'.sections, told'.ops)
<1> DEFINE f == call[t]
           g == call'[t]
           c == NextCall(t)
           s == told.sections
           r == told'.sections
<1>1. /\ f \in FrameT /\ SameCall(f, g) /\ (f.failed => g.failed)
      /\ ~g.failed => Pending(g) = Pending(f) \ {c}
      /\ c \in PhaseCalls(f) /\ c \in Pending(f)
      /\ \A d \in Pending(f) : Rank(f.hook, c) <= Rank(f.hook, d)
  BY OwnStep
<1>2. /\ g.phase = f.phase /\ g.hook = f.hook /\ g.id = f.id /\ g.alone = f.alone
      /\ g.skip = f.skip
  BY <1>1 DEF SameCall
<1>3. /\ c = "SectionsMalloc" => g.sections
      /\ c # "SectionsMalloc" => g.sections = f.sections
      /\ c = "SectionsMalloc" => g.pc = f.pc
  BY LookedUp DEF Events
<1>4. /\ c = "SectionsMalloc" => f.phase \in {"pre", "post"}
      /\ c \in {"SectionsFree", "OpFree"} => f.phase = "post"
  BY <1>1, TellPhases
<1>5. f.phase # "init" => g.sink = f.sink
  BY SinkKept
<1>6. c = "OpFree" => "Finalize" \notin Pending(f)
  BY <1>1, Ranks
<1>7. /\ r = IF c = "SectionsMalloc" THEN s \cup {f.pc}
             ELSE IF c = "SectionsFree" /\ f.sections THEN s \ {f.pc} ELSE s
      /\ c = "OpMalloc" => f.id \in told'.ops
      /\ c # "OpFree" => told.ops \subseteq told'.ops
  BY ToldParts
<1>8. Paired(f) /\ Pointed(f) /\ Pointed(g) /\ ToolKnows(f, s, told.ops)
  OBVIOUS
<1> HIDE DEF f, g, c, r, s
<1>9. Owned(g) => (g.id \in r <=> Shown(g))
  <2> SUFFICES ASSUME Owned(g) PROVE g.id \in r <=> Shown(g)
    OBVIOUS
  <2>1. Owned(f) /\ ~f.failed /\ ~g.failed /\ Pending(g) = Pending(f) \ {c}
    BY <1>1, <1>2 DEF Owned
  <2>2. CASE c = "SectionsMalloc"
    BY <1>3, <1>8, <2>2, <1>1, <2>1, <1>2, <1>4, <1>7 DEF Pointed, Paired, Shown
  <2>3. CASE c = "SectionsFree"
    BY <1>2, <1>4, <2>1, <2>3, <1>8, <1>7 DEF Shown, Pointed, ToolKnows
  <2>4. CASE c \notin {"SectionsMalloc", "SectionsFree"}
    BY <1>2, <1>3, <2>1, <2>4, <1>7, <1>8 DEF Shown, ToolKnows
  <2> QED BY <2>2, <2>3, <2>4
<1>10. g.alone /\ ~g.failed /\ g.hook \in TellsTensors /\ Checks(g) /\ "OpMalloc" \notin Pending(g)
          /\ \/ g.phase = "pre" /\ g.hook \in SimtHooks
             \/ g.phase = "post" /\ "Finalize" \in Pending(g)
       => g.id \in told'.ops
  <2>1. CASE c = "OpMalloc"
    BY <1>2, <1>7, <2>1
  <2>2. CASE c # "OpMalloc"
    BY <1>2, <1>5, <1>1, <1>4, <1>6, <1>7, <1>8, <2>2 DEF Checks, ToolKnows
  <2> QED BY <2>1, <2>2
<1> QED BY <1>9, <1>10 DEF ToolKnows, g, r

\* What SanitizerPre and SanitizerPost start with.
LEMMA TellStarts ==
    ASSUME NEW h \in Hooks
    PROVE  /\ h \in TellsFirst => "SectionsMalloc" \in PreCalls(h, FALSE, FALSE)
           /\ h \in SimtHooks => "OpMalloc" \in PreCalls(h, FALSE, FALSE)
           /\ h \in RtHooks => PreCalls(h, FALSE, FALSE) \cap Events # {}
           /\ {"Finalize", "SectionsFree"} \subseteq PostCalls(h, FALSE, FALSE, TRUE)
           /\ h \notin TellsFirst => "SectionsMalloc" \in PostCalls(h, FALSE, FALSE, TRUE)
           /\ h \in TellsTensors \ SimtHooks => "OpMalloc" \in PostCalls(h, FALSE, FALSE, TRUE)
           /\ h \in SimtHooks => "OpFree" \in PostCalls(h, FALSE, FALSE, TRUE)
           /\ h \in RtHooks => "OverflowFree" \in PostCalls(h, FALSE, FALSE, TRUE)
           /\ "OpMalloc" \in PostCalls(h, FALSE, FALSE, TRUE) =>
                 "OpFree" \in PostCalls(h, FALSE, FALSE, TRUE)
           /\ \A skip, sink, m \in BOOLEAN :
                 {"SectionsMalloc", "OpMalloc", "Finalize", "SectionsFree"}
                    \cap PostCalls(h, skip, sink, m) # {} => ~skip /\ ~sink /\ m
<1>1. /\ h \in TellsFirst => "SectionsMalloc" \in PreCalls(h, FALSE, FALSE)
      /\ h \in SimtHooks => "OpMalloc" \in PreCalls(h, FALSE, FALSE)
  BY DEF PreCalls, TellsFirst
<1>2. h \in RtHooks => PreCalls(h, FALSE, FALSE) \cap Events # {}
  BY DEF PreCalls, RtHooks, Events
<1>3. {"Finalize", "SectionsFree"} \subseteq PostCalls(h, FALSE, FALSE, TRUE)
  BY DEF PostCalls
<1>4. h \notin TellsFirst => "SectionsMalloc" \in PostCalls(h, FALSE, FALSE, TRUE)
  BY DEF PostCalls, TellsFirst, Hooks
<1>5. /\ h \in TellsTensors \ SimtHooks => "OpMalloc" \in PostCalls(h, FALSE, FALSE, TRUE)
      /\ h \in SimtHooks => "OpFree" \in PostCalls(h, FALSE, FALSE, TRUE)
      /\ h \in RtHooks => "OverflowFree" \in PostCalls(h, FALSE, FALSE, TRUE)
  BY DEF PostCalls, TellsTensors, SimtHooks
<1>6. "OpMalloc" \in PostCalls(h, FALSE, FALSE, TRUE) =>
         "OpFree" \in PostCalls(h, FALSE, FALSE, TRUE)
  BY DEF PostCalls
<1>7. \A skip, sink, m \in BOOLEAN :
         {"SectionsMalloc", "OpMalloc", "Finalize", "SectionsFree"}
            \cap PostCalls(h, skip, sink, m) # {} => ~skip /\ ~sink /\ m
  BY DEF PostCalls
<1> QED BY <1>1, <1>2, <1>3, <1>4, <1>5, <1>6, <1>7

\* A checked call that comes to its launch has a buffer.
LEMMA CheckedHasBuffer ==
    ASSUME NEW f, FrameInv(f), f.phase = "pre", Pending(f) = {}, ~f.failed, Checks(f)
    PROVE  f.mem # None
BY DEF FrameInv, Checks

LEMMA RangesAdvance ==
    ASSUME NEW t \in Threads, Types, IdsInv, CallInv, Advance(t), call'[t] # NoCall,
           NEW f, f = call[t], NEW g, g = call'[t], NEW s, NEW o,
           Pointed(f), Paired(f), ToolKnows(f, s, o)
    PROVE  Pointed(g) /\ Paired(g) /\ ToolKnows(g, s, o)
<1>1. /\ g.hook = f.hook /\ g.id = f.id /\ g.alone = f.alone /\ g.mem = f.mem /\ g.pc = f.pc
      /\ g.sections = f.sections /\ g.sink = f.sink /\ Pending(f) = {} /\ FrameInv(f)
      /\ g \in FrameT /\ f \in FrameT
  BY AdvanceSteps, EntersSame
<1>2. /\ f.failed => g.failed
      /\ \/ /\ f.phase = "open" /\ g.phase = "init" /\ Pending(g) = InitCalls(g.hook)
         \/ /\ f.phase = "init" /\ g.phase = "pre"
         \/ /\ f.phase = "pre" /\ g.phase = "post" /\ g.skip = f.skip
            /\ Pending(g) = PostCalls(g.hook, g.skip, g.sink, g.mem # None)
         \/ g.failed /\ g.phase \in {"post", "end"}
         \/ /\ f.phase \in {"post", "end"} /\ g.phase \in {"end", "close"} /\ g.skip = f.skip
  BY AdvanceSteps
<1>3. g.phase = "pre" => Pending(g) = PreCalls(g.hook, g.skip, g.sink)
  BY AdvancePre
<1>4. /\ g.hook \in Hooks /\ g.skip \in BOOLEAN /\ g.sink \in BOOLEAN
      /\ g.hook \in AclHooks => g.hook \notin RtHooks
      /\ g.hook \in AclHooks \/ g.hook \in RtHooks
  BY <1>1, HooksApart DEF FrameT, Hooks
<1>5. f.phase \in Early => ~f.sections
  BY <1>1 DEF FrameInv, Fresh
<1>6. CASE f.phase = "open" /\ g.phase = "init" /\ Pending(g) = InitCalls(g.hook)
  <2>1. "CreateContext" \in Pending(g) \/ g.hook \notin AclHooks
    BY <1>6 DEF InitCalls
  <2>2. ~g.sections /\ ~f.sections
    BY <1>1, <1>5, <1>6 DEF Early
  <2>3. Pointed(g)
    BY <1>1, <1>4, <1>6, <2>1, <2>2 DEF Pointed, Past
  <2>4. Paired(g)
    BY <1>6, <2>2 DEF Paired
  <2>5. ToolKnows(g, s, o)
    BY <1>1, <1>2, <1>6, <2>2 DEF ToolKnows, Owned, Shown
  <2> QED BY <2>3, <2>4, <2>5
<1>7. CASE f.phase = "init" /\ g.phase = "pre"
  <2>1. ~g.sections /\ ~f.sections
    BY <1>1, <1>5, <1>7 DEF Early
  <2>2. Pending(g) = PreCalls(g.hook, g.skip, g.sink)
    BY <1>3, <1>7
  <2>3. Checks(g) => /\ g.hook \in TellsFirst => "SectionsMalloc" \in Pending(g)
                     /\ g.hook \in SimtHooks => "OpMalloc" \in Pending(g)
                     /\ g.hook \in RtHooks => Pending(g) \cap Events # {}
    BY <1>4, <2>2, TellStarts DEF Checks
  <2>4. Past(f, "CreateContext")
    BY <1>1, <1>7 DEF Past
  <2>5. Pointed(g)
    BY <1>1, <1>2, <1>4, <1>7, <2>1, <2>3, <2>4 DEF Pointed
  <2>6. Paired(g)
    BY <1>7, <2>1, <2>3 DEF Paired
  <2>7. ToolKnows(g, s, o)
    BY <1>1, <1>2, <1>7, <2>1, <2>3 DEF ToolKnows, Owned, Shown
  <2> QED BY <2>5, <2>6, <2>7
<1>8. CASE /\ f.phase = "pre" /\ g.phase = "post" /\ g.skip = f.skip
           /\ Pending(g) = PostCalls(g.hook, g.skip, g.sink, g.mem # None)
  <2>1. Checks(g) <=> Checks(f)
    BY <1>1, <1>8 DEF Checks
  <2>2. ~g.failed /\ Checks(g) => Pending(g) = PostCalls(g.hook, FALSE, FALSE, TRUE)
    BY <1>1, <1>2, <1>8, <2>1, CheckedHasBuffer, <1>4 DEF Checks
  <2>3. {"SectionsMalloc", "OpMalloc", "Finalize", "SectionsFree"} \cap Pending(g) # {}
           => Checks(g)
    BY <1>4, <1>8, TellStarts DEF Checks
  <2>4. Past(f, "CreateContext")
    BY <1>1, <1>8 DEF Past
  <2>5. Pointed(g)
    BY <1>1, <1>2, <1>8, <2>4 DEF Pointed, Owned
  <2>6. f.sections /\ ~g.failed => Checks(f)
    BY <1>2 DEF Paired
  <2>7. Checks(f) /\ f.hook \in TellsFirst /\ ~g.failed => f.sections
    BY <1>1, <1>2, <1>8 DEF Paired
  <2>8. Paired(g)
    <3> SUFFICES ASSUME ~g.failed PROVE Paired(g)
      BY DEF Paired
    <3>1. CASE ~Checks(g)
      BY <1>1, <1>8, <2>1, <2>3, <2>6, <3>1 DEF Paired
    <3>2. CASE Checks(g)
      BY <1>1, <1>4, <1>8, <2>1, <2>2, <2>7, <3>2, TellStarts DEF Paired, Early
    <3> QED BY <3>1, <3>2
  <2>9. ToolKnows(g, s, o)
    <3>1. Owned(g) => (g.id \in s <=> Shown(g))
      <4> SUFFICES ASSUME Owned(g) PROVE g.id \in s <=> Shown(g)
        OBVIOUS
      <4>1. Owned(f) /\ ~g.failed
        BY <1>1, <1>2 DEF Owned
      <4>2. Shown(f) <=> f.sections
        BY <1>8 DEF Shown
      <4>3. f.sections => "SectionsFree" \in Pending(g)
        BY <1>4, <2>1, <2>2, <2>6, <4>1, TellStarts
      <4>4. Shown(g) <=> g.sections
        BY <1>1, <1>8, <4>3 DEF Shown
      <4> QED BY <1>1, <4>1, <4>2, <4>4 DEF ToolKnows
    <3>2. g.alone /\ ~g.failed /\ g.hook \in TellsTensors /\ Checks(g)
             /\ "OpMalloc" \notin Pending(g) => g.id \in o
      BY <1>4, <2>2, TellStarts, <1>1, <1>2, <1>8, <2>1 DEF ToolKnows
    <3> QED BY <3>1, <3>2 DEF ToolKnows
  <2> QED BY <2>5, <2>8, <2>9
<1>9. CASE g.failed /\ g.phase \in {"post", "end"}
  BY <1>1, <1>9 DEF Pointed, Paired, ToolKnows, Owned
<1>10. CASE f.phase \in {"post", "end"} /\ g.phase \in {"end", "close"} /\ g.skip = f.skip
  <2>1. Past(f, "CreateContext")
    BY <1>1, <1>10 DEF Past
  <2>2. Pointed(g)
    BY <1>1, <1>2, <1>10, <2>1 DEF Pointed, Owned
  <2>3. Paired(g)
    BY <1>1, <1>2, <1>10 DEF Paired, Checks, Early
  <2>4. ~Shown(f) /\ ~Shown(g)
    BY <1>1, <1>10 DEF Shown
  <2>5. ToolKnows(g, s, o)
    BY <1>1, <1>2, <1>10, <2>4 DEF ToolKnows, Owned
  <2> QED BY <2>2, <2>3, <2>5
<1> QED BY <1>2, <1>6, <1>7, <1>8, <1>9, <1>10

\* A call that another one overlaps from now on, and a new one.
LEMMA RangesMarked ==
    ASSUME NEW f, NEW h, Marked(f, h), ScriptInv(f), FrameInv(f), NEW s, NEW o,
           f.hook \in AclHooks => f.hook \notin RtHooks,
           Pointed(f), Paired(f), ToolKnows(f, s, o)
    PROVE  Pointed(h) /\ Paired(h) /\ ToolKnows(h, s, o)
<1>1. /\ Pending(h) = Pending(f) /\ h.phase = f.phase /\ h.hook = f.hook /\ h.id = f.id
      /\ h.skip = f.skip /\ h.sink = f.sink /\ h.failed = f.failed /\ ~h.alone /\ h.pc = f.pc
      /\ h.sections = f.sections
  BY MarkedFrame DEF Marked, SameLookup
<1>2. (Shown(h) <=> Shown(f)) /\ (Checks(h) <=> Checks(f)) /\ (Owned(h) => Owned(f))
  BY <1>1 DEF Shown, Checks, Owned
<1>3. Pointed(h)
  BY <1>1, <1>2 DEF Pointed, Past
<1>4. Paired(h)
  BY <1>1, <1>2 DEF Paired
<1>5. ToolKnows(h, s, o)
  BY <1>1, <1>2 DEF ToolKnows
<1> QED BY <1>3, <1>4, <1>5

LEMMA RangesOpened ==
    ASSUME NEW g, Opened(g), NEW s, NEW o, g.id \notin s
    PROVE  Pointed(g) /\ Paired(g) /\ ToolKnows(g, s, o)
BY DEF Opened, Fresh, Shown, Pointed, Paired, ToolKnows, Past

-----------------------------------------------------------------------------
(* Ranges over every step. *)

LEMMA RangeParts ==
    ASSUME RangeWorld
    PROVE  /\ OwnWorld /\ Types /\ IdsInv /\ CallInv /\ OwnersInv /\ AloneInv /\ OpenInv
           /\ SectionIds /\ RtInv /\ ReturnedInv /\ CleanInv
           /\ \A t \in Threads :
                 /\ ManagerInv(t) /\ NamedInv(t)
                 /\ call[t] # NoCall => /\ call[t] \in FrameT /\ call[t].id \in Ids
                                        /\ call[t].id # None /\ FrameIds(call[t])
                                        /\ ScriptInv(call[t]) /\ FrameInv(call[t])
                                        /\ Pointed(call[t]) /\ Paired(call[t])
                                        /\ ToolKnows(call[t], told.sections, told.ops)
                                        /\ call[t].hook \in AclHooks \/ call[t].hook \in RtHooks
                                        /\ call[t].hook \in AclHooks => call[t].hook \notin RtHooks
<1>1. OwnWorld /\ SectionIds /\ RtInv /\ ReturnedInv /\ CleanInv /\ PointedInv /\ PairedInv
      /\ KnownInv
  BY DEF RangeWorld
<1>2. /\ Types /\ IdsInv /\ CallInv /\ OwnersInv /\ AloneInv /\ OpenInv
      /\ \A t \in Threads : /\ ManagerInv(t) /\ NamedInv(t)
                            /\ call[t] # NoCall => call[t] \in FrameT /\ call[t].id \in Ids
  BY <1>1, OwnParts
<1>3. \A id \in Ids : id # None
  BY <1>2, InfoNat DEF Ids, None
<1>4. \A f \in FrameT : /\ f.hook \in AclHooks \/ f.hook \in RtHooks
                        /\ f.hook \in AclHooks => f.hook \notin RtHooks
  BY HooksApart DEF FrameT, Hooks
<1> QED BY <1>1, <1>2, <1>3, <1>4 DEF PointedInv, PairedInv, KnownInv, CallInv, IdsInv

\* A launch of the runtime's interface stays one.
LEMMA OwnIsRt ==
    ASSUME NEW t \in Threads, RangeWorld, ~dead, call[t] # NoCall, call[t].hook \in RtHooks
    PROVE  OfRt(call[t].id)
BY RangeParts DEF OfRt, OwnersInv

LEMMA LastIsRt ==
    ASSUME RangeWorld, LastOf("rt") # None
    PROVE  OfRt(LastOf("rt"))
<1> DEFINE l == dev["rt"].launches
<1>1. l # <<>> /\ LastOf("rt") = Last(l)
  BY DEF LastOf
<1>2. l \in Seq(Nat)
  BY RangeParts DEF Types, DevT
<1>3. Len(l) \in DOMAIN l /\ Last(l) = l[Len(l)]
  BY <1>1, <1>2 DEF Last
<1> QED BY <1>1, <1>3, RangeParts DEF RtInv

LEMMA RtWork ==
    ASSUME NEW t \in Threads, RangeWorld, Work(t)
    PROVE  RtInv'
<1> DEFINE f == call[t]
           g == call'[t]
<1>1. /\ Types /\ IdsInv /\ CallInv /\ ManagerInv(t) /\ RtInv /\ OwnersInv
      /\ f # NoCall => f.id \in Ids
  BY RangeParts
<1>2. /\ f # NoCall /\ g # NoCall /\ f \in FrameT /\ SameCall(f, g) /\ info' = info /\ ~dead
      /\ NextCall(t) \in PhaseCalls(f)
      /\ \A u \in Threads : u # t => call'[u] = call[u]
      /\ f.hook \in AclHooks => f.hook \notin RtHooks
  BY <1>1, OwnStep, WorkCall DEF Others
<1>3. g.id = f.id /\ g.hook = f.hook
  BY <1>2 DEF SameCall
<1>4. done' = done \/ Ends(t)
  BY <1>1, WorkDone
<1>5. done \in Seq(FrameT \cup {NoCall}) /\ DOMAIN done = Ids
  BY <1>1 DEF Types, Ids
<1>6. \A j \in Ids : done'[j] = done[j] \/ (j = f.id /\ done'[j] = f)
  BY <1>4, <1>5 DEF Ends
<1>7. ASSUME NEW x, OfRt(x) PROVE OfRt(x)'
  BY <1>2, <1>3, <1>7, <1>6 DEF OfRt, Ids
<1>8. f.hook \in RtHooks => OfRt(f.id)
  BY <1>2, OwnIsRt
<1>9. LastOf("rt") # None => OfRt(LastOf("rt"))
  BY LastIsRt
<1>10. ASSUME NEW i \in DOMAIN dev'["rt"].launches, NEW x, x = dev'["rt"].launches[i]
       PROVE  OfRt(x)'
  <2>1. CASE dev'["rt"].launches = dev["rt"].launches
    BY <1>1, <1>10, <2>1, <1>7 DEF RtInv
  <2>2. CASE dev'["rt"].launches # dev["rt"].launches
    <3>1. CreateContext(t) \/ AddLaunchEvent(t)
      BY <1>1, <2>2, DevParts
    <3>2. dev' = Entered(f)
      BY <2>2, <3>1 DEF CreateContext, AddLaunchEvent
    <3>3. Api(f.hook) = "rt" /\ f.hook \in RtHooks
      BY <1>1, <1>2, <2>2, <3>2, EnteredTypes DEF Api, FrameT, Hooks
    <3> DEFINE l == dev["rt"].launches
               m == dev'["rt"].launches
    <3>4. l \in Seq(Nat) /\ f.id \in Nat /\ m = Append(l, f.id)
      BY <1>1, <1>2, <3>2, <3>3, EnteredTypes DEF Types, DevT, FrameT
    <3>5. \A k \in DOMAIN l : OfRt(l[k])
      BY <1>1 DEF RtInv
    <3> HIDE DEF l, m
    <3>6. /\ m \in Seq(Nat) /\ Len(m) = Len(l) + 1 /\ m[Len(l) + 1] = f.id
          /\ \A k \in 1..Len(l) : m[k] = l[k]
      BY <3>4, SeqMore
    <3>7. i \in DOMAIN m /\ x = m[i]
      BY <1>10 DEF m
    <3>8. OfRt(x)
      <4>1. CASE i = Len(l) + 1
        BY <1>8, <3>3, <3>6, <3>7, <4>1
      <4>2. CASE i # Len(l) + 1
        BY <3>4, <3>6, <3>7, <4>2, <3>5
      <4> QED BY <4>1, <4>2
    <3> QED BY <1>7, <3>8
  <2> QED BY <2>1, <2>2
<1>11. ASSUME f.hook \in RtHooks
       PROVE  (g.pc # None => OfRt(g.pc)) /\ (g.event # None => OfRt(g.event))
  <2>1. (f.pc # None => OfRt(f.pc)) /\ (f.event # None => OfRt(f.event))
    BY <1>1, <1>2, <1>11 DEF RtInv
  <2>2. NextCall(t) # "CreateContext"
    BY <1>2, <1>11, TellPhases
  <2>3. g.pc \in {f.pc, Wanted(t)}
    BY <1>1, <2>2, LookedUp
  <2>4. Wanted(t) \in {f.event, LastOf("rt")}
    BY DEF Wanted
  <2>5. g.event \in {f.event, LastOf("rt")}
    <3>1. CASE GetLaunchId(t)
      <4>1. PICK e : Makes(t, e) /\ e.event = LastOf("rt")
        BY <1>1, <3>1, GetLaunchIdFrame
      <4> QED BY <4>1 DEF Makes, Runs
    <3>2. CASE ~GetLaunchId(t)
      BY <1>1, <2>2, <3>2, EventKept, HeadNames
    <3> QED BY <3>1, <3>2
  <2> QED BY <1>9, <2>1, <2>3, <2>4, <2>5
<1>12. ASSUME NEW u \in Threads, call'[u] # NoCall, call'[u].hook \in RtHooks, NEW x, x # None,
              x = call'[u].pc \/ x = call'[u].event
       PROVE  OfRt(x)'
  <2>1. OfRt(x)
    BY <1>3, <1>11, <1>12, <1>1, <1>2 DEF RtInv
  <2> QED BY <1>7, <2>1
<1>13. \A i \in DOMAIN dev'["rt"].launches : OfRt(dev["rt"].launches[i])'
  BY <1>10 DEF OfRt
<1>14. \A u \in Threads : call'[u] # NoCall /\ call'[u].hook \in RtHooks =>
          /\ call'[u].pc # None => OfRt(call[u].pc)'
          /\ call'[u].event # None => OfRt(call[u].event)'
  BY <1>12 DEF OfRt
<1> QED BY <1>13, <1>14 DEF RtInv

\* A launch of the runtime's interface stays one if nothing of it is changed.
LEMMA OfRtKept ==
    ASSUME NEW x, OfRt(x),
           \A u \in Threads : call'[u] # NoCall /\ call'[u].id = x =>
              call[u] # NoCall /\ call[u].id = x /\ call'[u].hook = call[u].hook,
           x \in Ids' /\ done'[x] # NoCall =>
              \/ x \in Ids /\ done'[x] = done[x]
              \/ \E u \in Threads : call[u] # NoCall /\ call[u].id = x /\ done'[x] = call[u]
    PROVE  OfRt(x)'
BY DEF OfRt

LEMMA RtAdvance ==
    ASSUME NEW t \in Threads, RangeWorld, Advance(t)
    PROVE  RtInv'
<1> DEFINE f == call[t]
           g == call'[t]
<1>1. Types /\ IdsInv /\ CallInv /\ RtInv
  BY RangeParts
<1>2. /\ f # NoCall /\ UNCHANGED <<dev, info>>
      /\ \A u \in Threads : u # t => call'[u] = call[u]
      /\ g # NoCall => done' = done
      /\ g = NoCall => Ends(t)
  BY <1>1, AdvanceCall, AdvanceKeeps DEF Others
<1>3. g # NoCall => g.id = f.id /\ g.hook = f.hook /\ g.pc = f.pc /\ g.event = f.event
  BY <1>1, AdvanceSteps, EntersSame
<1>4. done \in Seq(FrameT \cup {NoCall}) /\ DOMAIN done = Ids
  BY <1>1 DEF Types, Ids
<1>5. \A j \in Ids : done'[j] = done[j] \/ (j = f.id /\ done'[j] = f)
  BY <1>2, <1>4 DEF Ends
<1>6. ASSUME NEW x, OfRt(x) PROVE OfRt(x)'
  BY <1>2, <1>3, <1>5, <1>6, OfRtKept DEF Ids
<1>7. ASSUME NEW i \in DOMAIN dev["rt"].launches, NEW x, x = dev["rt"].launches[i]
      PROVE  OfRt(x)'
  BY <1>1, <1>6, <1>7 DEF RtInv
<1>8. ASSUME NEW u \in Threads, call'[u] # NoCall, call'[u].hook \in RtHooks, NEW x, x # None,
             x = call'[u].pc \/ x = call'[u].event
      PROVE  OfRt(x)'
  <2>1. OfRt(x)
    BY <1>1, <1>2, <1>3, <1>8 DEF RtInv
  <2> QED BY <1>6, <2>1
<1>9. \A i \in DOMAIN dev'["rt"].launches : OfRt(dev["rt"].launches[i])'
  BY <1>2, <1>7 DEF OfRt
<1>10. \A u \in Threads : call'[u] # NoCall /\ call'[u].hook \in RtHooks =>
          /\ call'[u].pc # None => OfRt(call[u].pc)'
          /\ call'[u].event # None => OfRt(call[u].event)'
  BY <1>8 DEF OfRt
<1> QED BY <1>9, <1>10 DEF RtInv

LEMMA RtBegin ==
    ASSUME NEW t \in Threads, RangeWorld, Begin(t)
    PROVE  RtInv'
<1> DEFINE new == Len(info) + 1
<1>1. /\ Types /\ IdsInv /\ CallInv /\ RtInv /\ Len(info) \in Nat
      /\ \A u \in Threads : call[u] # NoCall => FrameIds(call[u])
  BY RangeParts, InfoNat
<1>2. /\ Len(info') = new /\ dev' = dev
      /\ \A i \in Ids : done'[i] = done[i]
      /\ done'[new] = NoCall
  BY <1>1, TypesBegin DEF Ids
<1>3. /\ call'[t] # NoCall => call'[t].id = new /\ call'[t].pc = None /\ call'[t].event = None
      /\ \A u \in Threads : u # t /\ call'[u] # NoCall =>
            call[u] # NoCall /\ Marked(call[u], call'[u])
  <2>1. PICK g : \E k \in scen.kinds : call'[t] = g /\ Opened(g) /\ g.id = new
    BY <1>1, BeginFrame
  <2>2. call'[t].id = new /\ call'[t].pc = None /\ call'[t].event = None
    BY <2>1 DEF Opened
  <2>3. \A u \in Threads : u # t /\ call'[u] # NoCall =>
            call[u] # NoCall /\ Marked(call[u], call'[u])
    BY <1>1, BeginFrame
  <2> QED BY <2>2, <2>3
<1>4. \A u \in Threads : u # t /\ call'[u] # NoCall =>
         /\ call[u] # NoCall /\ call'[u].id = call[u].id /\ call'[u].hook = call[u].hook
         /\ call'[u].pc = call[u].pc /\ call'[u].event = call[u].event
  BY <1>3 DEF Marked, SameLookup
<1>5. ASSUME NEW x \in 0..Len(info), OfRt(x) PROVE OfRt(x)'
  BY <1>1, <1>5, <1>3, <1>4, <1>2, OfRtKept DEF Ids
<1>6. ASSUME NEW i \in DOMAIN dev["rt"].launches, NEW x, x = dev["rt"].launches[i]
      PROVE  OfRt(x)'
  BY <1>1, <1>6, <1>5 DEF IdsInv, Ids, RtInv
<1>7. ASSUME NEW u \in Threads, call'[u] # NoCall, call'[u].hook \in RtHooks, NEW x, x # None,
             x = call'[u].pc \/ x = call'[u].event
      PROVE  OfRt(x)'
  BY <1>3, <1>7, <1>1, <1>4, <1>5 DEF RtInv, FrameIds
<1>8. \A i \in DOMAIN dev'["rt"].launches : OfRt(dev["rt"].launches[i])'
  BY <1>2, <1>6 DEF OfRt
<1>9. \A u \in Threads : call'[u] # NoCall /\ call'[u].hook \in RtHooks =>
          /\ call'[u].pc # None => OfRt(call[u].pc)'
          /\ call'[u].event # None => OfRt(call[u].event)'
  BY <1>7 DEF OfRt
<1> QED BY <1>8, <1>9 DEF RtInv

\* Sections that are told or withdrawn are the call's own, or of a launch of the
\* runtime's interface.
LEMMA SectionsOf ==
    ASSUME NEW t \in Threads, RangeWorld, Work(t), NEW x \in Ids, x # call[t].id,
           ~(call[t].hook \in RtHooks /\ OfRt(x))
    PROVE  x \in told'.sections <=> x \in told.sections
<1>1. /\ Types /\ CallInv /\ ManagerInv(t) /\ IdsInv /\ RtInv
      /\ call[t] # NoCall => Pointed(call[t])
      /\ x # None
  BY RangeParts, InfoNat DEF Ids, None
<1>2. call[t] # NoCall /\ (call[t].hook \in AclHooks \/ call[t].hook \in RtHooks)
  BY <1>1, OwnStep
<1>3. call[t].pc # x
  <2>1. CASE call[t].hook \in AclHooks
    BY <1>1, <1>2, <2>1 DEF Pointed
  <2>2. CASE call[t].hook \in RtHooks
    BY <1>1, <1>2, <2>2 DEF RtInv
  <2> QED BY <1>2, <2>1, <2>2
<1>4. \/ told'.sections = told.sections
      \/ told'.sections = told.sections \cup {call[t].pc}
      \/ told'.sections = told.sections \ {call[t].pc}
  BY <1>1, ToldParts
<1> QED BY <1>3, <1>4

LEMMA KnownOthersWork ==
    ASSUME NEW t \in Threads, RangeWorld, Work(t), NEW u \in Threads, u # t, call[u] # NoCall
    PROVE  ToolKnows(call[u], told'.sections, told'.ops)
<1>1. /\ ToolKnows(call[u], told.sections, told.ops) /\ AloneInv /\ OwnersInv
      /\ call[u].id \in Ids /\ call[u].hook \in AclHooks => call[u].hook \notin RtHooks
      /\ Types /\ IdsInv /\ CallInv /\ ManagerInv(t) /\ call[u].id \in Ids
  BY RangeParts
<1>2. call[t] # NoCall
  BY <1>1, OwnStep
<1>3. ~call[u].alone /\ call[u].id # call[t].id
  BY <1>1, <1>2 DEF AloneInv, OwnersInv
<1>4. Owned(call[u]) => (call[u].id \in told'.sections <=> call[u].id \in told.sections)
  <2> SUFFICES ASSUME Owned(call[u])
               PROVE  call[u].id \in told'.sections <=> call[u].id \in told.sections
    OBVIOUS
  <2>1. ~OfRt(call[u].id)
    BY <1>3, <1>1 DEF Owned, OfRt
  <2> QED BY <1>1, <1>3, <2>1, SectionsOf
<1> QED BY <1>1, <1>3, <1>4 DEF ToolKnows

LEMMA ReturnedWork ==
    ASSUME NEW t \in Threads, RangeWorld, Work(t)
    PROVE  ReturnedInv'
<1> SUFFICES ASSUME ~dead', NEW id \in Ids', done'[id] # NoCall, done'[id].hook \in AclHooks,
                    ~done'[id].failed
             PROVE  id \notin told'.sections
  BY DEF ReturnedInv
<1>1. Types /\ IdsInv /\ CallInv /\ ManagerInv(t) /\ OwnersInv /\ ReturnedInv
  BY RangeParts
<1>2. done' = done /\ ~dead
  BY <1>1, WorkDone
<1>3. id \in Ids /\ call[t] # NoCall
  BY <1>1, OwnStep DEF Ids
<1>4. id # call[t].id /\ id \notin told.sections
  BY <1>1, <1>2, <1>3 DEF OwnersInv, ReturnedInv
<1>5. ~OfRt(id)
  BY <1>2, HooksApart, <1>3 DEF OfRt
<1> QED BY <1>3, <1>4, <1>5, SectionsOf

LEMMA ReturnedAdvance ==
    ASSUME NEW t \in Threads, RangeWorld, Advance(t)
    PROVE  ReturnedInv'
<1> SUFFICES ASSUME ~dead', NEW id \in Ids', done'[id] # NoCall, done'[id].hook \in AclHooks,
                    ~done'[id].failed
             PROVE  id \notin told'.sections
  BY DEF ReturnedInv
<1>1. /\ Types /\ IdsInv /\ CallInv /\ ReturnedInv
      /\ call[t] # NoCall => ToolKnows(call[t], told.sections, told.ops)
  BY RangeParts
<1>2. /\ call[t] # NoCall /\ UNCHANGED <<info, dead>>
      /\ call'[t] # NoCall => done' = done
      /\ call'[t] = NoCall => Returns(t) /\ Ends(t)
  BY <1>1, AdvanceCall, AdvanceKeeps
<1>3. told' = told
  BY DEF Advance, ToPre, Launch, Moves
<1>4. id \in Ids /\ DOMAIN done = Ids
  BY <1>1, <1>2 DEF Ids, Types
<1>5. CASE done'[id] = done[id]
  BY <1>1, <1>2, <1>3, <1>4, <1>5 DEF ReturnedInv
<1>6. CASE done'[id] # done[id]
  <2>1. call'[t] = NoCall
    BY <1>2, <1>6
  <2>2. done'[id] = call[t] /\ id = call[t].id
    BY <1>2, <1>4, <1>6, <2>1 DEF Ends
  <2>3. call[t].phase = "close"
    BY <1>2, <2>1 DEF Returns
  <2>4. Owned(call[t]) /\ ~Shown(call[t])
    BY <2>2, <2>3 DEF Owned, Shown
  <2> QED BY <1>1, <1>2, <1>3, <2>2, <2>4 DEF ToolKnows
<1> QED BY <1>5, <1>6

LEMMA ReturnedBegin ==
    ASSUME NEW t \in Threads, RangeWorld, Begin(t)
    PROVE  ReturnedInv'
<1> SUFFICES ASSUME ~dead', NEW id \in Ids', done'[id] # NoCall, done'[id].hook \in AclHooks,
                    ~done'[id].failed
             PROVE  id \notin told'.sections
  BY DEF ReturnedInv
<1>1. Types /\ CallInv /\ ReturnedInv /\ Len(info) \in Nat
  BY RangeParts, InfoNat
<1>2. /\ Len(info') = Len(info) + 1 /\ UNCHANGED <<told, dead>>
      /\ \A i \in Ids : done'[i] = done[i]
      /\ done'[Len(info) + 1] = NoCall
  BY <1>1, TypesBegin DEF Ids
<1>3. id \in Ids
  BY <1>1, <1>2 DEF Ids
<1> QED BY <1>1, <1>2, <1>3 DEF ReturnedInv

\* What the tool knows is of the call under way, as long as calls do not overlap.
LEMMA CleanWork ==
    ASSUME NEW t \in Threads, RangeWorld, Work(t), Pointed(call'[t])
    PROVE  CleanInv'
<1> SUFFICES ASSUME AllAlone', ~dead'
             PROVE  /\ \A x \in told'.sections :
                          \E u \in Threads : call'[u] # NoCall /\ call'[u].id = x
                    /\ told'.ops # {} => \E u \in Threads :
                          /\ call'[u] # NoCall /\ HoldsOps(call'[u])
                          /\ told'.ops \subseteq dev'[Api(call'[u].hook)].ops
                    /\ told'.overflow # {} => \E u \in Threads :
                          call'[u] # NoCall /\ HoldsOverflow(call'[u])
  BY DEF CleanInv
<1> DEFINE f == call[t]
           g == call'[t]
           a == Api(f.hook)
           c == NextCall(t)
<1>1. /\ Types /\ IdsInv /\ CallInv /\ ManagerInv(t) /\ AloneInv /\ CleanInv
      /\ f # NoCall => Paired(f) /\ FrameInv(f)
  BY RangeParts
<1>2. /\ f # NoCall /\ g # NoCall /\ f \in FrameT /\ SameCall(f, g) /\ info' = info /\ ~dead
      /\ f.failed => g.failed
      /\ ~g.failed => Pending(g) = Pending(f) \ {c}
      /\ c \in PhaseCalls(f) /\ c \in Pending(f) /\ f.id # None
      /\ \A u \in Threads : u # t => call'[u] = call[u]
  BY <1>1, OwnStep, WorkCall DEF Others
<1>3. /\ g.id = f.id /\ g.hook = f.hook /\ g.phase = f.phase /\ g.skip = f.skip
      /\ g.alone = f.alone
  BY <1>2 DEF SameCall
<1>4. done' = done
  BY <1>1, WorkDone
<1>5. f.alone /\ ~f.failed /\ ~g.failed /\ AllAlone
  BY <1>2, <1>3, <1>4 DEF AllAlone, Ids
<1>6. \A u \in Threads : u # t => call[u] = NoCall
  BY <1>1, <1>2, <1>5 DEF AloneInv
<1>7. /\ told.sections \subseteq {f.id}
      /\ told.ops # {} => HoldsOps(f) /\ told.ops \subseteq dev[a].ops
      /\ told.overflow # {} => HoldsOverflow(f)
  BY <1>1, <1>2, <1>5, <1>6 DEF CleanInv
<1>8. Pending(g) = Pending(f) \ {c}
  BY <1>2, <1>5
<1>9. f.phase \notin Early => g.sink = f.sink
  BY <1>2, <1>1, SinkKeptEarly, HeadNames DEF PhaseCalls, PreCalls, PostCalls, Early, FrameT,
     Making
<1>10. a \in {"acl", "rt"}
  BY ApiOf
<1>11. /\ told'.sections =
                 IF c = "SectionsMalloc" THEN told.sections \cup {f.pc}
                 ELSE IF c = "SectionsFree" /\ f.sections
                 THEN told.sections \ {f.pc} ELSE told.sections
       /\ told'.ops =
                 IF c = "OpMalloc" THEN told.ops \cup dev[a].ops \cup {f.id}
                 ELSE IF c = "OpFree" THEN told.ops \ dev[a].ops ELSE told.ops
       /\ told'.overflow =
                 IF c = "OverflowMalloc" THEN {"buffer"}
                 ELSE IF c = "OverflowFree" THEN {} ELSE told.overflow
  BY <1>1, ToldParts
<1>12. told'.sections \subseteq {f.id}
  <2>1. c = "SectionsMalloc" => f.pc = f.id
    <3> SUFFICES ASSUME c = "SectionsMalloc" PROVE f.pc = f.id
      OBVIOUS
    <3>1. g.sections /\ g.pc = f.pc
      BY <1>1, LookedUp DEF Events
    <3>2. g.pc = g.id
      BY <1>3, <1>5, <3>1 DEF Pointed, Owned
    <3> QED BY <1>3, <3>1, <3>2
  <2> QED BY <1>7, <1>11, <2>1
<1>13. told'.ops # {} => HoldsOps(g) /\ told'.ops \subseteq dev'[a].ops
  <2>1. CASE c = "OpMalloc"
    <3>1. told'.ops = told.ops \cup dev[a].ops \cup {f.id} /\ dev'[a].ops = dev[a].ops \cup {f.id}
      BY <1>1, <1>10, <1>11, <2>1, OpsParts
    <3>2. HoldsOps(g)
      BY <1>2, <2>1, TellPhases, <1>1, <1>5, <1>3, <1>8, <1>9 DEF Paired, HoldsOps, Checks, Early
    <3> QED BY <1>7, <3>1, <3>2
  <2>2. CASE c = "OpFree"
    BY <1>7, <1>11, <2>2
  <2>3. CASE c \in {"UpdateOpMemInfo", "ParseMetaData", "ClearArgsInfo"}
    BY <1>2, <2>3, <1>7, <1>11 DEF PhaseCalls, PreCalls, PostCalls, FrameT, Making, HoldsOps
  <2>4. CASE c \notin {"OpMalloc", "OpFree", "UpdateOpMemInfo", "ParseMetaData", "ClearArgsInfo"}
    BY <1>1, <1>10, <1>11, <2>4, OpsParts, <1>3, <1>8, <1>9, <1>7 DEF HoldsOps, Checks, Early
  <2> QED BY <2>1, <2>2, <2>3, <2>4
<1>14. told'.overflow # {} => HoldsOverflow(g)
  <2>1. CASE c = "OverflowMalloc"
    BY <1>2, <2>1, TellPhases, <1>3, <1>9 DEF HoldsOverflow, Checks, Early
  <2>2. CASE c = "OverflowFree"
    BY <1>11, <2>2
  <2>3. CASE c \notin {"OverflowMalloc", "OverflowFree"}
    BY <1>11, <2>3, <1>3, <1>8, <1>9, <1>7 DEF HoldsOverflow, Checks, Early
  <2> QED BY <2>1, <2>2, <2>3
<1>15. \A x \in told'.sections : g # NoCall /\ g.id = x
  BY <1>2, <1>3, <1>12
<1>16. Api(g.hook) = a
  BY <1>3
<1> HIDE DEF c
<1> QED BY <1>2, <1>13, <1>14, <1>15, <1>16

LEMMA CleanAdvance ==
    ASSUME NEW t \in Threads, RangeWorld, Advance(t)
    PROVE  CleanInv'
<1> SUFFICES ASSUME AllAlone', ~dead'
             PROVE  /\ \A x \in told'.sections :
                          \E u \in Threads : call'[u] # NoCall /\ call'[u].id = x
                    /\ told'.ops # {} => \E u \in Threads :
                          /\ call'[u] # NoCall /\ HoldsOps(call'[u])
                          /\ told'.ops \subseteq dev'[Api(call'[u].hook)].ops
                    /\ told'.overflow # {} => \E u \in Threads :
                          call'[u] # NoCall /\ HoldsOverflow(call'[u])
  BY DEF CleanInv
<1> DEFINE f == call[t]
           g == call'[t]
           a == Api(f.hook)
<1>1. /\ Types /\ IdsInv /\ CallInv /\ AloneInv /\ OwnersInv /\ CleanInv
      /\ f # NoCall => /\ FrameInv(f) /\ ToolKnows(f, told.sections, told.ops) /\ f.id \in Ids
  BY RangeParts
<1>2. /\ f # NoCall /\ f \in FrameT /\ UNCHANGED <<info, dev, dead>>
      /\ \A u \in Threads : u # t => call'[u] = call[u]
      /\ g # NoCall => done' = done
      /\ g = NoCall => Returns(t) /\ Ends(t)
  BY <1>1, AdvanceCall, AdvanceKeeps DEF Others
<1>3. told' = told
  BY DEF Advance, ToPre, Launch, Moves
<1>4. Pending(f) = {}
  BY EmptyPending DEF Advance, Pending
<1>5. CASE g # NoCall
  <2>1. /\ g.id = f.id /\ g.hook = f.hook /\ g.alone = f.alone /\ (f.failed => g.failed)
        /\ g.sink = f.sink /\ g.mem = f.mem /\ g \in FrameT
    BY <1>1, <1>5, AdvanceSteps, EntersSame DEF Enters
  <2>2. f.alone /\ ~f.failed /\ ~g.failed /\ AllAlone
    BY <1>2, <1>5, <2>1 DEF AllAlone, Ids
  <2>3. \A u \in Threads : u # t => call[u] = NoCall
    BY <1>1, <1>2, <2>2 DEF AloneInv
  <2>4. /\ told.sections \subseteq {f.id}
        /\ told.ops # {} => HoldsOps(f) /\ told.ops \subseteq dev[a].ops
        /\ told.overflow # {} => HoldsOverflow(f)
    BY <1>1, <1>2, <2>2, <2>3 DEF CleanInv
  <2>5. f.phase = "pre" =>
           /\ g.phase = "post" /\ g.skip = f.skip
           /\ Pending(g) = PostCalls(g.hook, g.skip, g.sink, g.mem # None)
    BY <1>1, <1>5, <2>2, AdvanceSteps
  <2>6. f.phase = "pre" /\ Checks(f) =>
           g.phase = "post" /\ Pending(g) = PostCalls(f.hook, FALSE, FALSE, TRUE)
    <3> SUFFICES ASSUME f.phase = "pre", Checks(f)
                 PROVE  g.phase = "post" /\ Pending(g) = PostCalls(f.hook, FALSE, FALSE, TRUE)
      OBVIOUS
    <3>1. f.mem # None
      BY <1>1, <1>2, <1>4, <2>2, CheckedHasBuffer
    <3>2. f.skip = FALSE /\ f.sink = FALSE
      BY <1>2 DEF Checks, FrameT
    <3>3. (g.mem # None) = TRUE
      BY <2>1, <3>1
    <3> QED BY <2>1, <2>5, <3>2, <3>3
  <2>7. f.hook \in Hooks
    BY <1>2 DEF FrameT
  <2>8. HoldsOps(f) => HoldsOps(g)
    BY <1>4, <2>6, <2>7, TellStarts DEF HoldsOps
  <2>9. HoldsOverflow(f) => HoldsOverflow(g)
    BY <1>4, <2>6, <2>7, TellStarts DEF HoldsOverflow
  <2>10. Api(g.hook) = a
    BY <2>1
  <2> QED BY <1>2, <1>3, <1>5, <2>1, <2>4, <2>8, <2>9, <2>10
<1>6. CASE g = NoCall
  <2>1. f.phase = "close" /\ done' = [done EXCEPT ![f.id] = f]
    BY <1>2, <1>6 DEF Returns
  <2>2. done \in Seq(FrameT \cup {NoCall}) /\ DOMAIN done = Ids /\ done[f.id] = NoCall
    BY <1>1, <1>2 DEF Types, Ids, OwnersInv
  <2>3. done'[f.id] = f /\ \A j \in Ids : j # f.id => done'[j] = done[j]
    BY <1>1, <1>2, <2>1, <2>2
  <2>4. f.alone /\ ~f.failed /\ AllAlone
    BY <1>1, <1>2, <2>3, <2>2 DEF AllAlone, Ids
  <2>5. \A u \in Threads : u # t => call[u] = NoCall
    BY <1>1, <1>2, <2>4 DEF AloneInv
  <2>6. told.sections \subseteq {f.id} /\ told.ops = {} /\ told.overflow = {}
    BY <2>1, <1>1, <1>2, <2>4, <2>5 DEF HoldsOps, HoldsOverflow, CleanInv
  <2>7. f.id \notin told.sections
    BY <1>1, <1>2, <2>1, <2>4 DEF ToolKnows, Owned, Shown
  <2> QED BY <1>3, <2>6, <2>7
<1> QED BY <1>5, <1>6

LEMMA CleanBegin ==
    ASSUME NEW t \in Threads, RangeWorld, Begin(t)
    PROVE  CleanInv'
<1> SUFFICES ASSUME AllAlone', ~dead'
             PROVE  told'.sections = {} /\ told'.ops = {} /\ told'.overflow = {}
  BY DEF CleanInv
<1>1. Types /\ CallInv /\ CleanInv /\ Len(info) \in Nat
  BY RangeParts, InfoNat
<1>2. /\ Len(info') = Len(info) + 1 /\ UNCHANGED <<told, dead>>
      /\ \A i \in Ids : done'[i] = done[i]
  BY <1>1, TypesBegin DEF Ids
<1>3. \A u \in Threads : call[u] = NoCall
  <2>1. PICK g : \E k \in scen.kinds :
           /\ call'[t] = g /\ Opened(g)
           /\ g.alone => \A u \in Threads : call[u] = NoCall
    BY <1>1, BeginFrame
  <2>2. g # NoCall
    BY <2>1, NoCallFrame DEF Opened
  <2> QED BY <2>1, <2>2 DEF AllAlone
<1>4. AllAlone
  <2>1. ASSUME NEW i \in Ids, done[i] # NoCall PROVE done[i].alone /\ ~done[i].failed
    BY <1>1, <1>2, <2>1 DEF Ids, AllAlone
  <2> QED BY <1>3, <2>1 DEF AllAlone
<1> QED BY <1>1, <1>2, <1>3, <1>4 DEF CleanInv

-----------------------------------------------------------------------------
(* RangesTracked. *)

LEMMA RangeWorldWork ==
    ASSUME NEW t \in Threads, RangeWorld, Work(t)
    PROVE  RangeWorld'
<1> DEFINE f == call[t]
           g == call'[t]
<1>1. /\ OwnWorld /\ Types /\ IdsInv /\ CallInv /\ ManagerInv(t) /\ NamedInv(t) /\ SectionIds
      /\ f # NoCall => /\ Pointed(f) /\ Paired(f) /\ ToolKnows(f, told.sections, told.ops)
                       /\ FrameIds(f)
      /\ \A u \in Threads : call[u] # NoCall => Pointed(call[u]) /\ Paired(call[u])
  BY RangeParts
<1>2. /\ f # NoCall /\ g # NoCall /\ info' = info
      /\ \A u \in Threads : u # t => call'[u] = call[u]
  BY <1>1, OwnStep, WorkCall DEF Others
<1>3. Pointed(g) /\ Paired(g)
  BY <1>1, <1>2, PointedWork, PairedWork
<1>4. ToolKnows(g, told'.sections, told'.ops)
  BY <1>1, <1>2, <1>3, KnownWork
<1>5. \A u \in Threads : u # t /\ call'[u] # NoCall =>
         ToolKnows(call'[u], told'.sections, told'.ops)
  BY <1>2, KnownOthersWork
<1>6. PointedInv' /\ PairedInv' /\ KnownInv'
  BY <1>1, <1>2, <1>3, <1>4, <1>5 DEF PointedInv, PairedInv, KnownInv
<1>7. SectionIds'
  BY <1>1, ToldParts, <1>2 DEF FrameIds, SectionIds
<1>8. OwnWorld' /\ RtInv' /\ ReturnedInv' /\ CleanInv'
  BY <1>1, <1>3, OwnWorldWork, RtWork, ReturnedWork, CleanWork
<1> QED BY <1>6, <1>7, <1>8 DEF RangeWorld

LEMMA RangeWorldAdvance ==
    ASSUME NEW t \in Threads, RangeWorld, Advance(t)
    PROVE  RangeWorld'
<1> DEFINE f == call[t]
           g == call'[t]
<1>1. /\ OwnWorld /\ Types /\ IdsInv /\ CallInv /\ SectionIds
      /\ \A u \in Threads : call[u] # NoCall =>
            Pointed(call[u]) /\ Paired(call[u]) /\ ToolKnows(call[u], told.sections, told.ops)
  BY RangeParts
<1>2. /\ f # NoCall /\ info' = info
      /\ \A u \in Threads : u # t => call'[u] = call[u]
  BY <1>1, AdvanceCall, AdvanceKeeps DEF Others
<1>3. told' = told
  BY DEF Advance, ToPre, Launch, Moves
<1>4. g # NoCall => Pointed(g) /\ Paired(g) /\ ToolKnows(g, told.sections, told.ops)
  BY <1>1, <1>2, RangesAdvance
<1>5. PointedInv' /\ PairedInv' /\ KnownInv'
  BY <1>1, <1>2, <1>3, <1>4 DEF PointedInv, PairedInv, KnownInv
<1>6. SectionIds'
  BY <1>1, <1>2, <1>3 DEF SectionIds
<1>7. OwnWorld' /\ RtInv' /\ ReturnedInv' /\ CleanInv'
  BY <1>1, OwnWorldAdvance, RtAdvance, ReturnedAdvance, CleanAdvance
<1> QED BY <1>5, <1>6, <1>7 DEF RangeWorld

LEMMA RangeWorldBegin ==
    ASSUME NEW t \in Threads, RangeWorld, Begin(t)
    PROVE  RangeWorld'
<1>1. /\ OwnWorld /\ Types /\ IdsInv /\ CallInv /\ SectionIds /\ Len(info) \in Nat
      /\ \A u \in Threads : call[u] # NoCall =>
            /\ Pointed(call[u]) /\ Paired(call[u])
            /\ ToolKnows(call[u], told.sections, told.ops)
            /\ ScriptInv(call[u]) /\ FrameInv(call[u])
            /\ call[u].hook \in AclHooks => call[u].hook \notin RtHooks
  BY RangeParts, InfoNat
<1>2. Len(info') = Len(info) + 1 /\ UNCHANGED told
  BY <1>1, TypesBegin
<1>3. PICK g : \E k \in scen.kinds : call'[t] = g /\ Opened(g) /\ g.id = Len(info) + 1
  BY <1>1, BeginFrame
<1>4. g.id \notin told.sections
  BY <1>1, <1>3 DEF SectionIds
<1>5. Pointed(g) /\ Paired(g) /\ ToolKnows(g, told.sections, told.ops)
  BY <1>3, <1>4, RangesOpened
<1>6. ASSUME NEW u \in Threads, u # t, NEW h, h = call'[u], h # NoCall
      PROVE  Pointed(h) /\ Paired(h) /\ ToolKnows(h, told.sections, told.ops)
  BY <1>1, <1>6, BeginFrame, RangesMarked
<1>7. PointedInv' /\ PairedInv' /\ KnownInv'
  BY <1>2, <1>3, <1>5, <1>6 DEF PointedInv, PairedInv, KnownInv
<1>8. SectionIds'
  BY <1>1, <1>2 DEF SectionIds
<1>9. OwnWorld' /\ RtInv' /\ ReturnedInv' /\ CleanInv'
  BY <1>1, OwnWorldBegin, RtBegin, ReturnedBegin, CleanBegin
<1> QED BY <1>7, <1>8, <1>9 DEF RangeWorld

LEMMA RangeWorldKept ==
    ASSUME RangeWorld, Kept, kill' \in BOOLEAN
    PROVE  RangeWorld'
<1>1. /\ OwnWorld' /\ call' = call /\ told' = told /\ info' = info /\ done' = done
      /\ dead' = dead /\ dev' = dev
  BY OwnWorldKept DEF RangeWorld, Kept
<1>2. SectionIds' /\ PointedInv' /\ PairedInv' /\ KnownInv' /\ ReturnedInv'
  BY <1>1 DEF RangeWorld, SectionIds, PointedInv, PairedInv, KnownInv, ReturnedInv, Ids
<1>3. RtInv'
  BY <1>1 DEF RangeWorld, RtInv, OfRt, Ids
<1>4. CleanInv'
  BY <1>1 DEF RangeWorld, CleanInv, AllAlone, Ids
<1> QED BY <1>1, <1>2, <1>3, <1>4 DEF RangeWorld

LEMMA RangeWorldNext ==
    ASSUME RangeWorld, [Next]_vars
    PROVE  RangeWorld'
BY RangeWorldKept, RangeParts, RangeWorldWork, RangeWorldAdvance, RangeWorldBegin, NextCases
   DEF vars, Kept, Types, Interrupt

LEMMA RangeWorldInit == ASSUME Init PROVE RangeWorld
<1>1. /\ \A t \in Threads : call[t] = NoCall
      /\ dev["rt"].launches = <<>> /\ Ids = {}
      /\ told.sections = {} /\ told.ops = {} /\ told.overflow = {}
  BY DEF Init, Ids
<1>2. RtInv
  BY <1>1 DEF RtInv
<1> QED BY <1>1, <1>2, OwnWorldInit DEF RangeWorld, SectionIds, PointedInv, PairedInv, KnownInv,
       ReturnedInv, CleanInv

LEMMA WorldRangesKnown == ASSUME RangeWorld PROVE RangesKnown
<1> SUFFICES ASSUME NEW t \in Threads, At(t, "Finalize"), ~call[t].failed
             PROVE  /\ call[t].alone \/ call[t].hook \in AclHooks => call[t].id \in told.sections
                    /\ call[t].alone /\ call[t].hook \in TellsTensors => call[t].id \in told.ops
  BY DEF RangesKnown
<1> DEFINE f == call[t]
<1>1. /\ f # NoCall /\ f \in FrameT /\ ScriptInv(f) /\ Paired(f)
      /\ ToolKnows(f, told.sections, told.ops)
  BY RangeParts DEF At
<1>2. f.todo # <<>> /\ f.todo \in Seq(StepT) /\ f.todo[1].call = "Finalize"
  BY <1>1 DEF At, FrameT
<1>3. "Finalize" \in Pending(f) /\ "Finalize" \in PhaseCalls(f)
  BY <1>2, <1>1 DEF Pending, CallsIn, ScriptInv
<1>4. Checks(f)
  BY <1>1, <1>3, TellPhases
<1>5. f.phase = "post"
  BY <1>1, <1>3 DEF PhaseCalls, InitCalls, PreCalls, Making, FrameT
<1>6. \A c \in Pending(f) : Rank(f.hook, "Finalize") <= Rank(f.hook, c)
  BY <1>1, <1>2, RankNat DEF ScriptInv, Sorted, Pending, CallsIn
<1>7. Rank(f.hook, "Finalize") = 12
  BY DEF Rank, Late, Events, Withdrawals
<1>8. Rank(f.hook, "SectionsMalloc") = 7 /\ Rank(f.hook, "OpMalloc") = 7
  BY DEF Rank, Late, Events, Withdrawals
<1>9. "SectionsMalloc" \notin Pending(f) /\ "OpMalloc" \notin Pending(f)
  BY <1>6, <1>7, <1>8
<1>10. Shown(f)
  BY <1>1, <1>3, <1>5, <1>9 DEF Paired, Shown
<1>11. f.alone \/ f.hook \in AclHooks => f.id \in told.sections
  BY <1>1, <1>10 DEF ToolKnows, Owned
<1>12. f.alone /\ f.hook \in TellsTensors => f.id \in told.ops
  BY <1>1, <1>3, <1>4, <1>5, <1>9 DEF ToolKnows
<1> QED BY <1>11, <1>12

LEMMA WorldRangesReturned == ASSUME RangeWorld PROVE RangesReturned
<1> SUFFICES ASSUME Idle, ~dead
             PROVE  /\ \A id \in Ids : done[id].hook \in AclHooks /\ ~done[id].failed
                                          => id \notin told.sections
                    /\ (\A id \in Ids : done[id].alone /\ ~done[id].failed) =>
                          told.sections = {} /\ told.ops = {} /\ told.overflow = {}
  BY DEF RangesReturned
<1>1. OpenInv /\ ReturnedInv /\ CleanInv
  BY RangeParts
<1>2. \A t \in Threads : call[t] = NoCall
  BY DEF Idle
<1>3. \A id \in Ids : done[id] # NoCall
  BY <1>1, <1>2 DEF OpenInv
<1>4. (\A id \in Ids : done[id].alone /\ ~done[id].failed) => AllAlone
  BY <1>2 DEF AllAlone
<1> QED BY <1>1, <1>2, <1>3, <1>4 DEF ReturnedInv, CleanInv

\* The inductive invariant of what the tool knows: whose ranges a call tells, what
\* it still withdraws, and that nothing is left of a call that returned.
THEOREM RangeWorldHolds == Spec => []RangeWorld
<1>1. Init => RangeWorld
  BY RangeWorldInit
<1>2. RangeWorld /\ [Next]_vars => RangeWorld'
  BY RangeWorldNext
<1> QED BY <1>1, <1>2, PTL DEF Spec

\* When the records of a checked launch arrive, the tool knows the code sections
\* and the tensors its kernel may touch, and once the launch has returned none of
\* them stays with the tool: code sections also if launches overlap, through the
\* ten hooks with their own orders of telling, launching and withdrawing.
THEOREM RangesAreTracked == Spec => []RangesTracked
<1>1. RangeWorld => RangesTracked
  BY WorldRangesKnown, WorldRangesReturned DEF RangesTracked
<1> QED BY <1>1, RangeWorldHolds, PTL

=============================================================================
