-------------------------- MODULE PipeCallProofs ---------------------------
(***************************************************************************)
(* Proofs about PipeCall, for any number of threads, calls, sizes of       *)
(* input, output and pipes.                                                *)
(***************************************************************************)
EXTENDS PipeCall, TLAPS

-----------------------------------------------------------------------------
(* The inductive invariant.                                                *)

\* The end that ~Pipe closes next.
FirstOpen(c, e) ==
    /\ e \in open[c]
    /\ e[2] = "in" => \A f \in open[c] : f[2] = "in"
    /\ e[3] = "w" => \A f \in open[c] : f[2] = e[2] => f[3] = "w"

\* The end the holder t of mtx is closing, and those it is creating.
Closes(t, e) ==
    \/ loc[t] = "closeInR" /\ e = <<t[1], "in", "r">>
    \/ loc[t] = "closeOutW" /\ e = <<t[1], "out", "w">>
    \/ loc[t] = "closeOutR" /\ e = <<t[1], "out", "r">>
    \/ loc[t] = "closeInW" /\ e = <<t[1], "in", "w">>
    \/ loc[t] = "dtor" /\ FirstOpen(t[1], e)

Creates(t, e) ==
    \/ loc[t] = "createIn" /\ e \in BothEnds(t[1], "in")
    \/ loc[t] = "createOut" /\ e \in BothEnds(t[1], "out")

LockLocations ==
    {"createIn", "createOut", "closeInR", "closeOutW", "closeOutR", "closeInW", "dtor"}
WriterLocations == {"off", "write", "closeInW", "ended"}

\* Where a call has a child.
WithChild == {"closeInR", "closeOutW", "spawn", "read", "closeOutR", "wait"}

\* A task keeps to its own locations, and mtx is held only inside Create and Close.
LockInv ==
    /\ \A c \in Callers : /\ loc[Caller(c)] \notin WriterLocations
                          /\ loc[Writer(c)] \in WriterLocations
    /\ mtx # None => /\ loc[mtx] \in LockLocations
                     /\ loc[mtx] = "dtor" => open[mtx[1]] # {}

\* The list holds the members of all calls.  The process holds what the list names
\* and what is being created, except for what is being closed.
ListInv ==
    /\ \A c \in Callers : open[c] \subseteq OwnEnds(c)
    /\ \A e \in Ends : e \in fdsForClose <=> e \in open[e[1]]
    /\ \A e \in holds["host"] : e \in fdsForClose \/ (mtx # None /\ Creates(mtx, e))
    /\ \A e \in holds["host"] : mtx # None => ~Closes(mtx, e)
    /\ alive => \A e \in fdsForClose : e \in holds["host"] \/ (mtx # None /\ Closes(mtx, e))
    /\ alive /\ mtx # None => \A e \in Ends : Creates(mtx, e) => e \in holds["host"]

\* What a call has at each location.
CallInv(c) ==
    LET l == loc[Caller(c)]
        w == loc[Writer(c)]
    IN  /\ l \in {"idle", "createIn"} => open[c] = {}
        /\ l = "createOut" => open[c] = BothEnds(c, "in")
        /\ l = "fork" => open[c] = OwnEnds(c)
        /\ l \in WithChild /\ w # "ended" => <<c, "in", "w">> \in open[c]
        /\ w # "off" => l \in {"read", "closeOutR", "wait", "join"}
        /\ child[c] # "none" <=> l \in WithChild
        /\ l \in {"closeOutR", "wait"} => child[c] = "exited"
        /\ l \in {"idle", "createIn", "createOut", "fork"} =>
               got[c] = 0 /\ written[c] = 0 /\ printed[c] = 0
        /\ result[c] = "true" => l = "dtor"

\* What a child has of the descriptors it inherited.
ChildInv(c) ==
    /\ child[c] \in {"forked", "duped"} => OwnEnds(c) \subseteq childFds[c]
    /\ child[c] \in {"forked", "duped", "ownClosed"} => holds[c] \subseteq childFds[c]
    /\ child[c] = "forked" => <<c, "out", "w">> \in holds[c]
    /\ child[c] \in {"duped", "ownClosed", "allClosed", "run"} => std[c]
    /\ child[c] \in {"allClosed", "run"} => holds[c] = {}

\* Units are neither lost nor made up between `input` and `output`.
FlowInv(c) ==
    LET l == loc[Caller(c)]
    IN  /\ l = "createIn" /\ mtx = Caller(c) => buf[c]["in"] = 0
        /\ l = "createOut" => buf[c]["in"] = 0
        /\ l = "createOut" /\ mtx = Caller(c) => buf[c]["out"] = 0
        /\ l = "fork" => buf[c]["in"] = 0 /\ buf[c]["out"] = 0
        /\ l \in WithChild \cup {"join"} =>
               IF prog[c] = "cat" THEN got[c] + buf[c]["in"] + buf[c]["out"] = written[c]
               ELSE got[c] + buf[c]["out"] = printed[c]
        /\ l \in {"closeOutR", "wait", "join"} => buf[c]["out"] = 0
        /\ alive /\ (child[c] = "exited" \/ l = "join") /\ status[c] = 0 =>
               IF prog[c] = "cat" THEN buf[c]["in"] = 0 /\ written[c] = input[c]
               ELSE printed[c] = Output
        /\ loc[Writer(c)] \in {"closeInW", "ended"} => written[c] = input[c]

\* OutputWhole, of one call.
Whole(c) == result[c] = "true" => got[c] = IF prog[c] = "cat" THEN input[c] ELSE Output

PipeInv ==
    /\ TypeOK /\ LockInv /\ ListInv
    /\ \A c \in Callers : CallInv(c) /\ ChildInv(c) /\ FlowInv(c)
    /\ OutputWhole

-----------------------------------------------------------------------------
(* Types.                                                                  *)

\* Callers and writers are different tasks, each of one call.
LEMMA TaskFacts ==
    /\ None \notin Tasks
    /\ \A c \in Callers : /\ Caller(c) \in Tasks /\ Writer(c) \in Tasks
                          /\ Caller(c)[1] = c /\ Writer(c)[1] = c
                          /\ Caller(c)[2] = "call" /\ Writer(c)[2] = "write"
    /\ \A c, d \in Callers : /\ Caller(c) # Writer(d)
                             /\ Caller(c) = Caller(d) => c = d
                             /\ Writer(c) = Writer(d) => c = d
    /\ \A t \in Tasks : \E c \in Callers : t = Caller(c) \/ t = Writer(c)
BY PipeAssumption DEF Tasks, Caller, Writer

\* The ends of the pipes of one call are its own, and an end is its three parts.
LEMMA EndFacts ==
    /\ \A c \in Callers : /\ OwnEnds(c) \subseteq Ends
                          /\ \A s \in {"in", "out"} : BothEnds(c, s) \subseteq OwnEnds(c)
                          /\ \A s \in {"in", "out"}, x \in {"r", "w"} :
                                /\ <<c, s, x>> \in Ends
                                /\ <<c, s, x>> \in OwnEnds(c)
                                /\ <<c, s, x>> \in BothEnds(c, s)
                          /\ OwnEnds(c) = BothEnds(c, "in") \cup BothEnds(c, "out")
                          /\ \A e \in OwnEnds(c) : e[1] = c
                          /\ \A s \in {"in", "out"} : \A e \in BothEnds(c, s) : e[1] = c /\ e[2] = s
    /\ \A e \in Ends : e[1] \in Callers /\ e[2] \in {"in", "out"} /\ e[3] \in {"r", "w"}
                       /\ e \in OwnEnds(e[1])
    /\ \A e, f \in Ends : e[1] = f[1] /\ e[2] = f[2] /\ e[3] = f[3] => e = f
BY DEF OwnEnds, Ends, BothEnds

\* The initial state has the right type.
LEMMA InitType == Init => TypeOK
BY PipeAssumption, TaskFacts
DEF Init, TypeOK, HostTypes, PipeTypes, ChildTypes, Locations, ChildLocations, Procs, Tasks

\* What Pipe::Create assigns has the right type.
LEMMA CreateType ==
    ASSUME TypeOK, NEW c \in Callers, NEW s \in {"in", "out"}, NEW after \in Locations,
           Create(c, s, after)
    PROVE  PipeTypes' /\ loc' \in [Tasks -> Locations]
<1> USE TaskFacts, EndFacts DEF TypeOK, HostTypes, PipeTypes, Goto
<1>1. BothEnds(c, s) \subseteq Ends
  OBVIOUS
<1>2. CASE mtx = None
  <2>1. mtx' = Caller(c) /\ UNCHANGED <<loc, fdsForClose, open>>
    BY <1>2 DEF Create
  <2>2. holds' = [holds EXCEPT !["host"] = @ \cup BothEnds(c, s)]
    BY <1>2 DEF Create
  <2>3. holds' \in [Procs -> SUBSET Ends]
    BY <1>1, <2>2 DEF Procs
  <2>4. buf' = [buf EXCEPT ![c][s] = 0]
    BY <1>2 DEF Create
  <2>5. buf' \in [Callers -> [{"in", "out"} -> 0..Capacity]]
    <3>1. [buf[c] EXCEPT ![s] = 0] \in [{"in", "out"} -> 0..Capacity]
      BY PipeAssumption
    <3> QED BY <2>4, <3>1
  <2> QED BY <2>1, <2>3, <2>5
<1>3. CASE mtx = Caller(c)
  <2>1. mtx' = None /\ UNCHANGED <<holds, buf>> /\ loc' = [loc EXCEPT ![Caller(c)] = after]
    BY <1>3 DEF Create
  <2>2. /\ fdsForClose' = fdsForClose \cup BothEnds(c, s)
        /\ open' = [open EXCEPT ![c] = @ \cup BothEnds(c, s)]
    BY <1>3 DEF Create
  <2> QED BY <1>1, <2>1, <2>2
<1> QED BY <1>2, <1>3 DEF Create

\* The same of Pipe::Close.
LEMMA CloseType ==
    ASSUME TypeOK, NEW t \in Tasks, NEW e \in Ends, NEW after \in Locations,
           Close(t, e, after), UNCHANGED buf
    PROVE  PipeTypes' /\ loc' \in [Tasks -> Locations]
<1> USE TaskFacts, EndFacts DEF TypeOK, HostTypes, PipeTypes, Goto
<1>1. CASE mtx = None
  <2>1. mtx' = t /\ UNCHANGED <<loc, fdsForClose, open>>
    BY <1>1 DEF Close
  <2>2. holds' = [holds EXCEPT !["host"] = @ \ {e}]
    BY <1>1 DEF Close
  <2>3. holds' \in [Procs -> SUBSET Ends]
    BY <2>2 DEF Procs
  <2> QED BY <2>1, <2>3
<1>2. CASE mtx = t
  <2>1. mtx' = None /\ UNCHANGED holds /\ loc' = [loc EXCEPT ![t] = after]
    BY <1>2 DEF Close
  <2>2. fdsForClose' = fdsForClose \ {e} /\ open' = [open EXCEPT ![t[1]] = @ \ {e}]
    BY <1>2 DEF Close
  <2> QED BY <2>1, <2>2
<1> QED BY <1>1, <1>2 DEF Close

\* A unit enters or leaves a pipe that has room for it or holds one.
LEMMA BufType ==
    ASSUME TypeOK, NEW c \in Callers, NEW s \in {"in", "out"}
    PROVE  /\ buf[c][s] < Capacity =>
                  [buf EXCEPT ![c][s] = @ + 1] \in [Callers -> [{"in", "out"} -> 0..Capacity]]
           /\ buf[c][s] > 0 =>
                  [buf EXCEPT ![c][s] = @ - 1] \in [Callers -> [{"in", "out"} -> 0..Capacity]]
           /\ buf[c]["in"] > 0 /\ buf[c]["out"] < Capacity =>
                  [buf EXCEPT ![c]["in"] = @ - 1, ![c]["out"] = @ + 1]
                      \in [Callers -> [{"in", "out"} -> 0..Capacity]]
<1> USE PipeAssumption
<1>1. buf[c] \in [{"in", "out"} -> 0..Capacity] /\ buf \in [Callers -> [{"in", "out"} -> 0..Capacity]]
  BY DEF TypeOK, PipeTypes
<1>2. buf[c][s] \in 0..Capacity /\ buf[c]["in"] \in 0..Capacity /\ buf[c]["out"] \in 0..Capacity
  BY <1>1
<1>3. buf[c][s] < Capacity => buf[c][s] + 1 \in 0..Capacity
  BY <1>2
<1>4. buf[c][s] > 0 => buf[c][s] - 1 \in 0..Capacity
  BY <1>2
<1>5. buf[c]["in"] > 0 /\ buf[c]["out"] < Capacity
        => buf[c]["in"] - 1 \in 0..Capacity /\ buf[c]["out"] + 1 \in 0..Capacity
  BY <1>2
<1> QED BY <1>1, <1>3, <1>4, <1>5

\* A call starts with a program and an input for it.
LEMMA StartPicks ==
    ASSUME NEW c \in Callers, Start(c)
    PROVE  \E q \in Programs, n \in Inputs \cup {0} :
               prog' = [prog EXCEPT ![c] = q] /\ input' = [input EXCEPT ![c] = n]
BY Zenon DEF Start

\* Every step keeps the types.
LEMMA StepType ==
    ASSUME TypeOK, [Next]_vars, \A c \in Callers : CallInv(c) PROVE TypeOK'
<1> USE PipeAssumption, TaskFacts, EndFacts
    DEF TypeOK, HostTypes, ChildTypes, Locations, ChildLocations, Goto
<1>1. ASSUME NEW c \in Callers, Start(c) PROVE TypeOK'
  <2>1. PipeTypes' /\ ChildTypes' /\ UNCHANGED <<written, got, result, alive>>
    BY <1>1 DEF Start, PipeTypes, pipeVars, childVars
  <2>2. PICK q \in Programs, n \in Inputs \cup {0} :
            prog' = [prog EXCEPT ![c] = q] /\ input' = [input EXCEPT ![c] = n]
    BY <1>1, StartPicks
  <2>3. loc' = [loc EXCEPT ![Caller(c)] = "createIn"] /\ calls' \in 0..MaxCalls
    BY <1>1 DEF Start
  <2>4. written[c] = 0
    BY <1>1 DEF Start, CallInv
  <2>5. \A d \in Callers : written[d] <= input'[d]
    BY <2>2, <2>4
  <2> QED BY <2>1, <2>2, <2>3, <2>5
<1>2. ASSUME NEW c \in Callers, CreateIn(c) PROVE TypeOK'
  <2>1. PipeTypes' /\ loc' \in [Tasks -> Locations]
    BY <1>2, CreateType DEF CreateIn
  <2> QED BY <1>2, <2>1 DEF CreateIn, childVars
<1>3. ASSUME NEW c \in Callers, CreateOut(c) PROVE TypeOK'
  <2>1. PipeTypes' /\ loc' \in [Tasks -> Locations]
    BY <1>3, CreateType DEF CreateOut
  <2> QED BY <1>3, <2>1 DEF CreateOut, childVars
<1>4. ASSUME NEW c \in Callers, GiveUp(c) PROVE TypeOK'
  BY <1>4 DEF GiveUp, PipeTypes, pipeVars, childVars, hostVars, Procs
<1>5. ASSUME NEW c \in Callers, Fork(c) PROVE TypeOK'
  BY <1>5 DEF Fork, PipeTypes, pipeVars, childVars, hostVars, Procs
<1>6. ASSUME NEW c \in Callers, CloseUnused(c) PROVE TypeOK'
  <2>1. PipeTypes' /\ loc' \in [Tasks -> Locations]
    BY <1>6, CloseType DEF CloseUnused
  <2> QED BY <1>6, <2>1 DEF CloseUnused, childVars
<1>7. ASSUME NEW c \in Callers, SpawnWriter(c) PROVE TypeOK'
  BY <1>7 DEF SpawnWriter, PipeTypes, pipeVars, childVars, hostVars, Procs
<1>8. ASSUME NEW c \in Callers, Read(c) PROVE TypeOK'
  <2>1. UNCHANGED <<prog, input, written, result, calls, alive, pipeVars, holds, childVars>>
    BY <1>8 DEF Read
  <2>2. CASE buf[c]["out"] > 0
    <3>1. /\ buf' = [buf EXCEPT ![c]["out"] = @ - 1]
          /\ got' = [got EXCEPT ![c] = @ + 1] /\ UNCHANGED loc
      BY <1>8, <2>2 DEF Read
    <3>2. buf' \in [Callers -> [{"in", "out"} -> 0..Capacity]]
      BY <2>2, <3>1, BufType
    <3> QED BY <2>1, <3>1, <3>2 DEF PipeTypes, pipeVars, childVars
  <2>3. CASE ~(buf[c]["out"] > 0)
    <3>1. UNCHANGED <<buf, got>> /\ loc' = [loc EXCEPT ![Caller(c)] = "closeOutR"]
      BY <1>8, <2>3 DEF Read
    <3> QED BY <2>1, <3>1 DEF PipeTypes, pipeVars, childVars
  <2> QED BY <2>2, <2>3
<1>9. ASSUME NEW c \in Callers, CloseOutput(c) PROVE TypeOK'
  <2>1. PipeTypes' /\ loc' \in [Tasks -> Locations]
    BY <1>9, CloseType DEF CloseOutput
  <2> QED BY <1>9, <2>1 DEF CloseOutput, childVars
<1>10. ASSUME NEW c \in Callers, WaitChild(c) PROVE TypeOK'
  BY <1>10 DEF WaitChild, PipeTypes, pipeVars, childVars, hostVars, Procs
<1>11. ASSUME NEW c \in Callers, JoinWriter(c) PROVE TypeOK'
  BY <1>11 DEF JoinWriter, PipeTypes, pipeVars, childVars, hostVars, Procs
<1>12. ASSUME NEW c \in Callers, Destructors(c) PROVE TypeOK'
  <2>0. UNCHANGED <<calls, alive, child, std, childMtx, childFds, buf>>
    BY <1>12 DEF Destructors
  <2>1. CASE open[c] = {}
    <3>1. Goto(Caller(c), "idle") /\ Forget(c) /\ UNCHANGED <<pipeVars, holds>>
      BY <1>12, <2>1 DEF Destructors
    <3> QED BY <2>0, <3>1 DEF Forget, PipeTypes, pipeVars
  <2>2. CASE open[c] # {}
    <3>1. PICK e \in open[c] : /\ Close(Caller(c), e, "dtor")
                               /\ UNCHANGED <<prog, input, written, got, result, printed, status>>
      BY <1>12, <2>2 DEF Destructors
    <3>2. e \in Ends
      BY <3>1 DEF PipeTypes
    <3>3. PipeTypes' /\ loc' \in [Tasks -> Locations]
      BY <2>0, <3>1, <3>2, CloseType
    <3> QED BY <2>0, <3>1, <3>3
  <2> QED BY <2>1, <2>2
<1>13. ASSUME NEW c \in Callers, Write(c) PROVE TypeOK'
  <2>1. UNCHANGED <<prog, input, got, result, calls, pipeVars, childVars>>
    BY <1>13 DEF Write
  <2>2. CASE written[c] = input[c]
    <3>1. /\ loc' = [loc EXCEPT ![Writer(c)] = "closeInW"]
          /\ UNCHANGED <<written, alive, holds, buf>>
      BY <1>13, <2>2 DEF Write
    <3> QED BY <2>1, <3>1 DEF PipeTypes, pipeVars, childVars
  <2>3. CASE written[c] # input[c] /\ HasReader(c, "in")
    <3>1. /\ buf[c]["in"] < Capacity /\ buf' = [buf EXCEPT ![c]["in"] = @ + 1]
          /\ written[c] < input[c] /\ written' = [written EXCEPT ![c] = @ + 1]
          /\ UNCHANGED <<loc, alive, holds>>
      BY <1>13, <2>3 DEF Write
    <3>2. buf' \in [Callers -> [{"in", "out"} -> 0..Capacity]]
      BY <3>1, BufType
    <3>3. \A d \in Callers : written'[d] <= input[d] /\ written'[d] \in Nat
      BY SMTT(30), <3>1
    <3> QED BY <2>1, <3>1, <3>2, <3>3 DEF PipeTypes, pipeVars, childVars
  <2>4. CASE written[c] # input[c] /\ ~HasReader(c, "in")
    <3>1. /\ alive' = FALSE /\ holds' = [holds EXCEPT !["host"] = {}]
          /\ UNCHANGED <<loc, written, buf>>
      BY <1>13, <2>4 DEF Write
    <3> QED BY <2>1, <3>1 DEF PipeTypes, pipeVars, childVars, Procs
  <2> QED BY <2>2, <2>3, <2>4
<1>14. ASSUME NEW c \in Callers, CloseInput(c) PROVE TypeOK'
  <2>1. PipeTypes' /\ loc' \in [Tasks -> Locations]
    BY <1>14, CloseType DEF CloseInput
  <2> QED BY <1>14, <2>1 DEF CloseInput, childVars
<1>15. ASSUME NEW c \in Callers, ChildDup(c) PROVE TypeOK'
  BY <1>15 DEF ChildDup, PipeTypes, pipeVars, childVars, hostVars, Procs
<1>16. ASSUME NEW c \in Callers, ChildCloseOwn(c) PROVE TypeOK'
  BY <1>16 DEF ChildCloseOwn, PipeTypes, pipeVars, childVars, hostVars, Procs
<1>17. ASSUME NEW c \in Callers, ChildCloseAll(c) PROVE TypeOK'
  BY <1>17 DEF ChildCloseAll, PipeTypes, pipeVars, childVars, hostVars, Procs
<1>18. ASSUME NEW c \in Callers, ChildExec(c) PROVE TypeOK'
  <2>1. UNCHANGED <<hostVars, pipeVars, childMtx, childFds, printed, buf>>
    BY <1>18 DEF ChildExec
  <2>2. CASE ChildExit(c, 1)
    BY <2>1, <2>2 DEF ChildExit, PipeTypes, hostVars, pipeVars, Procs
  <2>3. CASE child' = [child EXCEPT ![c] = "run"] /\ UNCHANGED <<status, std, holds>>
    BY <2>1, <2>3 DEF PipeTypes, hostVars, pipeVars
  <2> QED BY <1>18, <2>2, <2>3 DEF ChildExec
<1>19. ASSUME NEW c \in Callers, CatCopies(c) PROVE TypeOK'
  <2>1. UNCHANGED <<hostVars, pipeVars, childMtx, childFds, printed>>
    BY <1>19 DEF CatCopies
  <2>2. CASE ChildExit(c, 0) /\ UNCHANGED buf
    BY <2>1, <2>2 DEF ChildExit, PipeTypes, hostVars, pipeVars, Procs
  <2>3. CASE /\ buf[c]["in"] > 0 /\ buf[c]["out"] < Capacity
             /\ buf' = [buf EXCEPT ![c]["in"] = @ - 1, ![c]["out"] = @ + 1]
             /\ UNCHANGED <<child, status, std, holds>>
    <3>1. buf' \in [Callers -> [{"in", "out"} -> 0..Capacity]]
      BY <2>3, BufType
    <3> QED BY <2>1, <2>3, <3>1 DEF PipeTypes, hostVars, pipeVars
  <2> QED BY <1>19, <2>2, <2>3 DEF CatCopies
<1>20. ASSUME NEW c \in Callers, EmitPrints(c) PROVE TypeOK'
  <2>1. UNCHANGED <<hostVars, pipeVars, childMtx, childFds>>
    BY <1>20 DEF EmitPrints
  <2>2. ASSUME NEW code \in {0, 1}, ChildExit(c, code), UNCHANGED <<buf, printed>>
        PROVE  TypeOK'
    BY <2>1, <2>2 DEF ChildExit, PipeTypes, hostVars, pipeVars, Procs
  <2>3. CASE /\ printed[c] < Output /\ buf[c]["out"] < Capacity
             /\ buf' = [buf EXCEPT ![c]["out"] = @ + 1]
             /\ printed' = [printed EXCEPT ![c] = @ + 1]
             /\ UNCHANGED <<child, status, std, holds>>
    <3>1. buf' \in [Callers -> [{"in", "out"} -> 0..Capacity]]
      BY <2>3, BufType
    <3>2. printed' \in [Callers -> 0..Output]
      BY <2>3
    <3> QED BY <2>1, <2>3, <3>1, <3>2 DEF PipeTypes, hostVars, pipeVars
  <2> QED BY <1>20, <2>2, <2>3 DEF EmitPrints
<1>21. CASE UNCHANGED vars
  BY <1>21 DEF vars, PipeTypes
<1>22. QED
  BY <1>1, <1>2, <1>3, <1>4, <1>5, <1>6, <1>7, <1>8, <1>9, <1>10,
     <1>11, <1>12, <1>13, <1>14, <1>15, <1>16, <1>17, <1>18, <1>19, <1>20, <1>21
  DEF Next, CallStep, WriteStep, ChildStep

\* What the state holds of the call of thread d.
Data(d) == <<prog[d], input[d], written[d], got[d], result[d]>>
Kid(d) == <<holds[d], child[d], childFds[d], printed[d], status[d]>>
View(d) == <<loc[Caller(d)], loc[Writer(d)], open[d], buf[d], Data(d), Kid(d)>>

StepOf(c) == (alive /\ Start(c)) \/ CallStep(c) \/ WriteStep(c) \/ ChildStep(c)

\* dup2 puts the child of one call on its pipes and no other.
LEMMA DupLocal ==
    ASSUME NEW c \in Callers, ChildDup(c), TypeOK
    PROVE  std'[c] /\ \A d \in Callers : c # d => std'[d] = std[d]
BY DEF ChildDup, TypeOK, ChildTypes

\* A step of one call leaves the others alone.
LEMMA OtherCalls ==
    ASSUME TypeOK, NEW c \in Callers, NEW d \in Callers, c # d, StepOf(c)
    PROVE  /\ UNCHANGED View(d) /\ std'[d] = std[d]
           /\ mtx' = Caller(d) => mtx = Caller(d)
           /\ alive' => alive
<1> DEFINE Others == /\ UNCHANGED View(d) /\ std'[d] = std[d]
                     /\ mtx' = Caller(d) => mtx = Caller(d)
                     /\ alive' => alive
<1>0. ASSUME ChildDup(c) PROVE std'[d] = std[d]
  BY <1>0, DupLocal
<1> USE TaskFacts, EndFacts, PipeAssumption
    DEF View, Data, Kid, TypeOK, HostTypes, PipeTypes, ChildTypes, Procs, Goto, hostVars, pipeVars,
        childVars
<1>1. ASSUME Start(c) PROVE Others
  BY <1>1 DEF Start
<1>2. ASSUME CreateIn(c) PROVE Others
  BY <1>2 DEF CreateIn, Create
<1>3. ASSUME CreateOut(c) PROVE Others
  BY <1>3 DEF CreateOut, Create
<1>4. ASSUME GiveUp(c) PROVE Others
  BY <1>4 DEF GiveUp
<1>5. ASSUME Fork(c) PROVE Others
  BY <1>5 DEF Fork
<1>6. ASSUME CloseUnused(c) PROVE Others
  BY <1>6 DEF CloseUnused, Close
<1>7. ASSUME SpawnWriter(c) PROVE Others
  BY <1>7 DEF SpawnWriter
<1>8. ASSUME Read(c) PROVE Others
  BY <1>8 DEF Read
<1>9. ASSUME CloseOutput(c) PROVE Others
  BY <1>9 DEF CloseOutput, Close
<1>10. ASSUME WaitChild(c) PROVE Others
  BY <1>10 DEF WaitChild
<1>11. ASSUME JoinWriter(c) PROVE Others
  BY <1>11 DEF JoinWriter
<1>12. ASSUME Destructors(c) PROVE Others
  BY <1>12 DEF Destructors, Close, Forget
<1>13. ASSUME Write(c) PROVE Others
  BY <1>13 DEF Write
<1>14. ASSUME CloseInput(c) PROVE Others
  BY <1>14 DEF CloseInput, Close
<1>15. ASSUME ChildDup(c) PROVE Others
  <2>1. std'[d] = std[d]
    BY <1>15, <1>0
  <2>2. child'[d] = child[d]
    BY <1>15 DEF ChildDup
  <2>3. UNCHANGED <<hostVars, pipeVars, holds, childFds, printed, status, buf>>
    BY <1>15 DEF ChildDup
  <2> QED BY <2>1, <2>2, <2>3
<1>16. ASSUME ChildCloseOwn(c) PROVE Others
  BY <1>16 DEF ChildCloseOwn
<1>17. ASSUME ChildCloseAll(c) PROVE Others
  BY <1>17 DEF ChildCloseAll
<1>18. ASSUME ChildExec(c) PROVE Others
  BY <1>18 DEF ChildExec, ChildExit
<1>19. ASSUME CatCopies(c) PROVE Others
  BY <1>19 DEF CatCopies, ChildExit
<1>20. ASSUME EmitPrints(c) PROVE Others
  BY <1>20 DEF EmitPrints, ChildExit
<1> QED
  BY <1>1, <1>2, <1>3, <1>4, <1>5, <1>6, <1>7, <1>8, <1>9, <1>10,
     <1>11, <1>12, <1>13, <1>14, <1>15, <1>16, <1>17, <1>18, <1>19, <1>20
  DEF StepOf, CallStep, WriteStep, ChildStep

\* What is said of a call depends only on its own part of the state.
LEMMA Framed ==
    ASSUME NEW d \in Callers, UNCHANGED View(d), mtx' = Caller(d) => mtx = Caller(d), alive' => alive,
           std'[d] = std[d]
    PROVE  /\ CallInv(d) => CallInv(d)'
           /\ ChildInv(d) => ChildInv(d)'
           /\ FlowInv(d) => FlowInv(d)'
           /\ Whole(d) => Whole(d)'
<1>1. CallInv(d) => CallInv(d)'
  BY DEF View, Data, Kid, CallInv
<1>2. ChildInv(d) => ChildInv(d)'
  BY DEF View, Data, Kid, ChildInv
<1>3. FlowInv(d) => FlowInv(d)'
  BY DEF View, Data, Kid, FlowInv
<1>4. Whole(d) => Whole(d)'
  BY DEF View, Data, Kid, Whole
<1> QED BY <1>1, <1>2, <1>3, <1>4

\* Pipe::Create, as the call sees it.
LEMMA CreateLocal ==
    ASSUME TypeOK, NEW c \in Callers, NEW s \in {"in", "out"}, NEW after, Create(c, s, after)
    PROVE  /\ \/ /\ mtx' = Caller(c) /\ loc'[Caller(c)] = loc[Caller(c)]
                 /\ open'[c] = open[c] /\ buf'[c][s] = 0
              \/ /\ mtx = Caller(c) /\ mtx' = None /\ loc'[Caller(c)] = after
                 /\ open'[c] = open[c] \cup BothEnds(c, s) /\ buf'[c][s] = buf[c][s]
           /\ \A r \in {"in", "out"} : r # s => buf'[c][r] = buf[c][r]
           /\ loc'[Writer(c)] = loc[Writer(c)] /\ holds'[c] = holds[c]
<1> USE TaskFacts, EndFacts, PipeAssumption DEF TypeOK, HostTypes, PipeTypes, Goto, Procs
<1>1. CASE mtx = None
  <2>1. mtx' = Caller(c) /\ UNCHANGED <<loc, open>>
    BY <1>1 DEF Create
  <2>2. holds'[c] = holds[c]
    <3>1. c # "host" /\ c \in Procs /\ "host" \in Procs
      OBVIOUS
    <3>2. holds' = [holds EXCEPT !["host"] = holds'["host"]]
      BY <1>1 DEF Create
    <3> QED BY <3>1, <3>2
  <2>3. buf'[c][s] = 0 /\ \A r \in {"in", "out"} : r # s => buf'[c][r] = buf[c][r]
    BY <1>1 DEF Create
  <2> QED BY <2>1, <2>2, <2>3
<1>2. CASE mtx # None
  BY <1>2 DEF Create
<1> QED BY <1>1, <1>2

\* Pipe::Close, as the call sees it.
LEMMA CloseLocal ==
    ASSUME TypeOK, NEW c \in Callers, NEW t \in {Caller(c), Writer(c)}, NEW e, NEW after,
           Close(t, e, after)
    PROVE  /\ \/ /\ mtx' = t /\ loc'[t] = loc[t] /\ open'[c] = open[c]
              \/ /\ mtx = t /\ mtx' = None /\ loc'[t] = after /\ open'[c] = open[c] \ {e}
           /\ \A u \in Tasks : u # t => loc'[u] = loc[u]
           /\ holds'[c] = holds[c]
<1> USE TaskFacts, EndFacts, PipeAssumption DEF TypeOK, HostTypes, PipeTypes, Goto, Procs
<1>1. CASE mtx = None
  <2>1. mtx' = t /\ UNCHANGED <<loc, open>>
    BY <1>1 DEF Close
  <2>2. holds'[c] = holds[c]
    <3>1. c # "host" /\ c \in Procs /\ "host" \in Procs
      OBVIOUS
    <3>2. holds' = [holds EXCEPT !["host"] = holds'["host"]]
      BY <1>1 DEF Close
    <3> QED BY <3>1, <3>2
  <2> QED BY <2>1, <2>2
<1>2. CASE mtx # None
  BY <1>2 DEF Close
<1> QED BY <1>1, <1>2

\* What the step of a call uses of the invariant.
OwnInv(c) == CallInv(c) /\ ChildInv(c) /\ FlowInv(c) /\ Whole(c)

\* The units of a call are natural numbers, and mtx is held only inside Create and Close.
LEMMA OwnFacts ==
    ASSUME TypeOK, LockInv, NEW c \in Callers
    PROVE  /\ written[c] \in Nat /\ got[c] \in Nat /\ input[c] \in Nat /\ printed[c] \in Nat
           /\ buf[c]["in"] \in Nat /\ buf[c]["out"] \in Nat /\ written[c] <= input[c]
           /\ prog[c] \in {"cat", "emit"} /\ status[c] \in {0, 1}
           /\ mtx = Caller(c) => loc[Caller(c)] \in LockLocations
           /\ loc[Caller(c)] \notin WriterLocations /\ loc[Writer(c)] \in WriterLocations
<1>1. buf[c]["in"] \in 0..Capacity /\ buf[c]["out"] \in 0..Capacity
  BY DEF TypeOK, PipeTypes
<1>2. buf[c]["in"] \in Nat /\ buf[c]["out"] \in Nat
  BY <1>1, PipeAssumption
<1>3. mtx = Caller(c) => loc[Caller(c)] \in LockLocations
  BY TaskFacts DEF LockInv
<1>4. loc[Caller(c)] \notin WriterLocations /\ loc[Writer(c)] \in WriterLocations
  BY DEF LockInv
<1>5. input[c] \in Nat
  <2>1. input[c] \in Inputs \cup {0}
    BY DEF TypeOK, HostTypes
  <2>2. Inputs \subseteq Nat
    BY PipeAssumption
  <2>3. 0 \in Nat
    OBVIOUS
  <2> QED BY <2>1, <2>2, <2>3, Zenon
<1>6. printed[c] \in 0..Output
  BY DEF TypeOK, ChildTypes
<1>7. printed[c] \in Nat
  BY <1>6, PipeAssumption
<1> QED BY <1>2, <1>3, <1>4, <1>5, <1>7 DEF TypeOK, HostTypes, ChildTypes

\* Pipe::Create inside a call.
LEMMA OwnCreate ==
    ASSUME TypeOK, LockInv, NEW c \in Callers, OwnInv(c), CreateIn(c) \/ CreateOut(c)
    PROVE  OwnInv(c)'
<1> USE OwnFacts
<1>1. UNCHANGED <<prog, input, written, got, result, alive, child, std, childFds, printed, status>>
  BY DEF CreateIn, CreateOut, childVars
<1>2. holds'[c] = holds[c] /\ loc'[Writer(c)] = loc[Writer(c)]
  BY CreateLocal DEF CreateIn, CreateOut
<1>3. ChildInv(c)' /\ Whole(c)'
  BY <1>1, <1>2 DEF OwnInv, ChildInv, Whole
<1>4. CASE CreateIn(c)
  <2>1. /\ loc[Caller(c)] = "createIn" /\ buf'[c]["out"] = buf[c]["out"]
        /\ \/ /\ mtx' = Caller(c) /\ loc'[Caller(c)] = loc[Caller(c)]
              /\ open'[c] = open[c] /\ buf'[c]["in"] = 0
           \/ /\ mtx = Caller(c) /\ mtx' = None /\ loc'[Caller(c)] = "createOut"
              /\ open'[c] = open[c] \cup BothEnds(c, "in") /\ buf'[c]["in"] = buf[c]["in"]
    BY <1>4, CreateLocal DEF CreateIn
  <2>2. CallInv(c)'
    BY <1>1, <1>2, <2>1 DEF OwnInv, CallInv, WithChild
  <2>3. FlowInv(c)'
    BY <1>1, <1>2, <2>1, TaskFacts DEF OwnInv, CallInv, FlowInv, WithChild
  <2> QED BY <1>3, <2>2, <2>3 DEF OwnInv
<1>5. CASE CreateOut(c)
  <2>1. /\ loc[Caller(c)] = "createOut" /\ buf'[c]["in"] = buf[c]["in"]
        /\ \/ /\ mtx' = Caller(c) /\ loc'[Caller(c)] = loc[Caller(c)]
              /\ open'[c] = open[c] /\ buf'[c]["out"] = 0
           \/ /\ mtx = Caller(c) /\ mtx' = None /\ loc'[Caller(c)] = "fork"
              /\ open'[c] = open[c] \cup BothEnds(c, "out") /\ buf'[c]["out"] = buf[c]["out"]
    BY <1>5, CreateLocal DEF CreateOut
  <2>2. CallInv(c)'
    <3>1. loc'[Caller(c)] = "fork" => open'[c] = OwnEnds(c)
      <4>1. open[c] = BothEnds(c, "in")
        BY <2>1 DEF OwnInv, CallInv
      <4>2. OwnEnds(c) = BothEnds(c, "in") \cup BothEnds(c, "out")
        BY EndFacts
      <4> QED BY <2>1, <4>1, <4>2
    <3> QED BY <1>1, <1>2, <2>1, <3>1 DEF OwnInv, CallInv, WithChild
  <2>3. FlowInv(c)'
    BY <1>1, <1>2, <2>1, TaskFacts DEF OwnInv, CallInv, FlowInv, WithChild
  <2> QED BY <1>3, <2>2, <2>3 DEF OwnInv
<1> QED BY <1>4, <1>5

\* Pipe::Close inside a call: by the parent, by ~Pipe and by the writer.
LEMMA OwnClose ==
    ASSUME TypeOK, LockInv, NEW c \in Callers, OwnInv(c),
           CloseUnused(c) \/ CloseOutput(c) \/ CloseInput(c)
    PROVE  OwnInv(c)'
<1> USE OwnFacts, TaskFacts
<1>1. UNCHANGED <<prog, input, written, got, result, alive, child, std, childFds, printed, status,
                  buf>>
  BY DEF CloseUnused, CloseOutput, CloseInput, childVars
<1>2. holds'[c] = holds[c]
  BY CloseLocal DEF CloseUnused, CloseOutput, CloseInput
<1>3. ChildInv(c)' /\ Whole(c)'
  BY <1>1, <1>2 DEF OwnInv, ChildInv, Whole
<1>4. CASE CloseUnused(c) \/ CloseOutput(c)
  <2>1. /\ loc'[Writer(c)] = loc[Writer(c)]
        /\ <<c, "in", "w">> \in open[c] => <<c, "in", "w">> \in open'[c]
        /\ \/ /\ mtx' = Caller(c) /\ loc'[Caller(c)] = loc[Caller(c)]
              /\ loc[Caller(c)] \in {"closeInR", "closeOutW", "closeOutR"}
           \/ /\ loc[Caller(c)] = "closeInR" /\ loc'[Caller(c)] = "closeOutW"
           \/ /\ loc[Caller(c)] = "closeOutW" /\ loc'[Caller(c)] = "spawn"
           \/ /\ loc[Caller(c)] = "closeOutR" /\ loc'[Caller(c)] = "wait"
    <3>1. CASE CloseOutput(c)
      BY <3>1, CloseLocal DEF CloseOutput
    <3>2. CASE loc[Caller(c)] = "closeInR" /\ Close(Caller(c), <<c, "in", "r">>, "closeOutW")
      BY <3>2, CloseLocal
    <3>3. CASE loc[Caller(c)] = "closeOutW" /\ Close(Caller(c), <<c, "out", "w">>, "spawn")
      BY <3>3, CloseLocal
    <3> QED BY <1>4, <3>1, <3>2, <3>3 DEF CloseUnused
  <2>2. CallInv(c)'
    BY <1>1, <2>1 DEF OwnInv, CallInv, WithChild
  <2>3. FlowInv(c)'
    BY <1>1, <2>1 DEF OwnInv, CallInv, FlowInv, WithChild
  <2> QED BY <1>3, <2>2, <2>3 DEF OwnInv
<1>5. CASE CloseInput(c)
  <2>1. /\ loc[Writer(c)] = "closeInW" /\ loc'[Caller(c)] = loc[Caller(c)]
        /\ \/ mtx' = Writer(c) /\ loc'[Writer(c)] = loc[Writer(c)] /\ open'[c] = open[c]
           \/ mtx' = None /\ loc'[Writer(c)] = "ended"
    BY <1>5, CloseLocal DEF CloseInput
  <2>2. loc[Caller(c)] \in {"read", "closeOutR", "wait", "join"}
    BY <2>1 DEF OwnInv, CallInv
  <2>3. CallInv(c)'
    BY <1>1, <2>1, <2>2 DEF OwnInv, CallInv, WithChild
  <2>4. FlowInv(c)'
    BY <1>1, <2>1, <2>2 DEF OwnInv, FlowInv, WithChild
  <2> QED BY <1>3, <2>3, <2>4 DEF OwnInv
<1> QED BY <1>4, <1>5

\* The other steps of the calling thread.
LEMMA OwnCaller ==
    ASSUME TypeOK, LockInv, ListInv, alive, NEW c \in Callers, OwnInv(c),
           \/ Start(c) \/ GiveUp(c) \/ Fork(c) \/ SpawnWriter(c) \/ Read(c) \/ WaitChild(c)
           \/ JoinWriter(c) \/ Destructors(c)
    PROVE  OwnInv(c)'
<1> USE OwnFacts, TaskFacts
<1>1. CASE Start(c)
  <2>1. /\ loc[Caller(c)] = "idle" /\ loc'[Caller(c)] = "createIn"
        /\ loc'[Writer(c)] = loc[Writer(c)]
        /\ UNCHANGED <<written, got, result, alive, mtx, open, holds, child, std, childFds,
                       printed, status, buf>>
    BY <1>1 DEF Start, TypeOK, HostTypes, Goto, pipeVars, childVars
  <2>2. mtx # Caller(c)
    BY <2>1 DEF LockLocations
  <2>3. CallInv(c)' /\ ChildInv(c)' /\ Whole(c)'
    BY <2>1 DEF OwnInv, CallInv, ChildInv, Whole, WithChild
  <2>4. FlowInv(c)'
    BY <2>1, <2>2 DEF OwnInv, CallInv, FlowInv, WithChild, WriterLocations
  <2> QED BY <2>3, <2>4 DEF OwnInv
<1>2. CASE GiveUp(c)
  <2>1. /\ loc[Caller(c)] \in {"createIn", "createOut", "fork"} /\ loc'[Caller(c)] = "dtor"
        /\ loc'[Writer(c)] = loc[Writer(c)] /\ result'[c] = "false"
        /\ UNCHANGED <<prog, input, written, got, alive, mtx, open, holds, child, std, childFds,
                       printed, status, buf>>
    BY <1>2 DEF GiveUp, TypeOK, HostTypes, Goto, pipeVars, childVars
  <2>2. CallInv(c)' /\ ChildInv(c)' /\ Whole(c)'
    BY <2>1 DEF OwnInv, CallInv, ChildInv, Whole, WithChild
  <2>3. FlowInv(c)'
    BY <2>1 DEF OwnInv, CallInv, FlowInv, WithChild
  <2> QED BY <2>2, <2>3 DEF OwnInv
<1>3. CASE Fork(c)
  <2>1. /\ loc[Caller(c)] = "fork" /\ loc'[Caller(c)] = "closeInR" /\ mtx = None
        /\ loc'[Writer(c)] = loc[Writer(c)] /\ child'[c] = "forked"
        /\ UNCHANGED <<prog, input, written, got, result, alive, mtx, open, std, printed, status,
                       buf>>
    BY <1>3 DEF Fork, TypeOK, HostTypes, ChildTypes, Goto, pipeVars
  <2>2. holds'[c] = holds["host"] /\ childFds'[c] = fdsForClose
    BY <1>3 DEF Fork, TypeOK, PipeTypes, ChildTypes, Procs
  <2>3. OwnEnds(c) \subseteq fdsForClose
    <3>1. open[c] = OwnEnds(c)
      BY <2>1 DEF OwnInv, CallInv
    <3>2. \A e \in OwnEnds(c) : e \in Ends /\ e[1] = c
      BY EndFacts
    <3> QED BY <3>1, <3>2 DEF ListInv
  <2>4. holds["host"] = fdsForClose
    BY ZenonT(30), <2>1 DEF ListInv, TypeOK, PipeTypes
  <2>5. ChildInv(c)'
    BY ZenonT(30), <2>1, <2>2, <2>3, <2>4, EndFacts DEF ChildInv
  <2>6. CallInv(c)' /\ Whole(c)'
    <3>1. <<c, "in", "w">> \in OwnEnds(c)
      BY EndFacts
    <3> QED BY <2>1, <3>1 DEF OwnInv, CallInv, Whole, WithChild
  <2>7. FlowInv(c)'
    BY <2>1 DEF OwnInv, CallInv, FlowInv, WithChild
  <2> QED BY <2>5, <2>6, <2>7 DEF OwnInv
<1>4. CASE SpawnWriter(c)
  <2>1. /\ loc[Caller(c)] = "spawn" /\ loc'[Caller(c)] = "read" /\ loc'[Writer(c)] = "write"
        /\ UNCHANGED <<prog, input, written, got, result, alive, mtx, open, holds, child, std,
                       childFds, printed, status, buf>>
    BY <1>4 DEF SpawnWriter, TypeOK, HostTypes, pipeVars, childVars
  <2>2. loc[Writer(c)] = "off"
    BY <2>1 DEF OwnInv, CallInv, WriterLocations
  <2>3. CallInv(c)' /\ ChildInv(c)' /\ Whole(c)'
    BY <2>1, <2>2 DEF OwnInv, CallInv, ChildInv, Whole, WithChild
  <2>4. FlowInv(c)'
    BY <2>1, <2>2 DEF OwnInv, CallInv, FlowInv, WithChild
  <2> QED BY <2>3, <2>4 DEF OwnInv
<1>5. CASE Read(c)
  <2>1. /\ loc[Caller(c)] = "read" /\ loc'[Writer(c)] = loc[Writer(c)]
        /\ UNCHANGED <<prog, input, written, result, alive, mtx, open, holds, child, std,
                       childFds, printed, status>>
    BY <1>5 DEF Read, TypeOK, HostTypes, Goto, pipeVars, childVars
  <2>2. ChildInv(c)' /\ Whole(c)'
    BY <2>1 DEF OwnInv, ChildInv, CallInv, Whole
  <2>3. CASE buf[c]["out"] > 0
    <3>1. /\ buf'[c]["out"] = buf[c]["out"] - 1 /\ buf'[c]["in"] = buf[c]["in"]
          /\ got'[c] = got[c] + 1 /\ UNCHANGED loc
      BY <1>5, <2>3 DEF Read, TypeOK, HostTypes, PipeTypes
    <3>2. CallInv(c)'
      BY <2>1, <3>1 DEF OwnInv, CallInv, WithChild
    <3>3. FlowInv(c)'
      BY <2>1, <3>1 DEF OwnInv, FlowInv, CallInv, WithChild
    <3> QED BY <2>2, <3>2, <3>3 DEF OwnInv
  <2>4. CASE ~(buf[c]["out"] > 0)
    <3>1. /\ buf[c]["out"] = 0 /\ UNCHANGED <<buf, got>> /\ loc'[Caller(c)] = "closeOutR"
          /\ ~HasWriter(c, "out")
      BY <1>5, <2>4 DEF Read, TypeOK, HostTypes, Goto
    <3>2. <<c, "out", "w">> \notin holds[c] /\ ~std[c]
      BY <3>1 DEF HasWriter, Procs
    <3>3. child[c] = "exited"
      BY <2>1, <3>2 DEF OwnInv, CallInv, ChildInv, WithChild, TypeOK, ChildTypes, ChildLocations
    <3>4. CallInv(c)'
      BY <2>1, <3>1, <3>3 DEF OwnInv, CallInv, WithChild
    <3>5. FlowInv(c)'
      BY <2>1, <3>1, <3>3 DEF OwnInv, FlowInv, WithChild
    <3> QED BY <2>2, <3>4, <3>5 DEF OwnInv
  <2> QED BY <2>3, <2>4
<1>6. CASE WaitChild(c)
  <2>1. /\ loc[Caller(c)] = "wait" /\ loc'[Caller(c)] = "join" /\ child[c] = "exited"
        /\ loc'[Writer(c)] = loc[Writer(c)] /\ child'[c] = "none"
        /\ UNCHANGED <<prog, input, written, got, result, alive, mtx, open, holds, std, childFds,
                       printed, status, buf>>
    BY <1>6 DEF WaitChild, TypeOK, HostTypes, ChildTypes, Goto, pipeVars
  <2>2. CallInv(c)' /\ ChildInv(c)' /\ Whole(c)'
    BY <2>1 DEF OwnInv, CallInv, ChildInv, Whole, WithChild
  <2>3. FlowInv(c)'
    BY <2>1 DEF OwnInv, FlowInv, WithChild
  <2> QED BY <2>2, <2>3 DEF OwnInv
<1>7. CASE JoinWriter(c)
  <2>1. /\ loc[Caller(c)] = "join" /\ loc'[Caller(c)] = "dtor" /\ loc'[Writer(c)] = "off"
        /\ result'[c] = IF status[c] = 0 THEN "true" ELSE "false"
        /\ UNCHANGED <<prog, input, written, got, alive, mtx, open, holds, child, std, childFds,
                       printed, status, buf>>
    BY <1>7 DEF JoinWriter, TypeOK, HostTypes, pipeVars, childVars
  <2>2. CallInv(c)' /\ ChildInv(c)'
    BY <2>1 DEF OwnInv, CallInv, ChildInv, WithChild
  <2>3. status[c] = 0 => got[c] = IF prog[c] = "cat" THEN input[c] ELSE Output
    BY <2>1 DEF OwnInv, FlowInv
  <2>4. FlowInv(c)' /\ Whole(c)'
    BY <2>1, <2>3 DEF OwnInv, CallInv, FlowInv, Whole, WithChild
  <2> QED BY <2>2, <2>4 DEF OwnInv
<1>8. CASE Destructors(c)
  <2>1. /\ loc[Caller(c)] = "dtor" /\ UNCHANGED <<alive, child, std, childFds, buf>>
    BY <1>8 DEF Destructors
  <2>2. CASE open[c] = {}
    <3>1. /\ loc'[Caller(c)] = "idle" /\ loc'[Writer(c)] = loc[Writer(c)]
          /\ UNCHANGED <<mtx, open, holds>>
      BY <1>8, <2>2 DEF Destructors, TypeOK, HostTypes, Goto, pipeVars
    <3>2. result'[c] = "none" /\ got'[c] = 0 /\ written'[c] = 0 /\ printed'[c] = 0
      BY <1>8, <2>2 DEF Destructors, Forget, TypeOK, HostTypes, ChildTypes
    <3>3. CallInv(c)' /\ ChildInv(c)' /\ Whole(c)'
      BY <2>1, <2>2, <3>1, <3>2 DEF OwnInv, CallInv, ChildInv, Whole, WithChild
    <3>4. FlowInv(c)'
      BY <2>1, <3>1 DEF OwnInv, CallInv, FlowInv, WithChild
    <3> QED BY <3>3, <3>4 DEF OwnInv
  <2>3. CASE open[c] # {}
    <3>1. PICK e \in open[c] : /\ Close(Caller(c), e, "dtor")
                               /\ UNCHANGED <<prog, input, written, got, result, printed, status>>
      BY <1>8, <2>3 DEF Destructors
    <3>2. /\ loc'[Caller(c)] = "dtor" /\ loc'[Writer(c)] = loc[Writer(c)]
          /\ holds'[c] = holds[c]
      BY <2>1, <3>1, CloseLocal
    <3>3. CallInv(c)' /\ ChildInv(c)' /\ Whole(c)'
      BY <2>1, <3>1, <3>2 DEF OwnInv, CallInv, ChildInv, Whole, WithChild
    <3>4. FlowInv(c)'
      BY <2>1, <3>1, <3>2 DEF OwnInv, CallInv, FlowInv, WithChild
    <3> QED BY <3>3, <3>4 DEF OwnInv
  <2> QED BY <2>2, <2>3
<1> QED BY <1>1, <1>2, <1>3, <1>4, <1>5, <1>6, <1>7, <1>8

\* Write keeps what is said of the call.
LEMMA OwnWriter ==
    ASSUME TypeOK, LockInv, NEW c \in Callers, OwnInv(c), Write(c)
    PROVE  OwnInv(c)'
<1> USE OwnFacts, TaskFacts
<1>1. /\ loc[Writer(c)] = "write" /\ loc'[Caller(c)] = loc[Caller(c)]
      /\ UNCHANGED <<prog, input, got, result, mtx, open, child, std, childFds, printed, status>>
  BY DEF Write, TypeOK, HostTypes, Goto, pipeVars, childVars
<1>2. loc[Caller(c)] \in {"read", "closeOutR", "wait", "join"}
  BY <1>1 DEF OwnInv, CallInv
<1>3. holds'[c] = holds[c] /\ (alive' => alive)
  BY PipeAssumption DEF Write, TypeOK, PipeTypes, Procs
<1>4. ChildInv(c)' /\ Whole(c)'
  BY <1>1, <1>3 DEF OwnInv, ChildInv, Whole
<1>5. CASE written[c] = input[c]
  <2>1. loc'[Writer(c)] = "closeInW" /\ UNCHANGED <<written, alive, buf>>
    BY <1>5 DEF Write, TypeOK, HostTypes, Goto
  <2>2. CallInv(c)'
    BY <1>1, <1>2, <2>1 DEF OwnInv, CallInv, WithChild
  <2>3. FlowInv(c)'
    BY <1>1, <1>2, <1>5, <2>1 DEF OwnInv, FlowInv, WithChild
  <2> QED BY <1>4, <2>2, <2>3 DEF OwnInv
<1>6. CASE written[c] # input[c] /\ HasReader(c, "in")
  <2>1. written'[c] = written[c] + 1 /\ UNCHANGED <<loc, alive>>
    BY <1>6 DEF Write, TypeOK, HostTypes
  <2>2. buf'[c]["in"] = buf[c]["in"] + 1 /\ buf'[c]["out"] = buf[c]["out"]
    BY <1>6 DEF Write, TypeOK, PipeTypes
  <2>3. CallInv(c)'
    BY <1>1, <1>2, <2>1 DEF OwnInv, CallInv, WithChild
  <2>4. ~(alive /\ (child[c] = "exited" \/ loc[Caller(c)] = "join") /\ status[c] = 0
          /\ prog[c] = "cat")
    BY <1>6 DEF OwnInv, FlowInv
  <2>5. FlowInv(c)'
    BY <1>1, <1>2, <2>1, <2>2, <2>4 DEF OwnInv, FlowInv, WithChild
  <2> QED BY <1>4, <2>3, <2>5 DEF OwnInv
<1>7. CASE written[c] # input[c] /\ ~HasReader(c, "in")
  <2>1. alive' = FALSE /\ UNCHANGED <<loc, written, buf>>
    BY <1>7 DEF Write
  <2>2. CallInv(c)'
    BY <1>1, <1>2, <2>1 DEF OwnInv, CallInv, WithChild
  <2>3. FlowInv(c)'
    BY <1>1, <1>2, <2>1 DEF OwnInv, FlowInv, WithChild
  <2> QED BY <1>4, <2>2, <2>3 DEF OwnInv
<1> QED BY <1>5, <1>6, <1>7

\* A call with a child and no writer on its input has written all of it: the write
\* end stays open in the host until Write is done.
LEMMA NoWriterAllWritten ==
    ASSUME TypeOK, LockInv, ListInv, alive, NEW c \in Callers, CallInv(c), FlowInv(c),
           loc[Caller(c)] \in WithChild, ~HasWriter(c, "in")
    PROVE  written[c] = input[c]
<1> DEFINE e == <<c, "in", "w">>
<1>1. e \notin holds["host"]
  BY DEF HasWriter, Procs
<1>2. CASE loc[Writer(c)] = "ended"
  BY <1>2 DEF FlowInv
<1>3. CASE loc[Writer(c)] # "ended"
  <2>1. e \in open[c]
    BY <1>3 DEF CallInv
  <2>2. e \in Ends /\ e[1] = c
    BY EndFacts
  <2>3. e \in fdsForClose
    BY <2>1, <2>2 DEF ListInv
  <2>4. mtx # None /\ Closes(mtx, e)
    BY <1>1, <2>3 DEF ListInv
  <2>5. mtx \in Tasks
    BY <2>4 DEF TypeOK, PipeTypes
  <2>6. PICK d \in Callers : mtx = Caller(d) \/ mtx = Writer(d)
    BY <2>5, TaskFacts
  <2>7. mtx[1] = d
    BY <2>6, TaskFacts
  <2>8. \/ loc[mtx] = "closeInW" /\ d = c
        \/ loc[mtx] = "dtor" /\ e \in open[d]
    BY <2>4, <2>7 DEF Closes, FirstOpen
  <2>9. e \in open[d] => d = c
    <3>1. open[d] \subseteq OwnEnds(d)
      BY DEF ListInv
    <3>2. \A f \in OwnEnds(d) : f[1] = d
      BY EndFacts
    <3> QED BY <2>2, <3>1, <3>2
  <2>10. CASE mtx = Caller(d)
    BY <2>8, <2>9, <2>10 DEF LockInv, WriterLocations, WithChild
  <2>11. CASE mtx = Writer(d)
    <3>1. loc[Writer(c)] = "closeInW"
      BY <2>8, <2>9, <2>11 DEF LockInv, WriterLocations
    <3> QED BY <3>1 DEF FlowInv
  <2> QED BY <2>6, <2>10, <2>11
<1> QED BY <1>2, <1>3

\* The steps of the child.
LEMMA OwnChild ==
    ASSUME TypeOK, LockInv, ListInv, NEW c \in Callers, OwnInv(c), ChildStep(c)
    PROVE  OwnInv(c)'
<1> USE OwnFacts, TaskFacts
<1>1. UNCHANGED <<loc, prog, input, written, got, result, alive, mtx, open>>
  BY DEF ChildStep, ChildDup, ChildCloseOwn, ChildCloseAll, ChildExec, CatCopies, EmitPrints,
         hostVars, pipeVars
<1>2. child[c] # "none" /\ loc[Caller(c)] \in WithChild
  BY DEF OwnInv, CallInv, ChildStep, ChildDup, ChildCloseOwn, ChildCloseAll, ChildExec, CatCopies,
         EmitPrints
<1>3. child[c] # "exited" /\ loc[Caller(c)] \notin {"closeOutR", "wait"}
  BY DEF OwnInv, CallInv, ChildStep, ChildDup, ChildCloseOwn, ChildCloseAll, ChildExec, CatCopies,
         EmitPrints
<1>4. ASSUME child'[c] # "none"
      PROVE  CallInv(c)' /\ Whole(c)'
  BY <1>1, <1>2, <1>3, <1>4 DEF OwnInv, CallInv, Whole, WithChild
<1>5. ASSUME child'[c] \notin {"none", "exited"}, UNCHANGED <<buf, printed, status>>
      PROVE  FlowInv(c)'
  BY <1>1, <1>2, <1>3, <1>5 DEF OwnInv, FlowInv, WithChild
<1>6. CASE ChildDup(c)
  <2>1. child[c] = "forked" /\ child'[c] = "duped"
        /\ UNCHANGED <<holds, childFds, printed, status, buf>>
    BY <1>6 DEF ChildDup, TypeOK, ChildTypes
  <2>2. std'[c]
    BY <1>6, DupLocal
  <2>3. ChildInv(c)'
    BY <2>1, <2>2 DEF OwnInv, ChildInv
  <2> QED BY <1>4, <1>5, <2>1, <2>3 DEF OwnInv
<1>7. CASE ChildCloseOwn(c)
  <2>1. child[c] = "duped" /\ child'[c] = "ownClosed" /\ UNCHANGED <<std, printed, status, buf>>
    BY <1>7 DEF ChildCloseOwn, TypeOK, ChildTypes
  <2>2. holds'[c] = holds[c] \ OwnEnds(c) /\ childFds'[c] = childFds[c] \ OwnEnds(c)
    BY <1>7 DEF ChildCloseOwn, TypeOK, ChildTypes, PipeTypes, Procs
  <2>3. ChildInv(c)'
    BY <2>1, <2>2 DEF OwnInv, ChildInv
  <2> QED BY <1>4, <1>5, <2>1, <2>3 DEF OwnInv
<1>8. CASE ChildCloseAll(c)
  <2>1. child[c] = "ownClosed" /\ child'[c] = "allClosed"
        /\ UNCHANGED <<std, printed, status, buf>>
    BY <1>8 DEF ChildCloseAll, TypeOK, ChildTypes
  <2>2. holds'[c] = holds[c] \ childFds[c]
    BY <1>8 DEF ChildCloseAll, TypeOK, PipeTypes, Procs
  <2>3. ChildInv(c)'
    BY <2>1, <2>2 DEF OwnInv, ChildInv
  <2> QED BY <1>4, <1>5, <2>1, <2>3 DEF OwnInv
<1>9. ASSUME NEW code \in {0, 1}, ChildExit(c, code)
      PROVE  child'[c] = "exited" /\ status'[c] = code /\ ChildInv(c)'
  <2>1. child'[c] = "exited" /\ status'[c] = code
    BY <1>9 DEF ChildExit, TypeOK, ChildTypes
  <2> QED BY <2>1 DEF ChildInv
<1>10. CASE ChildExec(c)
  <2>1. UNCHANGED <<childFds, printed, buf>> /\ child[c] = "allClosed"
    BY <1>10 DEF ChildExec
  <2>2. CASE ChildExit(c, 1)
    <3>1. child'[c] = "exited" /\ status'[c] = 1 /\ ChildInv(c)'
      BY <1>9, <2>2
    <3>2. FlowInv(c)'
      BY <1>1, <1>2, <1>3, <2>1, <3>1 DEF OwnInv, FlowInv, WithChild
    <3> QED BY <1>4, <3>1, <3>2 DEF OwnInv
  <2>3. CASE child' = [child EXCEPT ![c] = "run"] /\ UNCHANGED <<status, std, holds>>
    <3>1. child'[c] = "run"
      BY <2>3 DEF TypeOK, ChildTypes
    <3>2. ChildInv(c)'
      BY <2>1, <2>3, <3>1 DEF OwnInv, ChildInv
    <3> QED BY <1>4, <1>5, <2>1, <2>3, <3>1, <3>2 DEF OwnInv
  <2> QED BY <1>10, <2>2, <2>3 DEF ChildExec
<1>11. CASE CatCopies(c)
  <2>1. UNCHANGED <<childFds, printed>> /\ child[c] = "run" /\ prog[c] = "cat"
    BY <1>11 DEF CatCopies
  <2>2. CASE buf[c]["in"] = 0 /\ ~HasWriter(c, "in") /\ ChildExit(c, 0) /\ UNCHANGED buf
    <3>1. child'[c] = "exited" /\ status'[c] = 0 /\ ChildInv(c)'
      BY <1>9, <2>2
    <3>2. alive => written[c] = input[c]
      BY <1>2, <2>2, NoWriterAllWritten DEF OwnInv
    <3>3. FlowInv(c)'
      BY <1>1, <1>2, <1>3, <2>1, <2>2, <3>1, <3>2 DEF OwnInv, FlowInv, WithChild
    <3> QED BY <1>4, <3>1, <3>3 DEF OwnInv
  <2>3. CASE /\ buf[c]["in"] > 0
             /\ buf' = [buf EXCEPT ![c]["in"] = @ - 1, ![c]["out"] = @ + 1]
             /\ UNCHANGED <<child, status, std, holds>>
    <3>1. buf'[c]["in"] = buf[c]["in"] - 1 /\ buf'[c]["out"] = buf[c]["out"] + 1
      BY <2>3 DEF TypeOK, PipeTypes
    <3>2. ChildInv(c)'
      BY <2>1, <2>3 DEF OwnInv, ChildInv
    <3>3. FlowInv(c)'
      BY <1>1, <1>2, <1>3, <2>1, <2>3, <3>1 DEF OwnInv, FlowInv, WithChild
    <3> QED BY <1>2, <1>4, <2>3, <3>2, <3>3 DEF OwnInv
  <2> QED BY <1>11, <2>2, <2>3 DEF CatCopies
<1>12. CASE EmitPrints(c)
  <2>1. UNCHANGED childFds /\ child[c] = "run" /\ prog[c] = "emit"
    BY <1>12 DEF EmitPrints
  <2>2. ASSUME NEW code \in {0, 1}, ChildExit(c, code), printed[c] = Output,
               UNCHANGED <<buf, printed>>
        PROVE  OwnInv(c)'
    <3>1. child'[c] = "exited" /\ status'[c] = code /\ ChildInv(c)'
      BY <1>9, <2>2
    <3>2. FlowInv(c)'
      BY <1>1, <1>2, <1>3, <2>1, <2>2, <3>1 DEF OwnInv, FlowInv, WithChild
    <3> QED BY <1>4, <3>1, <3>2 DEF OwnInv
  <2>3. CASE /\ buf' = [buf EXCEPT ![c]["out"] = @ + 1]
             /\ printed' = [printed EXCEPT ![c] = @ + 1]
             /\ UNCHANGED <<child, status, std, holds>>
    <3>1. /\ buf'[c]["in"] = buf[c]["in"] /\ buf'[c]["out"] = buf[c]["out"] + 1
          /\ printed'[c] = printed[c] + 1
      BY <2>3 DEF TypeOK, PipeTypes, ChildTypes
    <3>2. ChildInv(c)'
      BY <2>1, <2>3 DEF OwnInv, ChildInv
    <3>3. FlowInv(c)'
      BY <1>1, <1>2, <1>3, <2>1, <2>3, <3>1 DEF OwnInv, FlowInv, WithChild
    <3> QED BY <1>2, <1>4, <2>3, <3>2, <3>3 DEF OwnInv
  <2> QED BY <1>12, <2>2, <2>3 DEF EmitPrints
<1> QED BY <1>6, <1>7, <1>8, <1>10, <1>11, <1>12 DEF ChildStep

-----------------------------------------------------------------------------
(* The lock and the list.                                                  *)

\* A task takes mtx only where it creates or closes.
LEMMA StepLock ==
    ASSUME TypeOK, LockInv, NEW c \in Callers, CallInv(c), StepOf(c) PROVE LockInv'
<1> USE TaskFacts, EndFacts
    DEF TypeOK, HostTypes, PipeTypes, LockInv, LockLocations, WriterLocations, Goto, hostVars,
        pipeVars, childVars
<1>1. ASSUME Start(c) PROVE LockInv'
  BY <1>1 DEF Start
<1>2. ASSUME CreateIn(c) PROVE LockInv'
  BY <1>2 DEF CreateIn, Create
<1>3. ASSUME CreateOut(c) PROVE LockInv'
  BY <1>3 DEF CreateOut, Create
<1>4. ASSUME GiveUp(c) PROVE LockInv'
  BY <1>4 DEF GiveUp
<1>5. ASSUME Fork(c) PROVE LockInv'
  BY <1>5 DEF Fork
<1>6. ASSUME CloseUnused(c) PROVE LockInv'
  BY <1>6 DEF CloseUnused, Close
<1>7. ASSUME SpawnWriter(c) PROVE LockInv'
  <2>1. UNCHANGED <<mtx, open>> /\ loc[Caller(c)] = "spawn" /\ loc[Writer(c)] = "off"
    BY <1>7 DEF SpawnWriter, CallInv
  <2>2. loc' = [loc EXCEPT ![Caller(c)] = "read", ![Writer(c)] = "write"]
    BY <1>7 DEF SpawnWriter
  <2>3. /\ loc'[Caller(c)] = "read" /\ loc'[Writer(c)] = "write"
        /\ \A t \in Tasks : t # Caller(c) /\ t # Writer(c) => loc'[t] = loc[t]
    BY <2>2
  <2>4. mtx # None => mtx \in Tasks /\ loc'[mtx] = loc[mtx]
    BY <2>1, <2>3
  <2>5. \A d \in Callers : /\ loc'[Caller(d)] \notin WriterLocations
                           /\ loc'[Writer(d)] \in WriterLocations
    BY <2>3
  <2> QED BY <2>1, <2>4, <2>5
<1>8. ASSUME Read(c) PROVE LockInv'
  BY <1>8 DEF Read
<1>9. ASSUME CloseOutput(c) PROVE LockInv'
  BY <1>9 DEF CloseOutput, Close
<1>10. ASSUME WaitChild(c) PROVE LockInv'
  BY <1>10 DEF WaitChild
<1>11. ASSUME JoinWriter(c) PROVE LockInv'
  BY <1>11 DEF JoinWriter
<1>12. ASSUME Destructors(c) PROVE LockInv'
  <2>1. loc[Caller(c)] = "dtor"
    BY <1>12 DEF Destructors
  <2>2. CASE open[c] = {}
    <3>1. UNCHANGED <<mtx, open>> /\ loc' = [loc EXCEPT ![Caller(c)] = "idle"]
      BY <1>12, <2>2 DEF Destructors
    <3> QED BY <2>1, <2>2, <3>1
  <2>3. CASE open[c] # {}
    <3>1. PICK e \in open[c] : Close(Caller(c), e, "dtor")
      BY <1>12, <2>3 DEF Destructors
    <3>2. \/ mtx' = None /\ loc' = [loc EXCEPT ![Caller(c)] = "dtor"]
          \/ mtx' = Caller(c) /\ UNCHANGED <<loc, open>>
      BY <3>1 DEF Close
    <3> QED BY <2>1, <2>3, <3>2
  <2> QED BY <2>2, <2>3
<1>13. ASSUME Write(c) PROVE LockInv'
  BY <1>13 DEF Write
<1>14. ASSUME CloseInput(c) PROVE LockInv'
  BY <1>14 DEF CloseInput, Close
<1>15. ASSUME ChildDup(c) PROVE LockInv'
  BY <1>15 DEF ChildDup
<1>16. ASSUME ChildCloseOwn(c) PROVE LockInv'
  BY <1>16 DEF ChildCloseOwn
<1>17. ASSUME ChildCloseAll(c) PROVE LockInv'
  BY <1>17 DEF ChildCloseAll
<1>18. ASSUME ChildExec(c) PROVE LockInv'
  BY <1>18 DEF ChildExec, ChildExit
<1>19. ASSUME CatCopies(c) PROVE LockInv'
  BY <1>19 DEF CatCopies, ChildExit
<1>20. ASSUME EmitPrints(c) PROVE LockInv'
  BY <1>20 DEF EmitPrints, ChildExit
<1> QED
  BY <1>1, <1>2, <1>3, <1>4, <1>5, <1>6, <1>7, <1>8, <1>9, <1>10,
     <1>11, <1>12, <1>13, <1>14, <1>15, <1>16, <1>17, <1>18, <1>19, <1>20
  DEF StepOf, CallStep, WriteStep, ChildStep

\* At most one end is being closed, and nothing is created then.
LEMMA ClosesOne ==
    ASSUME TypeOK, ListInv, NEW t \in Tasks, NEW e \in Ends, Closes(t, e)
    PROVE  /\ e[1] = t[1]
           /\ \A f \in Ends : Closes(t, f) => f = e
           /\ \A f : ~Creates(t, f)
<1>1. t[1] \in Callers
  BY TaskFacts
<1>2. open[t[1]] \subseteq OwnEnds(t[1]) /\ \A f \in OwnEnds(t[1]) : f[1] = t[1]
  BY <1>1, EndFacts DEF ListInv
<1>3. e[1] = t[1]
  BY <1>2 DEF Closes, FirstOpen
<1>4. ASSUME NEW f \in Ends, FirstOpen(t[1], e), FirstOpen(t[1], f)
      PROVE  f = e
  <2>1. f[1] = t[1] /\ e[1] = t[1]
    BY <1>2, <1>4 DEF FirstOpen
  <2>2. {e[2], f[2]} \subseteq {"in", "out"} /\ {e[3], f[3]} \subseteq {"r", "w"}
    BY EndFacts
  <2>3. e[2] = f[2]
    BY <1>4, <2>2 DEF FirstOpen
  <2>4. e[3] = f[3]
    BY <1>4, <2>2, <2>3 DEF FirstOpen
  <2> QED BY <2>1, <2>3, <2>4, EndFacts
<1>5. ASSUME NEW f \in Ends, Closes(t, f) PROVE f = e
  BY <1>4, <1>5 DEF Closes
<1>6. \A f : ~Creates(t, f)
  BY DEF Closes, Creates
<1> QED BY <1>3, <1>5, <1>6

\* Steps that touch neither the list nor the descriptors of the host, and do not
\* move the holder of mtx.
LEMMA ListFrame ==
    ASSUME ListInv, UNCHANGED <<mtx, fdsForClose, open, alive>>, holds'["host"] = holds["host"],
           mtx # None => loc'[mtx] = loc[mtx]
    PROVE  ListInv'
<1>1. mtx # None => \A e : Closes(mtx, e)' <=> Closes(mtx, e)
  BY DEF Closes, FirstOpen
<1>2. mtx # None => \A e : Creates(mtx, e)' <=> Creates(mtx, e)
  BY DEF Creates
<1> QED BY <1>1, <1>2 DEF ListInv

\* Both halves of Pipe::Create keep the list and the descriptors in step.
LEMMA ListCreate ==
    ASSUME TypeOK, LockInv, ListInv, NEW c \in Callers, NEW s \in {"in", "out"}, NEW after,
           Create(c, s, after), loc[Caller(c)] = IF s = "in" THEN "createIn" ELSE "createOut",
           UNCHANGED alive
    PROVE  ListInv'
<1> DEFINE t == Caller(c)
<1>1. t \in Tasks /\ t[1] = c /\ t # None
  BY TaskFacts
<1>2. \A e : Creates(t, e) <=> e \in BothEnds(c, s)
  BY <1>1 DEF Creates
<1>3. \A e : ~Closes(t, e)
  BY DEF Closes
<1>4. /\ BothEnds(c, s) \subseteq OwnEnds(c) /\ BothEnds(c, s) \subseteq Ends
      /\ \A e \in BothEnds(c, s) : e[1] = c
  BY EndFacts
<1>5. CASE mtx = None
  <2>1. mtx' = t /\ UNCHANGED <<loc, fdsForClose, open>>
    BY <1>1, <1>5 DEF Create
  <2>2. holds'["host"] = holds["host"] \cup BothEnds(c, s)
    BY <1>1, <1>5 DEF Create, TypeOK, PipeTypes, Procs
  <2>3. \A e : (Creates(t, e)' <=> e \in BothEnds(c, s)) /\ ~Closes(t, e)'
    BY <1>2, <1>3, <2>1 DEF Creates, Closes, FirstOpen
  <2> QED BY <1>1, <1>5, <2>1, <2>2, <2>3 DEF ListInv
<1>6. CASE mtx # None
  <2>1. mtx = t /\ mtx' = None /\ UNCHANGED holds
    BY <1>6 DEF Create
  <2>2. fdsForClose' = fdsForClose \cup BothEnds(c, s)
    BY <1>6 DEF Create
  <2>3. /\ open'[c] = open[c] \cup BothEnds(c, s)
        /\ \A d \in Callers : d # c => open'[d] = open[d]
    BY <1>6 DEF Create, TypeOK, PipeTypes
  <2>4. \A d \in Callers : open'[d] \subseteq OwnEnds(d)
    BY <1>4, <2>3 DEF ListInv
  <2>5. ASSUME NEW e \in Ends PROVE e \in fdsForClose' <=> e \in open'[e[1]]
    <3>1. e[1] \in Callers
      BY EndFacts
    <3>2. e \in fdsForClose <=> e \in open[e[1]]
      BY DEF ListInv
    <3> QED BY <1>4, <2>2, <2>3, <3>1, <3>2
  <2>6. holds["host"] \subseteq fdsForClose'
    BY <1>2, <2>1, <2>2 DEF ListInv
  <2>7. alive => fdsForClose' \subseteq holds["host"]
    BY <1>1, <1>2, <1>3, <1>4, <2>1, <2>2 DEF ListInv
  <2> QED BY <2>1, <2>4, <2>5, <2>6, <2>7 DEF ListInv
<1> QED BY <1>5, <1>6

\* Both halves of Pipe::Close keep the list and the descriptors in step.
LEMMA ListClose ==
    ASSUME TypeOK, LockInv, ListInv, NEW t \in Tasks, NEW e \in Ends, NEW after,
           Close(t, e, after), Closes(t, e), UNCHANGED alive
    PROVE  ListInv'
<1>1. t[1] \in Callers /\ t # None
  BY TaskFacts
<1>2. e[1] = t[1] /\ (\A f \in Ends : Closes(t, f) => f = e) /\ \A f : ~Creates(t, f)
  BY ClosesOne
<1>3. holds["host"] \subseteq Ends /\ fdsForClose \subseteq Ends
  BY DEF TypeOK, PipeTypes, Procs
<1>4. CASE mtx = None
  <2>1. mtx' = t /\ UNCHANGED <<loc, fdsForClose, open>>
    BY <1>1, <1>4 DEF Close
  <2>2. holds'["host"] = holds["host"] \ {e}
    BY <1>1, <1>4 DEF Close, TypeOK, PipeTypes, Procs
  <2>3. \A f : (Closes(t, f)' <=> Closes(t, f)) /\ ~Creates(t, f)'
    BY <1>2, <2>1 DEF Creates, Closes, FirstOpen
  <2> QED BY <1>1, <1>2, <1>3, <1>4, <2>1, <2>2, <2>3 DEF ListInv
<1>5. CASE mtx # None
  <2>1. mtx = t /\ mtx' = None /\ UNCHANGED holds /\ fdsForClose' = fdsForClose \ {e}
    BY <1>5 DEF Close
  <2>2. /\ open'[t[1]] = open[t[1]] \ {e}
        /\ \A d \in Callers : d # t[1] => open'[d] = open[d]
    BY <1>1, <1>5 DEF Close, TypeOK, PipeTypes
  <2>3. \A d \in Callers : open'[d] \subseteq OwnEnds(d)
    BY <2>2 DEF ListInv
  <2>4. ASSUME NEW f \in Ends PROVE f \in fdsForClose' <=> f \in open'[f[1]]
    <3>1. f[1] \in Callers
      BY EndFacts
    <3>2. f \in fdsForClose <=> f \in open[f[1]]
      BY DEF ListInv
    <3> QED BY <1>2, <2>1, <2>2, <3>1, <3>2
  <2>5. holds["host"] \subseteq fdsForClose'
    BY <1>1, <1>2, <2>1 DEF ListInv
  <2>6. alive => fdsForClose' \subseteq holds["host"]
    BY <1>1, <1>2, <1>3, <2>1 DEF ListInv
  <2> QED BY <2>1, <2>3, <2>4, <2>5, <2>6 DEF ListInv
<1> QED BY <1>4, <1>5

\* Every step of a call keeps the list.
LEMMA StepList ==
    ASSUME TypeOK, LockInv, ListInv, NEW c \in Callers, CallInv(c), StepOf(c) PROVE ListInv'
<1>a. /\ Caller(c) \in Tasks /\ Caller(c)[1] = c /\ Writer(c) \in Tasks /\ Writer(c)[1] = c
      /\ Caller(c) # Writer(c)
  BY TaskFacts
<1>b. mtx # None => mtx \in Tasks
  BY DEF TypeOK, PipeTypes
<1>c. c # "host" /\ c \in Procs /\ "host" \in Procs
  BY PipeAssumption DEF Procs
<1>d. \A s \in {"in", "out"}, x \in {"r", "w"} : <<c, s, x>> \in Ends
  BY EndFacts
<1>e. \A t \in Tasks : t = mtx => loc[t] \in LockLocations
  BY TaskFacts DEF LockInv
<1>1. ASSUME \/ Start(c) \/ GiveUp(c) \/ Fork(c) \/ SpawnWriter(c) \/ Read(c) \/ WaitChild(c)
             \/ JoinWriter(c) PROVE ListInv'
  <2>1. UNCHANGED <<mtx, fdsForClose, open, alive>>
    BY <1>1 DEF Start, GiveUp, Fork, SpawnWriter, Read, WaitChild, JoinWriter, pipeVars
  <2>2. holds'["host"] = holds["host"]
    <3>1. CASE Fork(c)
      BY <3>1, <1>c DEF Fork, TypeOK, PipeTypes
    <3> QED BY <1>1, <3>1 DEF Start, GiveUp, SpawnWriter, Read, WaitChild, JoinWriter
  <2>3. CASE mtx = None
    BY <2>1, <2>2, <2>3, ListFrame
  <2>4. CASE mtx # None
    <3>1. loc[Caller(c)] \in {"idle", "spawn", "read", "wait", "join"}
      BY <1>1, <2>4 DEF Start, GiveUp, Fork, SpawnWriter, Read, WaitChild, JoinWriter
    <3>2. mtx # Caller(c)
      BY <1>a, <1>e, <3>1 DEF LockLocations
    <3>3. CASE SpawnWriter(c) \/ JoinWriter(c)
      <4>1. loc[Writer(c)] \in {"off", "ended"}
        BY <3>3 DEF SpawnWriter, JoinWriter, CallInv
      <4>2. mtx # Writer(c)
        BY <1>a, <1>e, <4>1 DEF LockLocations
      <4>3. loc'[mtx] = loc[mtx]
        BY <1>a, <1>b, <2>4, <3>2, <3>3, <4>2 DEF SpawnWriter, JoinWriter, TypeOK, HostTypes
      <4> QED BY <2>1, <2>2, <4>3, ListFrame
    <3>4. CASE ~(SpawnWriter(c) \/ JoinWriter(c))
      <4>1. loc'[mtx] = loc[mtx]
        BY <1>1, <1>a, <1>b, <2>4, <3>2, <3>4
        DEF Start, GiveUp, Fork, Read, WaitChild, Goto, TypeOK, HostTypes
      <4> QED BY <2>1, <2>2, <4>1, ListFrame
    <3> QED BY <3>3, <3>4
  <2> QED BY <2>3, <2>4
<1>2. ASSUME CreateIn(c) PROVE ListInv'
  BY <1>2, ListCreate DEF CreateIn
<1>3. ASSUME CreateOut(c) PROVE ListInv'
  BY <1>3, ListCreate DEF CreateOut
<1>4. ASSUME CloseUnused(c) PROVE ListInv'
  <2>1. UNCHANGED alive
    BY <1>4 DEF CloseUnused
  <2>2. CASE loc[Caller(c)] = "closeInR" /\ Close(Caller(c), <<c, "in", "r">>, "closeOutW")
    <3>1. Closes(Caller(c), <<c, "in", "r">>)
      BY <1>a, <2>2 DEF Closes
    <3> QED BY <1>a, <1>d, <2>1, <2>2, <3>1, ListClose
  <2>3. CASE loc[Caller(c)] = "closeOutW" /\ Close(Caller(c), <<c, "out", "w">>, "spawn")
    <3>1. Closes(Caller(c), <<c, "out", "w">>)
      BY <1>a, <2>3 DEF Closes
    <3> QED BY <1>a, <1>d, <2>1, <2>3, <3>1, ListClose
  <2> QED BY <1>4, <2>2, <2>3 DEF CloseUnused
<1>5. ASSUME CloseOutput(c) PROVE ListInv'
  <2>1. Closes(Caller(c), <<c, "out", "r">>) /\ Close(Caller(c), <<c, "out", "r">>, "wait")
        /\ UNCHANGED alive
    BY <1>5, <1>a DEF CloseOutput, Closes
  <2> QED BY <1>a, <1>d, <2>1, ListClose
<1>6. ASSUME CloseInput(c) PROVE ListInv'
  <2>1. Closes(Writer(c), <<c, "in", "w">>) /\ Close(Writer(c), <<c, "in", "w">>, "ended")
        /\ UNCHANGED alive
    BY <1>6, <1>a DEF CloseInput, Closes
  <2> QED BY <1>a, <1>d, <2>1, ListClose
<1>7. ASSUME Destructors(c) PROVE ListInv'
  <2>1. loc[Caller(c)] = "dtor" /\ UNCHANGED alive
    BY <1>7 DEF Destructors
  <2>2. CASE open[c] = {}
    <3>1. UNCHANGED <<mtx, fdsForClose, open, holds>> /\ loc' = [loc EXCEPT ![Caller(c)] = "idle"]
      BY <1>7, <2>2 DEF Destructors, Goto, pipeVars
    <3>2. mtx # Caller(c)
      BY <1>a, <2>1, <2>2, TaskFacts DEF LockInv
    <3>3. mtx # None => loc'[mtx] = loc[mtx]
      BY <1>a, <1>b, <3>1, <3>2 DEF TypeOK, HostTypes
    <3> QED BY <2>1, <3>1, <3>3, ListFrame
  <2>3. CASE open[c] # {}
    <3>1. PICK e \in open[c] : /\ e[2] = "in" => \A f \in open[c] : f[2] = "in"
                               /\ e[3] = "w" => \A f \in open[c] : f[2] = e[2] => f[3] = "w"
                               /\ Close(Caller(c), e, "dtor")
      BY <1>7, <2>3 DEF Destructors
    <3>2. e \in Ends
      BY <3>1 DEF TypeOK, PipeTypes
    <3>3. Closes(Caller(c), e)
      BY <1>a, <2>1, <3>1 DEF Closes, FirstOpen
    <3> QED BY <1>a, <2>1, <3>1, <3>2, <3>3, ListClose
  <2> QED BY <2>2, <2>3
<1>8. ASSUME Write(c) PROVE ListInv'
  <2>1. UNCHANGED <<mtx, fdsForClose, open>> /\ loc[Writer(c)] = "write"
    BY <1>8 DEF Write, pipeVars
  <2>2. CASE written[c] < input[c] /\ ~HasReader(c, "in")
    <3>1. alive' = FALSE /\ holds' = [holds EXCEPT !["host"] = {}]
      BY <1>8, <2>2 DEF Write, TypeOK, HostTypes
    <3>2. holds'["host"] = {}
      BY <1>c, <3>1 DEF TypeOK, PipeTypes
    <3> QED BY <2>1, <3>1, <3>2 DEF ListInv
  <2>3. CASE ~(written[c] < input[c] /\ ~HasReader(c, "in"))
    <3>1. UNCHANGED <<alive, holds>> /\ (loc' = loc \/ loc' = [loc EXCEPT ![Writer(c)] = "closeInW"])
      BY <1>8, <2>3 DEF Write, Goto
    <3>2. mtx # Writer(c)
      BY <1>a, <1>e, <2>1 DEF LockLocations
    <3>3. mtx # None => loc'[mtx] = loc[mtx]
      BY <1>a, <1>b, <3>1, <3>2 DEF TypeOK, HostTypes
    <3> QED BY <2>1, <3>1, <3>3, ListFrame
  <2> QED BY <2>2, <2>3
<1>9. ASSUME ChildStep(c) PROVE ListInv'
  <2>1. UNCHANGED <<loc, mtx, fdsForClose, open, alive>>
    BY <1>9 DEF ChildStep, ChildDup, ChildCloseOwn, ChildCloseAll, ChildExec, CatCopies,
                EmitPrints, hostVars, pipeVars
  <2>2. holds' = holds \/ holds' = [holds EXCEPT ![c] = holds'[c]]
    BY <1>9, <1>c DEF ChildStep, ChildDup, ChildCloseOwn, ChildCloseAll, ChildExec, CatCopies,
                      EmitPrints, ChildExit, TypeOK, PipeTypes
  <2>3. holds'["host"] = holds["host"]
    BY <1>c, <2>2 DEF TypeOK, PipeTypes
  <2> QED BY <2>1, <2>3, ListFrame
<1> QED
  BY <1>1, <1>2, <1>3, <1>4, <1>5, <1>6, <1>7, <1>8, <1>9 DEF StepOf, CallStep, WriteStep

-----------------------------------------------------------------------------
(* The theorems.                                                           *)

\* Every step of a call keeps what is said of that call.
LEMMA OwnStep ==
    ASSUME TypeOK, LockInv, ListInv, NEW c \in Callers, OwnInv(c), StepOf(c) PROVE OwnInv(c)'
BY OwnCreate, OwnClose, OwnCaller, OwnWriter, OwnChild DEF StepOf, CallStep, WriteStep

\* PipeInv is inductive: the lock, the list, the locations of a call and of its child,
\* and the units on their way are kept by every step of every thread and child.
THEOREM PipeInvariant == Spec => []PipeInv
<1>1. Init => PipeInv
  <2> SUFFICES ASSUME Init PROVE PipeInv
    OBVIOUS
  <2>1. TypeOK
    BY InitType
  <2>2. /\ \A c \in Callers : loc[Caller(c)] = "idle" /\ loc[Writer(c)] = "off"
        /\ mtx = None
    BY TaskFacts DEF Init
  <2>3. LockInv
    BY <2>2 DEF LockInv, WriterLocations
  <2>4. ListInv
    <3>1. holds["host"] = {} /\ fdsForClose = {} /\ \A c \in Callers : open[c] = {}
      BY DEF Init, Procs
    <3> QED BY <2>2, <3>1, EndFacts DEF ListInv
  <2>5. ASSUME NEW c \in Callers PROVE CallInv(c) /\ ChildInv(c) /\ FlowInv(c) /\ Whole(c)
    <3>1. /\ open[c] = {} /\ child[c] = "none" /\ got[c] = 0 /\ written[c] = 0
          /\ printed[c] = 0 /\ result[c] = "none"
      BY DEF Init
    <3>2. CallInv(c) /\ ChildInv(c) /\ Whole(c)
      BY <2>2, <3>1 DEF CallInv, ChildInv, Whole, WithChild
    <3>3. FlowInv(c)
      BY <2>2, <3>1 DEF FlowInv, WithChild
    <3> QED BY <3>2, <3>3
  <2> QED BY <2>1, <2>3, <2>4, <2>5 DEF PipeInv, OutputWhole, Whole
<1>2. PipeInv /\ [Next]_vars => PipeInv'
  <2> SUFFICES ASSUME PipeInv, [Next]_vars PROVE PipeInv'
    OBVIOUS
  <2>1. /\ TypeOK /\ LockInv /\ ListInv
        /\ \A c \in Callers : CallInv(c) /\ OwnInv(c)
    BY DEF PipeInv, OwnInv, OutputWhole, Whole
  <2>2. CASE UNCHANGED vars
    <3>1. TypeOK'
      BY <2>1, StepType
    <3>2. LockInv' /\ ListInv'
      BY <2>1, <2>2 DEF vars, LockInv, ListInv, Closes, Creates, FirstOpen
    <3>3. ASSUME NEW d \in Callers PROVE OwnInv(d)'
      BY <2>1, <2>2, Framed DEF vars, View, Data, Kid, OwnInv
    <3> QED BY <3>1, <3>2, <3>3 DEF PipeInv, OwnInv, OutputWhole, Whole
  <2>3. ASSUME NEW c \in Callers, StepOf(c) PROVE PipeInv'
    <3>1. TypeOK'
      BY <2>1, StepType
    <3>2. LockInv' /\ ListInv'
      BY <2>1, <2>3, StepLock, StepList
    <3>3. OwnInv(c)'
      BY <2>1, <2>3, OwnStep
    <3>4. ASSUME NEW d \in Callers, d # c PROVE OwnInv(d)'
      <4>1. /\ UNCHANGED View(d) /\ std'[d] = std[d]
            /\ (mtx' = Caller(d) => mtx = Caller(d)) /\ (alive' => alive)
        BY <2>1, <2>3, <3>4, OtherCalls
      <4>2. OwnInv(d)
        BY <2>1
      <4> QED BY <4>1, <4>2, Framed DEF OwnInv
    <3> QED BY <3>1, <3>2, <3>3, <3>4 DEF PipeInv, OwnInv, OutputWhole, Whole
  <2> QED BY <2>2, <2>3 DEF Next, StepOf
<1> QED BY <1>1, <1>2, PTL DEF Spec

\* A command runs without any pipe end but its own stdin and stdout, and Pipe::Close
\* always finds its descriptor in the list, in the parent and in the child.
THEOREM PipesAreSound == Spec => []PipesSound
<1>1. PipeInv => PipesSound
  <2> SUFFICES ASSUME PipeInv PROVE PipesSound
    OBVIOUS
  <2>1. TypeOK /\ CommandHoldsNoOtherEnd
    BY DEF PipeInv, ChildInv, CommandHoldsNoOtherEnd
  <2>2. ASSUME NEW c \in Callers, NEW s \in {"in", "out"}, NEW x \in {"r", "w"},
               <<c, s, x>> \in open[c]
        PROVE  <<c, s, x>> \in fdsForClose
    <3>1. <<c, s, x>> \in Ends
      BY EndFacts
    <3> QED BY <2>2, <3>1 DEF PipeInv, ListInv
  <2>3. \A c \in Callers : child[c] \in {"forked", "duped"} => OwnEnds(c) \subseteq childFds[c]
    BY DEF PipeInv, ChildInv
  <2> QED BY <2>1, <2>2, <2>3 DEF PipesSound, CloseFindsItsFd
<1> QED BY <1>1, PipeInvariant, PTL

\* When no call is running no descriptor is open or listed, and a call that returns
\* true has all of the output of its command.
THEOREM CallsEndClean == Spec => []CallEndsClean
<1>1. PipeInv => CallEndsClean
  <2> SUFFICES ASSUME PipeInv PROVE CallEndsClean
    OBVIOUS
  <2>1. OutputWhole
    BY DEF PipeInv
  <2>2. ASSUME alive, mtx = None, \A c \in Callers : loc[Caller(c)] = "idle"
        PROVE  fdsForClose = {} /\ holds["host"] = {}
    <3>1. \A c \in Callers : open[c] = {}
      BY <2>2 DEF PipeInv, CallInv
    <3>2. fdsForClose \subseteq Ends
      BY DEF PipeInv, TypeOK, PipeTypes
    <3>3. \A e \in Ends : e \notin fdsForClose
      BY <3>1, EndFacts DEF PipeInv, ListInv
    <3> QED BY <2>2, <3>2, <3>3 DEF PipeInv, ListInv
  <2> QED BY <2>1, <2>2 DEF CallEndsClean, NoDescriptorLeft
<1> QED BY <1>1, PipeInvariant, PTL
=============================================================================
