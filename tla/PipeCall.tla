------------------------------ MODULE PipeCall ------------------------------
(***************************************************************************)
(* PipeCall (csrc/utils/PipeCall.cpp): run an external command with its    *)
(* standard input and output on pipes, from several threads at once.       *)
(*                                                                         *)
(* A fork copies every open descriptor of the process, those of calls of   *)
(* other threads included, and a reader sees end-of-file only when nobody  *)
(* holds the write end.  Pipe keeps a list of all its descriptors, guarded *)
(* by mtx, so that a child can close the ones it inherited by accident.    *)
(*                                                                         *)
(* The child of the call of thread c is named c.  An end of a pipe is      *)
(* <<c, "in" or "out", "r" or "w">>.                                       *)
(***************************************************************************)
EXTENDS Naturals

CONSTANTS
    Callers,    \* the threads that call PipeCall
    Programs,   \* the commands they run, a subset of {"cat", "emit"}
    Inputs,     \* the sizes of `input` given to cat, in units
    Output,     \* the units a program that ignores its input prints
    Capacity,   \* the units a pipe buffer holds
    MaxCalls,   \* bound on the calls of all threads
    None        \* nobody holds the lock

ASSUME PipeAssumption ==
    /\ Programs \subseteq {"cat", "emit"}
    /\ Inputs \subseteq Nat /\ Output \in Nat /\ MaxCalls \in Nat
    /\ Capacity \in Nat \ {0}
    /\ "host" \notin Callers
    /\ None \notin Callers \X {"call", "write"}

\* The tasks of the host process: the calling threads, and the thread each call
\* starts to write `input`.
Tasks == Callers \X {"call", "write"}
Procs == {"host"} \cup Callers
Ends == Callers \X {"in", "out"} \X {"r", "w"}

OwnEnds(c) == {c} \X {"in", "out"} \X {"r", "w"}

VARIABLES
    loc,          \* where each task stands
    prog,         \* the command of each call
    input,        \* the units of its `input`
    written,      \* the units Write has put in the pipe
    got,          \* the units Read has appended to `output`
    result,       \* what the call of each thread is about to return
    calls,        \* calls made so far
    alive,        \* FALSE once SIGPIPE has killed the host
    mtx,          \* Pipe::mtx, the task that holds it
    fdsForClose,  \* Pipe::fdsForClose
    open,         \* the members pipe[0], pipe[1] of a call that are not -1
    holds,        \* the pipe ends in each process's descriptor table
    child,        \* where each child stands
    std,          \* whether its stdin and stdout are on the pipes
    childMtx,     \* the child's copy of mtx
    childFds,     \* the child's copy of fdsForClose
    printed,      \* units the program of the child has printed
    status,       \* the exit status of the child, 0 is success
    buf           \* the units in each pipe

hostVars == <<loc, prog, input, written, got, result, calls, alive>>
pipeVars == <<mtx, fdsForClose, open>>
childVars == <<child, std, childMtx, childFds, printed, status>>
vars == <<loc, prog, input, written, got, result, calls, alive, mtx, fdsForClose,
          open, holds, child, std, childMtx, childFds, printed, status, buf>>

Locations == {"idle", "createIn", "createOut", "fork", "closeInR", "closeOutW",
              "spawn", "read", "closeOutR", "wait", "join", "dtor",
              "off", "write", "closeInW", "ended"}

ChildLocations == {"none", "forked", "duped", "ownClosed", "allClosed", "run", "exited"}

Init ==
    /\ loc = [t \in Tasks |-> IF t[2] = "call" THEN "idle" ELSE "off"]
    /\ prog = [c \in Callers |-> "cat"]
    /\ input = [c \in Callers |-> 0]
    /\ written = [c \in Callers |-> 0]
    /\ got = [c \in Callers |-> 0]
    /\ result = [c \in Callers |-> "none"]
    /\ calls = 0
    /\ alive = TRUE
    /\ mtx = None
    /\ fdsForClose = {}
    /\ open = [c \in Callers |-> {}]
    /\ holds = [p \in Procs |-> {}]
    /\ child = [c \in Callers |-> "none"]
    /\ std = [c \in Callers |-> FALSE]
    /\ childMtx = [c \in Callers |-> None]
    /\ childFds = [c \in Callers |-> {}]
    /\ printed = [c \in Callers |-> 0]
    /\ status = [c \in Callers |-> 0]
    /\ buf = [c \in Callers |-> [s \in {"in", "out"} |-> 0]]

-----------------------------------------------------------------------------
(* Pipe.                                                                   *)

\* The task of thread c itself, and the writer thread of its call.
Caller(c) == <<c, "call">>
Writer(c) == <<c, "write">>

Goto(t, l) == loc' = [loc EXCEPT ![t] = l]
BothEnds(c, s) == {c} \X {s} \X {"r", "w"}

\* Somebody can still write to (read from) pipe s of call c.
HasWriter(c, s) ==
    \/ \E p \in Procs : <<c, s, "w">> \in holds[p]
    \/ s = "out" /\ std[c]

HasReader(c, s) ==
    \/ \E p \in Procs : <<c, s, "r">> \in holds[p]
    \/ s = "in" /\ std[c]

\* Pipe::Create under mtx: pipe(), then the descriptors enter the list.
Create(c, s, after) ==
    LET t == Caller(c) IN
    \/ /\ mtx = None
       /\ mtx' = t
       /\ holds' = [holds EXCEPT !["host"] = @ \cup BothEnds(c, s)]
       /\ buf' = [buf EXCEPT ![c][s] = 0]
       /\ UNCHANGED <<loc, fdsForClose, open>>
    \/ /\ mtx = t
       /\ mtx' = None
       /\ fdsForClose' = fdsForClose \cup BothEnds(c, s)
       /\ open' = [open EXCEPT ![c] = @ \cup BothEnds(c, s)]
       /\ Goto(t, after)
       /\ UNCHANGED <<holds, buf>>

\* Pipe::Close under mtx: close(), then the descriptor leaves the list and the
\* member becomes -1.
Close(t, e, after) ==
    \/ /\ mtx = None
       /\ mtx' = t
       /\ holds' = [holds EXCEPT !["host"] = @ \ {e}]
       /\ UNCHANGED <<loc, fdsForClose, open>>
    \/ /\ mtx = t
       /\ mtx' = None
       /\ fdsForClose' = fdsForClose \ {e}
       /\ open' = [open EXCEPT ![t[1]] = @ \ {e}]
       /\ Goto(t, after)
       /\ UNCHANGED holds

-----------------------------------------------------------------------------
(* The calling thread.                                                     *)

Start(c) ==
    /\ loc[Caller(c)] = "idle"
    /\ calls < MaxCalls
    /\ calls' = calls + 1
    /\ \E q \in Programs, n \in Inputs \cup {0} :
          /\ q = "cat" => n \in Inputs
          /\ q = "emit" => n = 0
          /\ prog' = [prog EXCEPT ![c] = q]
          /\ input' = [input EXCEPT ![c] = n]
    /\ Goto(Caller(c), "createIn")
    /\ UNCHANGED <<written, got, result, alive, pipeVars, holds, childVars, buf>>

CreateIn(c) ==
    /\ loc[Caller(c)] = "createIn"
    /\ Create(c, "in", "createOut")
    /\ UNCHANGED <<prog, input, written, got, result, calls, alive, childVars>>

CreateOut(c) ==
    /\ loc[Caller(c)] = "createOut"
    /\ Create(c, "out", "fork")
    /\ UNCHANGED <<prog, input, written, got, result, calls, alive, childVars>>

\* pipe() or fork() fails: return false through the destructors.
GiveUp(c) ==
    /\ loc[Caller(c)] \in {"createIn", "createOut", "fork"}
    /\ mtx = None
    /\ result' = [result EXCEPT ![c] = "false"]
    /\ Goto(Caller(c), "dtor")
    /\ UNCHANGED <<prog, input, written, got, calls, alive, pipeVars, holds, childVars, buf>>

\* Mutant: fork() without mtx; the child has the lock as it was at that moment.
ForkUnlocked(c) ==
    /\ loc[Caller(c)] = "fork"
    /\ Goto(Caller(c), "closeInR")
    /\ child' = [child EXCEPT ![c] = "forked"]
    /\ holds' = [holds EXCEPT ![c] = holds["host"]]
    /\ childFds' = [childFds EXCEPT ![c] = fdsForClose]
    /\ childMtx' = [childMtx EXCEPT ![c] = mtx]
    /\ UNCHANGED <<prog, input, written, got, result, calls, alive, pipeVars, std, printed,
                   status, buf>>

\* fork() under mtx: the child copies descriptors and list.  Its copy of mtx is
\* held by the guard of the forking thread, which the child releases itself.
Fork(c) ==
    /\ loc[Caller(c)] = "fork"
    /\ mtx = None
    /\ Goto(Caller(c), "closeInR")
    /\ child' = [child EXCEPT ![c] = "forked"]
    /\ holds' = [holds EXCEPT ![c] = holds["host"]]
    /\ childFds' = [childFds EXCEPT ![c] = fdsForClose]
    /\ childMtx' = [childMtx EXCEPT ![c] = None]
    /\ UNCHANGED <<prog, input, written, got, result, calls, alive, pipeVars, std, printed,
                   status, buf>>

\* The parent closes the ends the child uses.
CloseUnused(c) ==
    /\ \/ loc[Caller(c)] = "closeInR" /\ Close(Caller(c), <<c, "in", "r">>, "closeOutW")
       \/ loc[Caller(c)] = "closeOutW" /\ Close(Caller(c), <<c, "out", "w">>, "spawn")
    /\ UNCHANGED <<prog, input, written, got, result, calls, alive, childVars, buf>>

SpawnWriter(c) ==
    /\ loc[Caller(c)] = "spawn"
    /\ loc' = [loc EXCEPT ![Caller(c)] = "read", ![Writer(c)] = "write"]
    /\ UNCHANGED <<prog, input, written, got, result, calls, alive, pipeVars, holds,
                   childVars, buf>>

\* Mutant: an empty pipe ends the output.
ReadUntilEmpty(c) ==
    /\ loc[Caller(c)] = "read"
    /\ \/ /\ buf[c]["out"] > 0
          /\ buf' = [buf EXCEPT ![c]["out"] = @ - 1]
          /\ got' = [got EXCEPT ![c] = @ + 1]
          /\ UNCHANGED loc
       \/ /\ buf[c]["out"] = 0
          /\ Goto(Caller(c), "closeOutR")
          /\ UNCHANGED <<buf, got>>
    /\ UNCHANGED <<prog, input, written, result, calls, alive, pipeVars, holds, childVars>>

\* Read: append what comes until end-of-file.
Read(c) ==
    /\ loc[Caller(c)] = "read"
    /\ \/ /\ buf[c]["out"] > 0
          /\ buf' = [buf EXCEPT ![c]["out"] = @ - 1]
          /\ got' = [got EXCEPT ![c] = @ + 1]
          /\ UNCHANGED loc
       \/ /\ buf[c]["out"] = 0
          /\ ~HasWriter(c, "out")
          /\ Goto(Caller(c), "closeOutR")
          /\ UNCHANGED <<buf, got>>
    /\ UNCHANGED <<prog, input, written, result, calls, alive, pipeVars, holds, childVars>>

CloseOutput(c) ==
    /\ loc[Caller(c)] = "closeOutR"
    /\ Close(Caller(c), <<c, "out", "r">>, "wait")
    /\ UNCHANGED <<prog, input, written, got, result, calls, alive, childVars, buf>>

\* waitpid() reaps the child.
WaitChild(c) ==
    /\ loc[Caller(c)] = "wait"
    /\ child[c] = "exited"
    /\ child' = [child EXCEPT ![c] = "none"]
    /\ Goto(Caller(c), "join")
    /\ UNCHANGED <<prog, input, written, got, result, calls, alive, pipeVars, holds, std,
                   childMtx, childFds, printed, status, buf>>

\* The writer is joined and the exit status decides what the call returns.
JoinWriter(c) ==
    /\ loc[Caller(c)] = "join"
    /\ loc[Writer(c)] = "ended"
    /\ loc' = [loc EXCEPT ![Caller(c)] = "dtor", ![Writer(c)] = "off"]
    /\ result' = [result EXCEPT ![c] = IF status[c] = 0 THEN "true" ELSE "false"]
    /\ UNCHANGED <<prog, input, written, got, calls, alive, pipeVars, holds, childVars, buf>>

\* The locals of a call that has returned are gone.
Forget(c) ==
    /\ prog' = [prog EXCEPT ![c] = "cat"]
    /\ input' = [input EXCEPT ![c] = 0]
    /\ written' = [written EXCEPT ![c] = 0]
    /\ got' = [got EXCEPT ![c] = 0]
    /\ result' = [result EXCEPT ![c] = "none"]
    /\ printed' = [printed EXCEPT ![c] = 0]
    /\ status' = [status EXCEPT ![c] = 0]

\* ~Pipe of pipeStdout and then of pipeStdin closes what is not -1.
Destructors(c) ==
    /\ loc[Caller(c)] = "dtor"
    /\ \/ \E e \in open[c] :
             /\ e[2] = "in" => \A f \in open[c] : f[2] = "in"
             /\ e[3] = "w" => \A f \in open[c] : f[2] = e[2] => f[3] = "w"
             /\ Close(Caller(c), e, "dtor")
             /\ UNCHANGED <<prog, input, written, got, result, printed, status>>
       \/ /\ open[c] = {}
          /\ Goto(Caller(c), "idle")
          /\ Forget(c)
          /\ UNCHANGED <<pipeVars, holds>>
    /\ UNCHANGED <<calls, alive, child, std, childMtx, childFds, buf>>

-----------------------------------------------------------------------------
(* The writer thread.                                                      *)

\* Write: put `input` in the pipe; write() of nothing ends the loop.  Without a
\* reader SIGPIPE, which nothing handles, kills the process.
Write(c) ==
    /\ loc[Writer(c)] = "write"
    /\ \/ /\ written[c] = input[c]
          /\ Goto(Writer(c), "closeInW")
          /\ UNCHANGED <<written, alive, holds, buf>>
       \/ /\ written[c] < input[c]
          /\ HasReader(c, "in")
          /\ buf[c]["in"] < Capacity
          /\ buf' = [buf EXCEPT ![c]["in"] = @ + 1]
          /\ written' = [written EXCEPT ![c] = @ + 1]
          /\ UNCHANGED <<loc, alive, holds>>
       \/ /\ written[c] < input[c]
          /\ ~HasReader(c, "in")
          /\ alive' = FALSE
          /\ holds' = [holds EXCEPT !["host"] = {}]
          /\ UNCHANGED <<loc, written, buf>>
    /\ UNCHANGED <<prog, input, got, result, calls, pipeVars, childVars>>

CloseInput(c) ==
    /\ loc[Writer(c)] = "closeInW"
    /\ Close(Writer(c), <<c, "in", "w">>, "ended")
    /\ UNCHANGED <<prog, input, written, got, result, calls, alive, childVars, buf>>

-----------------------------------------------------------------------------
(* The child.                                                              *)

ChildDup(c) ==
    /\ child[c] = "forked"
    /\ std' = [std EXCEPT ![c] = TRUE]
    /\ child' = [child EXCEPT ![c] = "duped"]
    /\ UNCHANGED <<hostVars, pipeVars, holds, childMtx, childFds, printed, status, buf>>

\* Pipe::Close of the four descriptors of the call, in the child's memory.
ChildCloseOwn(c) ==
    /\ child[c] = "duped"
    /\ childMtx[c] = None
    /\ holds' = [holds EXCEPT ![c] = @ \ OwnEnds(c)]
    /\ childFds' = [childFds EXCEPT ![c] = @ \ OwnEnds(c)]
    /\ child' = [child EXCEPT ![c] = "ownClosed"]
    /\ UNCHANGED <<hostVars, pipeVars, std, childMtx, printed, status, buf>>

\* Mutant: the child leaves the other calls' descriptors open.
ChildCloseNone(c) ==
    /\ child[c] = "ownClosed"
    /\ child' = [child EXCEPT ![c] = "allClosed"]
    /\ UNCHANGED <<hostVars, pipeVars, holds, std, childMtx, childFds, printed, status, buf>>

\* Pipe::CloseAll: whatever else the list of the child names.
ChildCloseAll(c) ==
    /\ child[c] = "ownClosed"
    /\ childMtx[c] = None
    /\ holds' = [holds EXCEPT ![c] = @ \ childFds[c]]
    /\ childFds' = [childFds EXCEPT ![c] = {}]
    /\ child' = [child EXCEPT ![c] = "allClosed"]
    /\ UNCHANGED <<hostVars, pipeVars, std, childMtx, printed, status, buf>>

\* The process ends and its descriptors are closed.
ChildExit(c, code) ==
    /\ child' = [child EXCEPT ![c] = "exited"]
    /\ status' = [status EXCEPT ![c] = code]
    /\ std' = [std EXCEPT ![c] = FALSE]
    /\ holds' = [holds EXCEPT ![c] = {}]

\* execvp() runs the program or returns, and then the child leaves with _exit.
ChildExec(c) ==
    /\ child[c] = "allClosed"
    /\ \/ child' = [child EXCEPT ![c] = "run"] /\ UNCHANGED <<status, std, holds>>
       \/ ChildExit(c, 1)
    /\ UNCHANGED <<hostVars, pipeVars, childMtx, childFds, printed, buf>>

\* A program that copies its input to its output until end-of-file.
CatCopies(c) ==
    /\ child[c] = "run"
    /\ prog[c] = "cat"
    /\ \/ /\ buf[c]["in"] > 0
          /\ buf[c]["out"] < Capacity
          /\ buf' = [buf EXCEPT ![c]["in"] = @ - 1, ![c]["out"] = @ + 1]
          /\ UNCHANGED <<child, status, std, holds>>
       \/ /\ buf[c]["in"] = 0
          /\ ~HasWriter(c, "in")
          /\ ChildExit(c, 0)
          /\ UNCHANGED buf
    /\ UNCHANGED <<hostVars, pipeVars, childMtx, childFds, printed>>

\* A program that prints Output units whatever its input, and succeeds or fails.
EmitPrints(c) ==
    /\ child[c] = "run"
    /\ prog[c] = "emit"
    /\ \/ /\ printed[c] < Output
          /\ buf[c]["out"] < Capacity
          /\ buf' = [buf EXCEPT ![c]["out"] = @ + 1]
          /\ printed' = [printed EXCEPT ![c] = @ + 1]
          /\ UNCHANGED <<child, status, std, holds>>
       \/ /\ printed[c] = Output
          /\ \E code \in {0, 1} : ChildExit(c, code)
          /\ UNCHANGED <<buf, printed>>
    /\ UNCHANGED <<hostVars, pipeVars, childMtx, childFds>>

-----------------------------------------------------------------------------

CallStep(c) ==
    /\ alive
    /\ \/ CreateIn(c) \/ CreateOut(c) \/ GiveUp(c) \/ Fork(c) \/ CloseUnused(c)
       \/ SpawnWriter(c) \/ Read(c) \/ CloseOutput(c) \/ WaitChild(c)
       \/ JoinWriter(c) \/ Destructors(c)

WriteStep(c) == alive /\ (Write(c) \/ CloseInput(c))

ChildStep(c) ==
    \/ ChildDup(c) \/ ChildCloseOwn(c) \/ ChildCloseAll(c) \/ ChildExec(c)
    \/ CatCopies(c) \/ EmitPrints(c)

Next ==
    \E c \in Callers : (alive /\ Start(c)) \/ CallStep(c) \/ WriteStep(c) \/ ChildStep(c)

Spec == Init /\ [][Next]_vars

\* Every thread and every child that can run does; nothing makes a thread call.
FairSpec ==
    Spec /\ \A c \in Callers : WF_vars(CallStep(c)) /\ WF_vars(WriteStep(c))
                               /\ WF_vars(ChildStep(c))

-----------------------------------------------------------------------------
(* Properties.                                                             *)

HostTypes ==
    /\ loc \in [Tasks -> Locations]
    /\ prog \in [Callers -> {"cat", "emit"}]
    /\ input \in [Callers -> Inputs \cup {0}]
    /\ written \in [Callers -> Nat]
    /\ \A c \in Callers : written[c] <= input[c]
    /\ got \in [Callers -> Nat]
    /\ result \in [Callers -> {"none", "true", "false"}]
    /\ calls \in 0..MaxCalls
    /\ alive \in BOOLEAN

PipeTypes ==
    /\ mtx \in Tasks \cup {None}
    /\ fdsForClose \subseteq Ends
    /\ open \in [Callers -> SUBSET Ends]
    /\ holds \in [Procs -> SUBSET Ends]
    /\ buf \in [Callers -> [{"in", "out"} -> 0..Capacity]]

ChildTypes ==
    /\ child \in [Callers -> ChildLocations]
    /\ std \in [Callers -> BOOLEAN]
    /\ childMtx \in [Callers -> Tasks \cup {None}]
    /\ childFds \in [Callers -> SUBSET Ends]
    /\ printed \in [Callers -> 0..Output]
    /\ status \in [Callers -> {0, 1}]

TypeOK == HostTypes /\ PipeTypes /\ ChildTypes

\* "这些描述符都应该在子进程中关闭": a command runs with no pipe descriptor but its own
\* stdin and stdout, whatever the other threads had open when it was forked.
CommandHoldsNoOtherEnd ==
    \A c \in Callers : child[c] \in {"allClosed", "run"} => holds[c] = {}

\* Pipe::Close erases what std::find returns without looking at it: the descriptor
\* must be in the list whenever it is called, in the parent and in the child.
CloseFindsItsFd ==
    /\ \A c \in Callers, s \in {"in", "out"}, x \in {"r", "w"} :
          <<c, s, x>> \in open[c] => <<c, s, x>> \in fdsForClose
    /\ \A c \in Callers : child[c] \in {"forked", "duped"} => OwnEnds(c) \subseteq childFds[c]

\* No descriptor of a finished call is left in the process or in the list.
NoDescriptorLeft ==
    alive /\ mtx = None /\ (\A c \in Callers : loc[Caller(c)] = "idle")
        => fdsForClose = {} /\ holds["host"] = {}

\* A call that returns true has read everything the command printed.
OutputWhole ==
    \A c \in Callers :
        result[c] = "true" => got[c] = IF prog[c] = "cat" THEN input[c] ELSE Output

\* Each process has the pipe ends that are its own business, and the list names
\* them (Pipe::Create, Close, CloseAll).
PipesSound == TypeOK /\ CommandHoldsNoOtherEnd /\ CloseFindsItsFd

\* A call leaves no descriptor behind and delivers all of the output (PipeCall,
\* Read, ~Pipe).
CallEndsClean == NoDescriptorLeft /\ OutputWhole

\* Every call returns, unless SIGPIPE ends the process: no thread waits for an
\* end-of-file that a sibling's child holds back.
CallsReturn ==
    \A c \in Callers : loc[Caller(c)] # "idle" ~> (loc[Caller(c)] = "idle" \/ ~alive)
=============================================================================
