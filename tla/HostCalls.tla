----------------------------- MODULE HostCalls -----------------------------
(***************************************************************************)
(* The runtime calls of an application running under one of the tools.     *)
(*                                                                         *)
(* Threads call the functions the tool replaces (HookTable).  A call       *)
(* enters through its binding, runs its hook or, when a call above it      *)
(* stands for it, goes straight to the library; the library may itself     *)
(* call replaced functions, and so may a hook, through the *Origin         *)
(* functions.  The hooks keep the tool's tables and tell the tool process  *)
(* what happened, so the state has four sides: what the runtime did (rt),  *)
(* what the process wrote down (tab), what the tool was told (told) and    *)
(* what the application was answered (app).                                *)
(*                                                                         *)
(* The application is well behaved: it frees what it was given, once, and  *)
(* closes a key through the interface that opened it.  Blocks are not      *)
(* peer-to-peer and the profiler replays kernels, so that allocations are  *)
(* kept.  Releases succeed (DeviceMemory has the ones that fail).          *)
(***************************************************************************)
EXTENDS HookTable, Naturals, FiniteSets, SequencesExt

CONSTANTS
    Threads,        \* threads of the application
    Devices,        \* device numbers
    Addrs,          \* device addresses
    Keys,           \* keys of blocks shared between processes
    MaxCalls,       \* bound: calls the application makes
    None,           \* no address, device or answer
    LibraryCalls    \* the replaced functions the library may call in each function

ASSUME HostCallsAssumption ==
    /\ Devices \subseteq Nat /\ 0 \in Devices
    /\ MaxCalls \in Nat
    /\ DOMAIN LibraryCalls \subseteq DOMAIN HookOf
    /\ \A f \in DOMAIN LibraryCalls :
          LibraryCalls[f] \subseteq DOMAIN HookOf \ DOMAIN LibraryCalls

VARIABLES
    tool,       \* which library was preloaded: "sanitizer", "opprof", "simulator"
    family,     \* the functions the application uses: "memory", "device", "ipc", "comm"
    stack,      \* calls in progress of each thread, innermost last
    layers,     \* HijackedLayerManager::layers_ of each thread, innermost first
    left,       \* calls the application may still make
    rt,         \* the runtime: live blocks, current devices, peers, keys
    tab,        \* the process's tables
    told,       \* what the records sent so far say
    app,        \* what the application holds
    reports,    \* functions that sent a record in the thread's current call
    past        \* what happened that a table is allowed to be wrong about

vars == <<tool, family, stack, layers, left, rt, tab, told, app, reports, past>>

Tools == {"sanitizer", "opprof", "simulator"}
OpsOf == [memory |-> {"alloc", "free", "map", "unmap", "access"},
          device |-> {"setDevice", "reset", "enable", "disable", "context", "status",
                      "query"},
          ipc |-> {"export", "import", "close", "unmapKey", "destroyKey"},
          comm |-> {"comm"}]
Peers == {p \in Devices \X Devices : p[1] # p[2]}

Bound == Binding(IF tool = "sanitizer" THEN "sanitizer" ELSE "opprof")
Originals == Registered(IF tool = "sanitizer" THEN "sanitizer" ELSE "opprof")
Exports == {f \in DOMAIN HookOf \cap DOMAIN Bound : HookOf[f].op \in OpsOf[family]}

Top(t) == stack[t][Len(stack[t])]
Outer(t) == stack[t][1]
SetTop(t, f) == stack' = [stack EXCEPT ![t][Len(stack[t])] = f]
Pushed(t, f) == stack' = [stack EXCEPT ![t] = Append(@, f)]
Doing(t, step) == stack[t] # <<>> /\ Top(t).todo # <<>> /\ Head(Top(t).todo) = step
Done(f) == [f EXCEPT !.todo = Tail(@)]
Op(f) == HookOf[f.fn].op
Idle == \A t \in Threads : stack[t] = <<>>

Init ==
    /\ tool \in Tools
    /\ family \in DOMAIN OpsOf
    /\ tool # "sanitizer" => family # "ipc"
    /\ family = "comm" => tool = "opprof"
    /\ tool = "simulator" => family = "device"
    /\ stack = [t \in Threads |-> <<>>]
    /\ layers = [t \in Threads |-> <<>>]
    /\ left = MaxCalls
    /\ \E cur \in [Threads -> IF family = "memory" THEN Devices ELSE {0}] :
          rt = [live |-> {}, current |-> cur, given |-> {}, peers |-> {},
                shared |-> {}, opened |-> [k \in Keys |-> None],
                buffer |-> [t \in Threads |-> tool = "sanitizer" /\ family = "device"]]
    /\ tab = [cached |-> [d \in Devices |-> {}],      \* pairs <<address, source>>
              kept |-> {},
              devId |-> [d \in Devices |-> 0], used |-> {}, relations |-> {},
              ipc |-> [k \in Keys |-> <<>>], comm |-> None]
    /\ told = [known |-> {}, summary |-> {}, peers |-> {}, shared |-> {}, opened |-> {}]
    /\ app = [mine |-> [a \in Addrs |-> None], keys |-> [k \in Keys |-> <<>>]]
    /\ reports = [t \in Threads |-> {}]
    /\ past = {}

-----------------------------------------------------------------------------
(* Entering a function through its binding. *)

\* Mutant: the layers are shared by the threads.
MaskedByAny(t, f) ==
    /\ Bound[f] = "masked"
    /\ \E u \in Threads : \E i \in DOMAIN layers[u] :
          layers[u][i] \in DOMAIN AclToRuntime /\ f \in AclToRuntime[layers[u][i]]

\* A call in the thread that stands for f (ParentInCallStack), however deep.
Masked(t, f) ==
    /\ Bound[f] = "masked"
    /\ \E i \in DOMAIN layers[t] :
          layers[t][i] \in DOMAIN AclToRuntime /\ f \in AclToRuntime[layers[t][i]]

\* The sanitizer runs the hook of a set-device call once per device; the device
\* is marked before the library was asked (IsDevIdUsed).
Counted(f) == tool = "sanitizer" /\ HookOf[f].op = "setDevice"

\* Steps of a hook the running tool takes part in.
Steps(f) ==
    LET mine == CASE tool = "sanitizer" -> {"cache", "tell", "summary", "release"}
                  [] tool = "opprof"    -> {"keep", "comm"}
                  [] tool = "simulator" -> {"answer", "recall"}
    IN  SelectSeq(HookOf[f].steps, LAMBDA s : s \in mine \cup {"lib", "store", "local"})

\* The frame of function f called with argument a.
Frame(f, hooked, todo, a, aux) ==
    [fn |-> f, hooked |-> hooked, todo |-> todo, arg |-> a, aux |-> aux, ok |-> TRUE,
     guard |-> FALSE]

\* The exported function: mask, device already used, guard, hook.
Enter(t, f, a, aux) ==
    LET masked == Masked(t, f)
        known  == Counted(f) /\ ~masked /\ a \in tab.used
        hooked == ~masked /\ ~known
    IN  /\ Pushed(t, [Frame(f, hooked, IF hooked THEN Steps(f) ELSE <<"lib">>, a, aux)
                        EXCEPT !.guard = (Bound[f] = "layered")])
        /\ layers' = IF Bound[f] = "layered" THEN [layers EXCEPT ![t] = <<f>> \o @] ELSE layers
        /\ tab' = IF Counted(f) /\ ~masked THEN [tab EXCEPT !.used = @ \cup {a}] ELSE tab

\* A hook calls the library for itself through an *Origin function: a layer of
\* its own, and no hook.
Origin(t, f, a) ==
    /\ Pushed(t, [Frame(f, FALSE, <<"lib">>, a, None) EXCEPT !.guard = (f \in LayeredOrigins)])
    /\ layers' = IF f \in LayeredOrigins THEN [layers EXCEPT ![t] = <<f>> \o @] ELSE layers

-----------------------------------------------------------------------------
(* The application. *)

\* What the application may pass to f, and how it hands that over.
Arguments(f) ==
    LET op == HookOf[f].op
        busy == {stack[t][1].arg : t \in {u \in Threads : stack[u] # <<>>}}
    IN  CASE op \in {"alloc", "comm"} -> {None}
          [] op \in {"free", "access"} -> {a \in Addrs \ busy : app.mine[a] = "block"}
          [] op = "map" -> {a \in Addrs \ (busy \cup rt.live) : app.mine[a] = None}
          [] op = "unmap" -> {a \in Addrs \ busy : app.mine[a] = "mapped"}
          [] op \in OpsOf.device -> Devices
          [] op \in {"export", "import"} -> {k \in Keys \ busy : app.keys[k] = <<>>}
          [] op = "destroyKey" -> {k \in Keys \ busy : app.keys[k] = <<"shared", "rt">>}
          [] op = "unmapKey" -> {k \in Keys \ busy : app.keys[k] = <<"opened", "rt">>}
          [] op = "close" -> {k \in Keys \ busy : app.keys[k] \in {<<"shared", "acl">>,
                                                                   <<"opened", "acl">>}}

\* What goes with the argument: the address an opened key is mapped at (before
\* the library set it, whatever the variable held), else the current device.
Beside(t, f, a) ==
    CASE HookOf[f].op = "import" -> Addrs
      [] HookOf[f].op = "unmapKey" -> {rt.opened[a]}
      [] OTHER -> {rt.current[t]}

Call(t) ==
    /\ stack[t] = <<>> /\ left > 0
    /\ left' = left - 1
    /\ \E f \in Exports : \E a \in Arguments(f) : \E aux \in Beside(t, f, a) :
          /\ HookOf[f].op \in {"enable", "disable"} => a # rt.current[t]
          /\ Enter(t, f, a, aux)
          /\ app' = IF HookOf[f].op \in {"free", "unmap"}
                    THEN [app EXCEPT !.mine[a] = None] ELSE app
    /\ UNCHANGED <<tool, family, rt, told, reports, past>>

-----------------------------------------------------------------------------
(* The library. *)

\* The replaced functions the library may call in f, whether or not the table of
\* the layers lists them there.
Reaches(f) == IF f \in DOMAIN LibraryCalls THEN LibraryCalls[f] \cap DOMAIN Bound ELSE {}

\* The library calls a function the tool replaces, with the same argument.
LibraryCall(t) ==
    /\ Doing(t, "lib")
    /\ \E g \in Reaches(Top(t).fn) :
          /\ Op(Top(t)) = "close" =>
                (g = "rtIpcCloseMemory") = (app.keys[Top(t).arg][1] = "opened")
          /\ \E aux \in IF HookOf[g].op = "import" THEN {Top(t).aux}
                        ELSE Beside(t, g, Top(t).arg) :
                Enter(t, g, Top(t).arg, aux)
    /\ UNCHANGED <<tool, family, left, rt, told, app, reports, past>>

\* The rest of a hook once the library's function returned ok.  A failure ends
\* a hook that needs success, and never keeps a block.
AfterLib(f, ok) ==
    LET rest == Tail(f.todo)
    IN  [f EXCEPT !.ok = ok,
                  !.todo = IF ok THEN rest
                           ELSE IF HookOf[f.fn].onOk THEN <<>>
                           ELSE SelectSeq(rest, LAMBDA s : s # "keep")]

\* The device number the library is given: the simulator has one device.
Given(f) == IF tool = "simulator" /\ f.hooked THEN 0 ELSE f.arg

\* A thread whose calls are all below a hooked one hands down what that hook gave.
Handed(t) ==
    LET hooks == {i \in DOMAIN stack[t] : stack[t][i].hooked}
    IN  IF hooks = {} THEN Top(t).arg
        ELSE Given(stack[t][CHOOSE i \in hooks : \A j \in hooks : j <= i])

\* What a function does in the runtime when it succeeds.
Effect(t) ==
    LET f == Top(t)
        op == Op(f)
        d == Handed(t)
        cur == rt.current[t]
    IN  CASE op = "free" /\ f.arg = None -> [rt EXCEPT !.buffer[t] = FALSE]
          [] op \in {"free", "unmap"} /\ f.arg # None -> [rt EXCEPT !.live = @ \ {f.arg}]
          [] op = "map" -> [rt EXCEPT !.live = @ \cup {f.arg}]
          [] op = "setDevice" -> [rt EXCEPT !.current[t] = d, !.given = @ \cup {d}]
          [] op \in {"context", "status"} -> [rt EXCEPT !.given = @ \cup {d}]
          [] op = "reset" -> [rt EXCEPT !.given = @ \cup {d},
                                        !.peers = {p \in @ : d \notin {p[1], p[2]}}]
          [] op = "enable" -> [rt EXCEPT !.peers = @ \cup {<<cur, f.arg>>}]
          [] op = "disable" -> [rt EXCEPT !.peers = @ \ {<<cur, f.arg>>}]
          [] op = "export" -> [rt EXCEPT !.shared = @ \cup {f.arg}]
          [] op = "destroyKey" -> [rt EXCEPT !.shared = @ \ {f.arg}]
          [] op = "unmapKey" -> [rt EXCEPT !.opened[f.arg] = None]
          [] op = "close" -> [rt EXCEPT !.shared = @ \ {f.arg}, !.opened[f.arg] = None]
          [] OTHER -> rt

MayFail == {"alloc", "map", "setDevice", "reset", "enable", "export", "import",
            "unmapKey", "destroyKey", "comm"}

\* What a failure lets the tables be wrong about.
Failing(t) ==
    LET f == Outer(t) IN
    CASE f.fn = "rtMapMem" -> {<<"phantom", f.arg>>}
      [] Op(f) = "setDevice" -> {<<"unset", f.arg>>}
      [] Op(f) \in {"import", "close"} /\ Bound[f.fn] = "layered" -> {<<"doubted", f.arg>>}
      [] OTHER -> {}

\* Addresses the application set aside for a mapping it is making.
Reserved == {Outer(t).arg : t \in {u \in Threads : stack[u] # <<>> /\ Op(Outer(u)) = "map"}}

\* The hook found no original to call: it answers an error and is done.
Missing(t) ==
    /\ Doing(t, "lib")
    /\ Top(t).fn \notin Originals
    /\ SetTop(t, [Top(t) EXCEPT !.todo = <<>>, !.ok = FALSE])
    /\ past' = past \cup {<<"missing", Top(t).fn>>}
    /\ UNCHANGED <<tool, family, layers, left, rt, tab, told, app, reports>>

\* The function itself runs in the library.
Library(t) ==
    /\ Doing(t, "lib")
    /\ Top(t).fn \in Originals
    /\ \/ /\ Op(Top(t)) \notin {"alloc", "import"}
          /\ rt' = Effect(t)
          /\ SetTop(t, AfterLib(Top(t), TRUE))
          /\ UNCHANGED past
       \/ /\ Op(Top(t)) = "alloc"
          /\ \E a \in Addrs \ (rt.live \cup Reserved) :
                /\ rt' = [rt EXCEPT !.live = @ \cup {a}]
                /\ SetTop(t, [AfterLib(Top(t), TRUE) EXCEPT !.arg = a])
          /\ UNCHANGED past
       \/ /\ Op(Top(t)) = "import"
          /\ \E a \in Addrs :
                /\ \A k \in Keys : rt.opened[k] # a
                /\ rt' = [rt EXCEPT !.opened[Top(t).arg] = a]
                /\ SetTop(t, [AfterLib(Top(t), TRUE) EXCEPT !.aux = a])
                /\ past' = IF a \in told.opened THEN past \cup {<<"reused">>} ELSE past
       \/ /\ Op(Top(t)) \in MayFail
          /\ SetTop(t, AfterLib(Top(t), FALSE))
          /\ past' = past \cup Failing(t)
          /\ UNCHANGED rt
    /\ UNCHANGED <<tool, family, layers, left, tab, told, app, reports>>

\* A function returns to its caller: the guard goes, the library's function that
\* called it has ended, and the application has its answer.
Answered(t) ==
    LET f == Outer(t)
        api == IF Bound[f.fn] = "masked" THEN "rt" ELSE "acl"
    IN  CASE Op(f) = "alloc" /\ f.ok -> [app EXCEPT !.mine[f.arg] = "block"]
          [] Op(f) = "map" /\ f.ok -> [app EXCEPT !.mine[f.arg] = "mapped"]
          [] Op(f) = "export" /\ f.ok -> [app EXCEPT !.keys[f.arg] = <<"shared", api>>]
          [] Op(f) = "import" /\ f.ok -> [app EXCEPT !.keys[f.arg] = <<"opened", api>>]
          [] Op(f) \in {"close", "unmapKey", "destroyKey"} /\ f.ok ->
                [app EXCEPT !.keys[f.arg] = <<>>]
          [] OTHER -> app

Return(t) ==
    /\ stack[t] # <<>> /\ Top(t).todo = <<>>
    /\ layers' = IF Top(t).guard THEN [layers EXCEPT ![t] = Tail(@)] ELSE layers
    /\ IF Len(stack[t]) = 1
       THEN /\ stack' = [stack EXCEPT ![t] = <<>>]
            /\ app' = Answered(t)
            /\ reports' = [reports EXCEPT ![t] = {}]
       ELSE LET f == Top(t)
                rest == Front(stack[t])
                up == Last(rest)
            IN  /\ stack' = [stack EXCEPT ![t] = Append(Front(rest),
                       IF Head(up.todo) # "lib" THEN Done(up)
                       ELSE [AfterLib(up, f.ok) EXCEPT !.arg = f.arg, !.aux = f.aux])]
                /\ UNCHANGED <<app, reports>>
    /\ UNCHANGED <<tool, family, left, rt, tab, told, past>>

-----------------------------------------------------------------------------
(* The steps of the hooks. *)

\* Mutant: a reset drops only the access the device has.
ApplyResetHalf(relations, f) ==
    CASE Op(f) = "enable" -> relations \cup {<<f.aux, f.arg>>}
      [] Op(f) = "disable" -> relations \ {<<f.aux, f.arg>>}
      [] Op(f) = "reset" -> {p \in relations : f.arg # p[1]}

\* PeerAccessState::Apply.
Apply(relations, f) ==
    CASE Op(f) = "enable" -> relations \cup {<<f.aux, f.arg>>}
      [] Op(f) = "disable" -> relations \ {<<f.aux, f.arg>>}
      [] Op(f) = "reset" -> {p \in relations : f.arg \notin {p[1], p[2]}}

\* The entries of the address of f in the table of device d.
Entries(f, d) == {e \in tab.cached[d] : e[1] = f.arg}

\* MemInfoSrc: the sources count as the same in a search, but not in the key.
Source(f) == IF f.fn \in {"rtMalloc", "rtFree"} THEN "RT" ELSE "ACL"

\* CacheMemory, PeerAccessState and IPCMemManager's map.  Ranges are kept
\* under the device current in the calling thread; a release takes the one
\* entry of the address that sorts first (gone: by lengths, left open here); a
\* key's first entry stays.
Cached(t, gone) ==
    LET f == Top(t)
        d == rt.current[t]
    IN  CASE Op(f) = "alloc" -> [tab EXCEPT !.cached[d] = @ \cup {<<f.arg, Source(f)>>}]
          [] Op(f) = "free" -> [tab EXCEPT !.cached[d] = @ \ gone]
          [] Op(f) \in {"enable", "disable", "reset"} ->
                [tab EXCEPT !.relations = Apply(@, f)]
          [] Op(f) = "export" ->
                [tab EXCEPT !.ipc[f.arg] = IF @ = <<>> THEN <<"sharer", f.aux>> ELSE @]
          [] Op(f) = "import" ->
                [tab EXCEPT !.ipc[f.arg] = IF @ = <<>> THEN <<"sharee", f.aux>> ELSE @]
          [] Op(f) = "close" -> [tab EXCEPT !.ipc[f.arg] = <<>>]

\* A block freed while another device is current, a block entered twice, and
\* two changes of the peers that overlap, are what the tables may be wrong about
\* afterwards.
Noted(t) ==
    LET f == Top(t) IN
    CASE Op(f) = "free" ->
            {<<"across", f.arg>> : d \in {e \in Devices \ {rt.current[t]} : Entries(f, e) # {}}}
      [] Op(f) = "alloc" /\ Entries(f, rt.current[t]) # {} -> {<<"twice", f.arg>>}
      [] Op(f) \in {"enable", "disable", "reset"} ->
            {<<"raced">> : u \in {v \in Threads \ {t} : stack[v] # <<>> /\
                                     Op(Outer(v)) \in {"enable", "disable", "reset"}}}
      [] OTHER -> {}

Cache(t) ==
    /\ Doing(t, "cache")
    /\ LET entries == Entries(Top(t), rt.current[t])
       IN \E gone \in SUBSET entries :
             /\ Cardinality(gone) = (IF Op(Top(t)) = "free" /\ entries # {} THEN 1 ELSE 0)
             /\ tab' = Cached(t, gone)
    /\ past' = past \cup Noted(t)
    /\ SetTop(t, IF Op(Top(t)) # "close" THEN Done(Top(t))
                 ELSE IF tab.ipc[Top(t).arg] = <<>> THEN [Top(t) EXCEPT !.todo = <<>>]
                 ELSE [Done(Top(t)) EXCEPT !.aux = tab.ipc[Top(t).arg]])
    /\ UNCHANGED <<tool, family, layers, left, rt, told, app, reports>>

\* Closing a key takes back a share or a mapping, as the key's entry says.
Closing(f) ==
    IF f.aux[1] = "sharer" THEN [told EXCEPT !.shared = @ \ {f.arg}]
    ELSE [told EXCEPT !.opened = @ \ {f.aux[2]}]

\* The record a hook sends, as what the tool then believes.
Believed(f) ==
    CASE Op(f) \in {"alloc", "map"} -> [told EXCEPT !.known = @ \cup {f.arg}]
      [] Op(f) \in {"free", "unmap"} -> [told EXCEPT !.known = @ \ {f.arg}]
      [] Op(f) \in {"enable", "disable", "reset"} -> [told EXCEPT !.peers = Apply(@, f)]
      [] Op(f) = "export" -> [told EXCEPT !.shared = @ \cup {f.arg}]
      [] Op(f) = "import" -> [told EXCEPT !.opened = @ \cup {f.aux}]
      [] Op(f) = "destroyKey" -> [told EXCEPT !.shared = @ \ {f.arg}]
      [] Op(f) = "unmapKey" -> [told EXCEPT !.opened = @ \ {f.aux}]
      [] Op(f) = "close" -> Closing(f)
      [] OTHER -> told

Tell(t) ==
    /\ Doing(t, "tell")
    /\ told' = Believed(Top(t))
    /\ reports' = [reports EXCEPT ![t] = @ \cup {Len(stack[t])}]
    /\ SetTop(t, Done(Top(t)))
    /\ UNCHANGED <<tool, family, layers, left, rt, tab, app, past>>

Summary(t) ==
    /\ Doing(t, "summary")
    /\ told' = [told EXCEPT !.summary = @ \cup {Top(t).arg}]
    /\ reports' = [reports EXCEPT ![t] = @ \cup {Len(stack[t])}]
    /\ SetTop(t, Done(Top(t)))
    /\ UNCHANGED <<tool, family, layers, left, rt, tab, app, past>>

\* Mutant: an unmapped block stays in the list.
KeepMapped(t) ==
    /\ Doing(t, "keep")
    /\ tab' = [tab EXCEPT !.kept = IF Op(Top(t)) # "free" THEN @ \cup {Top(t).arg}
                                   ELSE @ \ {Top(t).arg}]
    /\ SetTop(t, Done(Top(t)))
    /\ UNCHANGED <<tool, family, layers, left, rt, told, app, reports, past>>

\* MemoryContext::Append and Discard.
Keep(t) ==
    /\ Doing(t, "keep")
    /\ tab' = [tab EXCEPT !.kept = IF Op(Top(t)) \in {"alloc", "map"} THEN @ \cup {Top(t).arg}
                                   ELSE @ \ {Top(t).arg}]
    /\ SetTop(t, Done(Top(t)))
    /\ UNCHANGED <<tool, family, layers, left, rt, told, app, reports, past>>

\* KernelContext::SetHcclComm.
Comm(t) ==
    /\ Doing(t, "comm")
    /\ tab' = [tab EXCEPT !.comm = IF Top(t).ok THEN "made" ELSE "unmade"]
    /\ SetTop(t, Done(Top(t)))
    /\ UNCHANGED <<tool, family, layers, left, rt, told, app, reports, past>>

\* DeviceContext::Instance(devId).SetDeviceId(devId).
Store(t) ==
    /\ Doing(t, "store")
    /\ tab' = [tab EXCEPT !.devId[Top(t).arg] = Top(t).arg]
    /\ SetTop(t, Done(Top(t)))
    /\ UNCHANGED <<tool, family, layers, left, rt, told, app, reports, past>>

\* DeviceContext::Local().SetDeviceId(devId): the context of the device current
\* before the call.  aclrtCreateContext notes the number it gave the library.
Local(t) ==
    /\ Doing(t, "local")
    /\ tab' = [tab EXCEPT !.devId[rt.current[t]] =
                  IF Top(t).fn = "aclrtCreateContextImpl" THEN Given(Top(t)) ELSE Top(t).arg]
    /\ past' = past \cup {<<"local", rt.current[t]>>, <<"local", Top(t).arg>>}
    /\ SetTop(t, Done(Top(t)))
    /\ UNCHANGED <<tool, family, layers, left, rt, told, app, reports>>

\* DevMemManager::Free: the thread's own buffer goes through aclrtFreeImplOrigin.
Release(t) ==
    /\ Doing(t, "release")
    /\ IF rt.buffer[t] THEN Origin(t, "aclrtFreeImpl", None)
       ELSE SetTop(t, Done(Top(t))) /\ UNCHANGED layers
    /\ UNCHANGED <<tool, family, left, rt, tab, told, app, reports, past>>

\* The simulator's hooks that answer themselves when they know the answer.
Answer(t) ==
    /\ Doing(t, "answer")
    /\ \/ SetTop(t, [Top(t) EXCEPT !.todo = <<>>])
       \/ SetTop(t, Done(Top(t)))
    /\ UNCHANGED <<tool, family, layers, left, rt, tab, told, app, reports, past>>

\* Finding the thread's context asks the library for the current device.
Recall(t) ==
    /\ Doing(t, "recall")
    /\ Origin(t, "aclrtGetDeviceImpl", None)
    /\ UNCHANGED <<tool, family, left, rt, tab, told, app, reports, past>>

-----------------------------------------------------------------------------

Step(t) ==
    \/ Call(t) \/ LibraryCall(t) \/ Library(t) \/ Missing(t) \/ Return(t)
    \/ Cache(t) \/ Tell(t) \/ Summary(t) \/ Keep(t) \/ Comm(t)
    \/ Store(t) \/ Local(t) \/ Release(t) \/ Answer(t) \/ Recall(t)

Next == \E t \in Threads : Step(t)

Spec == Init /\ [][Next]_vars

-----------------------------------------------------------------------------
(* Properties. *)

\* Type of the state; a thread is never more than six calls deep.
TypeOK ==
    /\ tool \in Tools /\ family \in DOMAIN OpsOf /\ left \in 0..MaxCalls
    /\ \A t \in Threads :
          /\ Len(stack[t]) <= 6
          /\ \A i \in DOMAIN stack[t] : stack[t][i].fn \in DOMAIN HookOf
          /\ Len(layers[t]) = Cardinality({i \in DOMAIN stack[t] : stack[t][i].guard})
    /\ rt.live \subseteq Addrs /\ rt.peers \subseteq Peers /\ rt.shared \subseteq Keys
    /\ rt.current \in [Threads -> Devices] /\ rt.given \subseteq Devices
    /\ tab.cached \in [Devices -> SUBSET (Addrs \X {"RT", "ACL"})] /\ tab.kept \subseteq Addrs
    /\ tab.comm \in {None, "made", "unmade"}
    /\ tab.devId \in [Devices -> Devices] /\ tab.used \subseteq Devices
    /\ told.known \subseteq Addrs /\ told.summary \subseteq Devices
    /\ told.shared \subseteq Keys /\ told.opened \subseteq Addrs

\* The replaced functions the library may call in fn without the table of the
\* layers listing them there.
Unlisted(fn) == Reaches(fn) \ (IF fn \in DOMAIN AclToRuntime THEN AclToRuntime[fn] ELSE {})

\* One call of the application is reported once: only its outermost function
\* sends records, however the library and the tool itself call each other inside
\* it, and a call that succeeded has sent its record (HijackedLayerManager,
\* bindings).  What the library calls in a function without being listed for it
\* is reported once more, one call further in and no deeper.  The other
\* exceptions are the set-device calls of a device already used and the second
\* close of a key whose first close failed.
ReportedOnce ==
    \A t \in Threads : stack[t] # <<>> =>
       LET f == Outer(t)
       IN  /\ reports[t] \subseteq (IF Unlisted(f.fn) = {} THEN {1} ELSE {1, 2})
           /\ (tool = "sanitizer" /\ f.todo = <<>> /\ f.ok) =>
                 \/ 1 \in reports[t]
                 \/ Op(f) = "setDevice" /\ ~f.hooked
                 \/ Op(f) = "close" /\ <<"doubted", f.arg>> \in past

\* Between calls the tool and the tables agree with the runtime about device
\* memory.  The tool may know a block that does not exist only when rtMapMem
\* failed, the range table may keep one only when it was freed under another
\* device or had been entered twice, once for each source (a malloc of one source
\* inside one of the other that the layers do not mask), and the profiler's
\* backup list is exact (the malloc, free, map and unmap hooks of both
\* interfaces).
MemoryViewsAgree ==
    (Idle /\ family = "memory") =>
       /\ tool = "sanitizer" =>
             /\ rt.live \subseteq told.known
             /\ \A a \in told.known \ rt.live : <<"phantom", a>> \in past
             /\ \A e \in UNION {tab.cached[d] : d \in Devices} :
                   e[1] \in rt.live \/ {<<"across", e[1]>>, <<"twice", e[1]>>} \cap past # {}
             /\ \A a \in Addrs : app.mine[a] = "block" =>
                   \E d \in Devices, src \in {"RT", "ACL"} : <<a, src>> \in tab.cached[d]
       /\ tool = "opprof" => tab.kept = rt.live

\* Between calls the peer relations of the process and of the tool are those of
\* the runtime, unless two calls that change them overlapped: each hook applies
\* and sends its change after the library's (PeerAccessState, the peer and reset
\* hooks).
PeersAgree ==
    (Idle /\ tool = "sanitizer" /\ <<"raced">> \notin past) =>
       tab.relations = rt.peers /\ told.peers = rt.peers

\* Between calls the tool has been told of every device that was set, and the
\* context of a thread's device carries that device's number, unless setting
\* the device once failed or a call wrote through the context current before
\* it (IsDevIdUsed, DeviceContext, the set-device and context hooks).  In the
\* simulator the library is only ever given device 0.
DevicesAgree ==
    /\ tool = "simulator" => rt.given \subseteq {0}
    /\ (Idle /\ family = "device" /\ tool # "simulator") =>
       /\ tool = "sanitizer" =>
             \A d \in rt.given : d \in told.summary \/ <<"unset", d>> \in past
       /\ \A t \in Threads :
             LET d == rt.current[t] IN
             tab.devId[d] = d \/ <<"unset", d>> \in past \/ <<"local", d>> \in past

\* Between calls the tool believes exactly the shares that exist and the keys
\* that are open, at their addresses.  Two things excuse a difference: an acl
\* import or close that failed (those hooks write and tell whatever the library
\* answered), and an address opened again before its closing was told (the
\* hooks tell after the library released it).
SharesAgree ==
    (Idle /\ family = "ipc" /\ <<"reused">> \notin past
          /\ ~\E k \in Keys : <<"doubted", k>> \in past) =>
       /\ told.shared = rt.shared
       /\ told.opened = {rt.opened[k] : k \in Keys} \ {None}

\* A replaced function reaches the library's own (FunctionLoader::Get,
\* HijackedFunc::Call, the constructors of BindSanitizer.cpp and BindOpprof.cpp).
\* Two are exported by the profiler without their originals being registered.
EveryHookReachesLibrary ==
    \A p \in past : p[1] = "missing" =>
        tool = "opprof" /\ p[2] \in {"HcclCommInitClusterInfo", "HcclCommInitClusterInfoConfig"}

\* Every call is reported once and reaches the library.
CallsReported == TypeOK /\ ReportedOnce /\ EveryHookReachesLibrary

\* Tool and tables agree with the runtime about memory, owned and shared ...
ViewsAgree == MemoryViewsAgree /\ SharesAgree

\* ... and about devices and who of them may reach whom.
DeviceViewsAgree == PeersAgree /\ DevicesAgree
=============================================================================
