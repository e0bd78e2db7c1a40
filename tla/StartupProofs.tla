--------------------------- MODULE StartupProofs ----------------------------
(***************************************************************************)
(* The properties of Startup for any number of hooks.  The invariant says, *)
(* step by step, what the process holds that LoadedProbes does not know of *)
(* (Ownership), what LoadedProbes knows (Known), and how far the hooks     *)
(* have come (Progress).                                                   *)
(***************************************************************************)
EXTENDS Startup, TLAPS

Monitor == Object("monitor")
Xdp     == Object("xdp")

(* From one step to the next of LoadAndAttach and of Close.                 *)
Ownership ==
  /\ pc \in {"attach", "trace reader", "interface", "xdp object", "start", "running",
             "close readers", "exited"} => held = lp
  /\ pc \in {"xdp link", "xdp object off"} => held = lp \union {Xdp}
  /\ pc \in {"xdp reader", "xdp link off"} => held = lp \union {Xdp, Link(0)}
  /\ pc = "close links" => held = lp \ Readers
  /\ pc = "close xdp" => held = lp \ (Readers \union Links)
  /\ pc = "close monitor" => held = lp \ (Readers \union Links \union {Xdp})
  /\ pc \in {"load", "released", "gone"} => held = {}

Known ==
  /\ pc = "load" => lp = {}
  /\ pc \notin {"load", "released", "gone"} => Monitor \in lp
  /\ lp \intersect XdpResources # {} => XdpResources \subseteq lp
  /\ pc \in {"attach", "trace reader", "interface", "xdp object", "xdp link", "xdp reader",
             "xdp link off", "xdp object off"} => lp \intersect XdpResources = {}

HooksPast == {"trace reader", "interface", "xdp object", "xdp link", "xdp reader", "start",
              "running", "xdp link off", "xdp object off", "exited"}

(* The required hooks before the one the loop is at are attached.           *)
RequiredHeld ==
  pc \in {"attach"} \union HooksPast =>
    \A h \in Hooks : IsRequired(h) /\ h < hook => Link(h) \in lp

Progress ==
  /\ pc = "load" => hook = 1
  /\ pc \in HooksPast => hook = Required + Optional + 1
  /\ pc \in {"interface", "xdp object", "xdp link", "xdp reader", "start", "running"} =>
       Reader("monitor") \in lp
  /\ pc \in {"start", "running"} /\ xdpInterface => XdpResources \subseteq lp

Inv == TypeOK /\ Ownership /\ Known /\ RequiredHeld /\ Progress /\ RequiredDecide

-----------------------------------------------------------------------------
(* Resources of different kinds, or of different hooks, are different.      *)
LEMMA Resources ==
  /\ Monitor # Xdp /\ Reader("monitor") # Reader("xdp")
  /\ \A h : Link(h) \notin Objects \union Readers
  /\ \A g, h : Link(g) = Link(h) => g = h
  /\ Objects \intersect Readers = {} /\ Links \intersect (Objects \union Readers) = {}
  /\ \A h \in Hooks \union {0} : Link(h) \in Links
  /\ Objects = {Monitor, Xdp}
  /\ Readers = {Reader("monitor"), Reader("xdp")}
  /\ XdpResources = {Xdp, Link(0), Reader("xdp")}
  /\ 0 \notin Hooks
BY DEF Monitor, Xdp, Object, Reader, Link, Objects, Readers, Links, XdpResources, Hooks

(* The loop's counter passes the hooks one by one and then stops.           *)
LEMMA Counting ==
  ASSUME hook \in 1..(Required + Optional + 1)
  PROVE  /\ hook \in Hooks => hook + 1 \in 1..(Required + Optional + 1)
         /\ hook \notin Hooks <=> hook = Required + Optional + 1
         /\ 0 \notin Hooks
BY StartupAssumption DEF Hooks

LEMMA InitInv == Init => Inv
<1>. SUFFICES ASSUME Init PROVE Inv
  OBVIOUS
<1>1. TypeOK
  BY StartupAssumption DEF Init, TypeOK, Steps
<1>2. Ownership /\ Known /\ RequiredHeld /\ Progress
  BY StartupAssumption DEF Init, Ownership, Known, RequiredHeld, Progress, HooksPast, Hooks
<1>3. RequiredDecide
  BY DEF Init, RequiredDecide
<1>. QED
  BY <1>1, <1>2, <1>3 DEF Inv

(* The steps of the object, the hooks and the trace ring.                   *)
LEMMA LoadInv ==
  ASSUME Inv, Load \/ AttachHook \/ HooksDone \/ TraceReader
  PROVE  Inv'
<1>. USE StartupAssumption, Resources DEF Inv
<1>1. CASE Load
  <2>. USE <1>1 DEF Load, Acquire, GoTo, Monitor
  <2>1. TypeOK'
    BY DEF TypeOK, Steps, Hooks
  <2>2. Ownership'
    BY DEF TypeOK, Ownership, Known
  <2>3. Known'
    BY DEF TypeOK, Ownership, Known
  <2>4. RequiredHeld'
    <3>. SUFFICES ASSUME NEW h \in Hooks, h < hook' PROVE FALSE
      BY DEF RequiredHeld
    <3>. QED
      BY DEF Progress, Hooks
  <2>5. Progress'
    BY DEF TypeOK, Ownership, Progress, HooksPast, Hooks
  <2>6. RequiredDecide'
    BY DEF TypeOK, Ownership, Known, RequiredHeld, Progress, HooksPast, Hooks, IsRequired, RequiredDecide
  <2>. QED
    BY <2>1, <2>2, <2>3, <2>4, <2>5, <2>6
<1>2. CASE Attached /\ AttachHook
  <2>. USE <1>2 DEF AttachHook, Attached
  <2>1. TypeOK'
    BY DEF TypeOK, Steps, Hooks
  <2>2. Ownership'
    BY DEF TypeOK, Ownership, Known
  <2>3. Known'
    BY DEF TypeOK, Ownership, Known
  <2>4. RequiredHeld'
    BY DEF TypeOK, Ownership, RequiredHeld, HooksPast
  <2>5. Progress'
    BY DEF TypeOK, Ownership, Progress, HooksPast, Hooks
  <2>6. RequiredDecide'
    BY DEF TypeOK, Ownership, Known, RequiredHeld, Progress, HooksPast, Hooks, IsRequired, RequiredDecide
  <2>. QED
    BY <2>1, <2>2, <2>3, <2>4, <2>5, <2>6
<1>3. CASE NotAttached /\ AttachHook
  <2>. USE <1>3 DEF AttachHook, NotAttached
  <2>1. TypeOK'
    <3>1. hook' \in 1..(Required + Optional + 1) /\ failed' \subseteq Hooks
      BY Counting DEF TypeOK
    <3>. QED
      BY <3>1 DEF TypeOK, Steps
  <2>2. Ownership'
    BY DEF TypeOK, Ownership, Known
  <2>3. Known'
    BY DEF TypeOK, Ownership, Known
  <2>4. RequiredHeld'
    <3>1. CASE IsRequired(hook)
      BY <3>1 DEF RequiredHeld, HooksPast
    <3>2. CASE ~IsRequired(hook)
      <4>. SUFFICES ASSUME NEW h \in Hooks, IsRequired(h), h < hook' PROVE Link(h) \in lp
        BY <3>2 DEF RequiredHeld
      <4>1. h # hook
        BY <3>2
      <4>2. h < hook
        BY <3>2, <4>1 DEF Hooks
      <4>. QED
        BY <4>2 DEF RequiredHeld
    <3>. QED
      BY <3>1, <3>2
  <2>5. Progress'
    BY DEF TypeOK, Ownership, Progress, HooksPast, Hooks
  <2>6. RequiredDecide'
    BY DEF TypeOK, Ownership, Known, RequiredHeld, Progress, HooksPast, Hooks, IsRequired, RequiredDecide
  <2>. QED
    BY <2>1, <2>2, <2>3, <2>4, <2>5, <2>6
<1>4. CASE HooksDone
  <2>. USE <1>4 DEF HooksDone, GoTo
  <2>1. TypeOK'
    BY DEF TypeOK, Steps, Hooks
  <2>2. Ownership'
    BY DEF TypeOK, Ownership, Known
  <2>3. Known'
    BY DEF TypeOK, Ownership, Known
  <2>4. RequiredHeld'
    BY DEF TypeOK, Ownership, RequiredHeld, HooksPast
  <2>5. Progress'
    <3>1. hook = Required + Optional + 1
      BY Counting DEF TypeOK
    <3>. QED
      BY <3>1 DEF Progress, HooksPast
  <2>6. RequiredDecide'
    BY DEF TypeOK, Ownership, Known, RequiredHeld, Progress, HooksPast, Hooks, IsRequired, RequiredDecide
  <2>. QED
    BY <2>1, <2>2, <2>3, <2>4, <2>5, <2>6
<1>5. CASE TraceReader
  <2>. USE <1>5 DEF TraceReader, Acquire, GoTo
  <2>1. TypeOK'
    BY DEF TypeOK, Steps, Hooks
  <2>2. Ownership'
    BY DEF TypeOK, Ownership, Known
  <2>3. Known'
    BY DEF TypeOK, Ownership, Known
  <2>4. RequiredHeld'
    <3>1. lp \subseteq lp' /\ pc \in HooksPast
      BY DEF TypeOK, Ownership, HooksPast
    <3>. QED
      BY <3>1 DEF RequiredHeld
  <2>5. Progress'
    BY DEF TypeOK, Ownership, Progress, HooksPast, Hooks
  <2>6. RequiredDecide'
    BY DEF TypeOK, Ownership, Known, RequiredHeld, Progress, HooksPast, Hooks, IsRequired, RequiredDecide
  <2>. QED
    BY <2>1, <2>2, <2>3, <2>4, <2>5, <2>6
<1>. QED
  BY <1>1, <1>2, <1>3, <1>4, <1>5 DEF AttachHook

(* Those of XDP, up to the start of the readers.                           *)
LEMMA XdpInv ==
  ASSUME Inv, Interface \/ XdpObject \/ AttachXdp \/ XdpReader \/ StartReaders
  PROVE  Inv'
<1>. USE StartupAssumption, Resources DEF Inv
<1>1. CASE Interface
  <2>. USE <1>1 DEF Interface, GoTo
  <2>1. TypeOK'
    BY DEF TypeOK, Steps, Hooks
  <2>2. Ownership'
    BY DEF TypeOK, Ownership, Known
  <2>3. Known'
    BY DEF TypeOK, Ownership, Known
  <2>4. RequiredHeld'
    <3>1. lp \subseteq lp' /\ pc \in HooksPast
      BY DEF TypeOK, Ownership, HooksPast
    <3>. QED
      BY <3>1 DEF RequiredHeld
  <2>5. Progress'
    BY DEF TypeOK, Ownership, Progress, HooksPast, Hooks
  <2>6. RequiredDecide'
    BY DEF TypeOK, Ownership, Known, RequiredHeld, Progress, HooksPast, Hooks, IsRequired, RequiredDecide
  <2>. QED
    BY <2>1, <2>2, <2>3, <2>4, <2>5, <2>6
<1>2. CASE XdpObject
  <2>. USE <1>2 DEF XdpObject, Acquire, GoTo, Xdp
  <2>1. TypeOK'
    BY DEF TypeOK, Steps, Hooks
  <2>2. Ownership'
    BY DEF TypeOK, Ownership, Known
  <2>3. Known'
    BY DEF TypeOK, Ownership, Known
  <2>4. RequiredHeld'
    <3>1. lp \subseteq lp' /\ pc \in HooksPast
      BY DEF TypeOK, Ownership, HooksPast
    <3>. QED
      BY <3>1 DEF RequiredHeld
  <2>5. Progress'
    BY DEF TypeOK, Ownership, Progress, HooksPast, Hooks
  <2>6. RequiredDecide'
    BY DEF TypeOK, Ownership, Known, RequiredHeld, Progress, HooksPast, Hooks, IsRequired, RequiredDecide
  <2>. QED
    BY <2>1, <2>2, <2>3, <2>4, <2>5, <2>6
<1>3. CASE AttachXdp
  <2>. USE <1>3 DEF AttachXdp, Acquire, GoTo
  <2>1. TypeOK'
    <3>1. held' \subseteq Objects \union Readers \union Links /\ held \subseteq held'
      BY DEF TypeOK, Links
    <3>. QED
      BY <3>1 DEF TypeOK, Steps
  <2>2. Ownership'
    BY DEF TypeOK, Ownership, Known
  <2>3. Known'
    BY DEF TypeOK, Ownership, Known
  <2>4. RequiredHeld'
    <3>1. lp \subseteq lp' /\ pc \in HooksPast
      BY DEF TypeOK, Ownership, HooksPast
    <3>. QED
      BY <3>1 DEF RequiredHeld
  <2>5. Progress'
    BY DEF TypeOK, Ownership, Progress, HooksPast, Hooks
  <2>6. RequiredDecide'
    BY DEF TypeOK, Ownership, Known, RequiredHeld, Progress, HooksPast, Hooks, IsRequired, RequiredDecide
  <2>. QED
    BY <2>1, <2>2, <2>3, <2>4, <2>5, <2>6
<1>4. CASE XdpReader
  <2>. USE <1>4 DEF XdpReader, Acquire, GoTo
  <2>1. TypeOK'
    BY DEF TypeOK, Steps, Hooks
  <2>2. Ownership'
    BY DEF TypeOK, Ownership, Known
  <2>3. Known'
    BY DEF TypeOK, Ownership, Known
  <2>4. RequiredHeld'
    <3>1. lp \subseteq lp' /\ pc \in HooksPast
      BY DEF TypeOK, Ownership, HooksPast
    <3>. QED
      BY <3>1 DEF RequiredHeld
  <2>5. Progress'
    BY DEF TypeOK, Ownership, Progress, HooksPast, Hooks
  <2>6. RequiredDecide'
    <3>1. hook \notin Hooks /\ hook' = hook
      BY Counting DEF TypeOK, Progress, HooksPast
    <3>2. held \subseteq held' /\ reading' = reading
      OBVIOUS
    <3>. QED
      <4>1. reading' # {} =>
              /\ \A h \in Hooks : IsRequired(h) => Link(h) \in held'
              /\ Reader("monitor") \in reading'
              /\ xdpInterface' => XdpResources \subseteq held'
        BY <3>2 DEF RequiredDecide
      <4>. QED
        BY <3>1, <4>1 DEF RequiredDecide
  <2>. QED
    BY <2>1, <2>2, <2>3, <2>4, <2>5, <2>6
<1>5. CASE StartReaders
  <2>. USE <1>5 DEF StartReaders
  <2>1. TypeOK'
    <3>1. reading' \subseteq Readers \intersect held'
      BY DEF Ownership
    <3>. QED
      BY <3>1 DEF TypeOK, Steps
  <2>2. Ownership'
    BY DEF TypeOK, Ownership, Known
  <2>3. Known'
    BY DEF TypeOK, Ownership, Known
  <2>4. RequiredHeld'
    <3>1. lp \subseteq lp' /\ pc \in HooksPast
      BY DEF TypeOK, Ownership, HooksPast
    <3>. QED
      BY <3>1 DEF RequiredHeld
  <2>5. Progress'
    BY DEF TypeOK, Ownership, Progress, HooksPast, Hooks
  <2>6. RequiredDecide'
    BY DEF TypeOK, Ownership, Known, RequiredHeld, Progress, HooksPast, Hooks, IsRequired, RequiredDecide
  <2>. QED
    BY <2>1, <2>2, <2>3, <2>4, <2>5, <2>6
<1>. QED
  BY <1>1, <1>2, <1>3, <1>4, <1>5

(* What is released, on the error paths of XDP and by Close.                *)
LEMMA ReleaseInv ==
  ASSUME Inv, XdpLinkOff \/ XdpObjectOff \/ CloseReaders \/ CloseLinks \/ CloseXdp \/ CloseMonitor
  PROVE  Inv'
<1>. USE StartupAssumption, Resources DEF Inv
<1>1. CASE XdpLinkOff
  <2>. USE <1>1 DEF XdpLinkOff, Release
  <2>1. TypeOK'
    BY DEF TypeOK, Steps, Hooks
  <2>2. Ownership'
    BY DEF TypeOK, Ownership, Known
  <2>3. Known'
    BY DEF TypeOK, Ownership, Known
  <2>4. RequiredHeld'
    BY DEF TypeOK, Ownership, RequiredHeld, HooksPast
  <2>5. Progress'
    BY DEF TypeOK, Ownership, Progress, HooksPast, Hooks
  <2>6. RequiredDecide'
    BY DEF TypeOK, Ownership, Known, RequiredHeld, Progress, HooksPast, Hooks, IsRequired, RequiredDecide
  <2>. QED
    BY <2>1, <2>2, <2>3, <2>4, <2>5, <2>6
<1>2. CASE XdpObjectOff
  <2>. USE <1>2 DEF XdpObjectOff, Release, Xdp
  <2>1. TypeOK'
    BY DEF TypeOK, Steps, Hooks
  <2>2. Ownership'
    BY DEF TypeOK, Ownership, Known
  <2>3. Known'
    BY DEF TypeOK, Ownership, Known
  <2>4. RequiredHeld'
    BY DEF TypeOK, Ownership, RequiredHeld, HooksPast
  <2>5. Progress'
    BY DEF TypeOK, Ownership, Progress, HooksPast, Hooks
  <2>6. RequiredDecide'
    BY DEF TypeOK, Ownership, Known, RequiredHeld, Progress, HooksPast, Hooks, IsRequired, RequiredDecide
  <2>. QED
    BY <2>1, <2>2, <2>3, <2>4, <2>5, <2>6
<1>3. CASE CloseReaders
  <2>. USE <1>3 DEF CloseReaders, Release
  <2>1. TypeOK'
    BY DEF TypeOK, Steps, Hooks
  <2>2. Ownership'
    BY DEF TypeOK, Ownership, Known
  <2>3. Known'
    BY DEF TypeOK, Ownership, Known
  <2>4. RequiredHeld'
    BY DEF TypeOK, Ownership, RequiredHeld, HooksPast
  <2>5. Progress'
    BY DEF TypeOK, Ownership, Progress, HooksPast, Hooks
  <2>6. RequiredDecide'
    BY DEF TypeOK, Ownership, Known, RequiredHeld, Progress, HooksPast, Hooks, IsRequired, RequiredDecide
  <2>. QED
    BY <2>1, <2>2, <2>3, <2>4, <2>5, <2>6
<1>4. CASE CloseLinks
  <2>. USE <1>4 DEF CloseLinks, Release
  <2>1. TypeOK'
    BY DEF TypeOK, Steps, Hooks
  <2>2. Ownership'
    BY DEF TypeOK, Ownership, Known
  <2>3. Known'
    BY DEF TypeOK, Ownership, Known
  <2>4. RequiredHeld'
    BY DEF TypeOK, Ownership, RequiredHeld, HooksPast
  <2>5. Progress'
    BY DEF TypeOK, Ownership, Progress, HooksPast, Hooks
  <2>6. RequiredDecide'
    BY DEF TypeOK, Ownership, Known, RequiredHeld, Progress, HooksPast, Hooks, IsRequired, RequiredDecide
  <2>. QED
    BY <2>1, <2>2, <2>3, <2>4, <2>5, <2>6
<1>5. CASE CloseXdp
  <2>. USE <1>5 DEF CloseXdp, Release, Xdp
  <2>1. TypeOK'
    BY DEF TypeOK, Steps, Hooks
  <2>2. Ownership'
    BY DEF TypeOK, Ownership, Known
  <2>3. Known'
    BY DEF TypeOK, Ownership, Known
  <2>4. RequiredHeld'
    BY DEF TypeOK, Ownership, RequiredHeld, HooksPast
  <2>5. Progress'
    BY DEF TypeOK, Ownership, Progress, HooksPast, Hooks
  <2>6. RequiredDecide'
    BY DEF TypeOK, Ownership, Known, RequiredHeld, Progress, HooksPast, Hooks, IsRequired, RequiredDecide
  <2>. QED
    BY <2>1, <2>2, <2>3, <2>4, <2>5, <2>6
<1>6. CASE CloseMonitor
  <2>. USE <1>6 DEF CloseMonitor, Release, Monitor
  <2>1. TypeOK'
    BY DEF TypeOK, Steps, Hooks
  <2>2. Ownership'
    BY DEF TypeOK, Ownership, Known
  <2>3. Known'
    BY DEF TypeOK, Ownership, Known
  <2>4. RequiredHeld'
    BY DEF TypeOK, Ownership, RequiredHeld, HooksPast
  <2>5. Progress'
    BY DEF TypeOK, Ownership, Progress, HooksPast, Hooks
  <2>6. RequiredDecide'
    BY DEF TypeOK, Ownership, Known, RequiredHeld, Progress, HooksPast, Hooks, IsRequired, RequiredDecide
  <2>. QED
    BY <2>1, <2>2, <2>3, <2>4, <2>5, <2>6
<1>. QED
  BY <1>1, <1>2, <1>3, <1>4, <1>5, <1>6

(* The steps of main, and stuttering.                                       *)
LEMMA MainInv ==
  ASSUME Inv, Signal \/ ServeFails \/ Exit \/ UNCHANGED vars
  PROVE  Inv'
<1>. USE StartupAssumption, Resources DEF Inv
<1>1. CASE Signal
  <2>. USE <1>1 DEF Signal, GoTo
  <2>1. TypeOK'
    BY DEF TypeOK, Steps, Hooks
  <2>2. Ownership'
    BY DEF TypeOK, Ownership, Known
  <2>3. Known'
    BY DEF TypeOK, Ownership, Known
  <2>4. RequiredHeld'
    BY DEF TypeOK, Ownership, RequiredHeld, HooksPast
  <2>5. Progress'
    BY DEF TypeOK, Ownership, Progress, HooksPast, Hooks
  <2>6. RequiredDecide'
    BY DEF TypeOK, Ownership, Known, RequiredHeld, Progress, HooksPast, Hooks, IsRequired, RequiredDecide
  <2>. QED
    BY <2>1, <2>2, <2>3, <2>4, <2>5, <2>6
<1>2. CASE ServeFails
  <2>. USE <1>2 DEF ServeFails, GoTo
  <2>1. TypeOK'
    BY DEF TypeOK, Steps, Hooks
  <2>2. Ownership'
    BY DEF TypeOK, Ownership, Known
  <2>3. Known'
    BY DEF TypeOK, Ownership, Known
  <2>4. RequiredHeld'
    BY DEF TypeOK, Ownership, RequiredHeld, HooksPast
  <2>5. Progress'
    BY DEF TypeOK, Ownership, Progress, HooksPast, Hooks
  <2>6. RequiredDecide'
    BY DEF TypeOK, Ownership, Known, RequiredHeld, Progress, HooksPast, Hooks, IsRequired, RequiredDecide
  <2>. QED
    BY <2>1, <2>2, <2>3, <2>4, <2>5, <2>6
<1>3. CASE Exit
  <2>. USE <1>3 DEF Exit
  <2>1. TypeOK'
    BY DEF TypeOK, Steps, Hooks
  <2>2. Ownership'
    BY DEF TypeOK, Ownership, Known
  <2>3. Known'
    BY DEF TypeOK, Ownership, Known
  <2>4. RequiredHeld'
    BY DEF TypeOK, Ownership, RequiredHeld, HooksPast
  <2>5. Progress'
    BY DEF TypeOK, Ownership, Progress, HooksPast, Hooks
  <2>6. RequiredDecide'
    BY DEF TypeOK, Ownership, Known, RequiredHeld, Progress, HooksPast, Hooks, IsRequired, RequiredDecide
  <2>. QED
    BY <2>1, <2>2, <2>3, <2>4, <2>5, <2>6
<1>4. CASE UNCHANGED vars
  <2>. USE <1>4 DEF vars
  <2>1. TypeOK'
    BY DEF TypeOK, Steps, Hooks
  <2>2. Ownership'
    BY DEF TypeOK, Ownership, Known
  <2>3. Known'
    BY DEF TypeOK, Ownership, Known
  <2>4. RequiredHeld'
    BY DEF TypeOK, Ownership, RequiredHeld, HooksPast
  <2>5. Progress'
    BY DEF TypeOK, Ownership, Progress, HooksPast, Hooks
  <2>6. RequiredDecide'
    BY DEF TypeOK, Ownership, Known, RequiredHeld, Progress, HooksPast, Hooks, IsRequired, RequiredDecide
  <2>. QED
    BY <2>1, <2>2, <2>3, <2>4, <2>5, <2>6
<1>. QED
  BY <1>1, <1>2, <1>3, <1>4

(* Every step preserves the invariant.                                      *)
LEMMA InvInductive == Inv /\ [Next]_vars => Inv'
<1>. SUFFICES ASSUME Inv, [Next]_vars PROVE Inv'
  OBVIOUS
<1>1. CASE Load \/ AttachHook \/ HooksDone \/ TraceReader
  BY <1>1, LoadInv
<1>2. CASE Interface \/ XdpObject \/ AttachXdp \/ XdpReader \/ StartReaders
  BY <1>2, XdpInv
<1>3. CASE XdpLinkOff \/ XdpObjectOff \/ CloseReaders \/ CloseLinks \/ CloseXdp \/ CloseMonitor
  BY <1>3, ReleaseInv
<1>4. CASE Signal \/ ServeFails \/ Exit \/ UNCHANGED vars
  BY <1>4, MainInv
<1>. QED
  BY <1>1, <1>2, <1>3, <1>4 DEF Next

LEMMA Invariance == Spec => []Inv
<1>. QED
  BY InitInv, InvInductive, PTL DEF Spec

-----------------------------------------------------------------------------
(* Types; LoadedProbes never learns of a resource that was not taken.       *)
THEOREM TypeCorrect == Spec => []TypeOK
<1>1. Inv => TypeOK
  BY DEF Inv
<1>. QED
  BY <1>1, Invariance, PTL

(* A start that fails, wherever it does, and Close leave nothing open in    *)
(* the kernel, however many hooks there are and whichever were attached.    *)
THEOREM EverythingReleased == Spec => []ReleasedAll
<1>1. Inv => ReleasedAll
  BY DEF Inv, Ownership, ReleasedAll
<1>. QED
  BY <1>1, Invariance, PTL

(* Links and readers are released before the objects that hold their        *)
(* programs and rings.                                                      *)
THEOREM ObjectsGoLast == Spec => []NothingOutlivesItsObject
<1>1. Inv => NothingOutlivesItsObject
  <2>. SUFFICES ASSUME Inv PROVE NothingOutlivesItsObject
    OBVIOUS
  <2>. USE Resources DEF Inv, Ownership, Known, NothingOutlivesItsObject, Monitor, Xdp
  <2>1. CASE pc \in {"load", "released", "gone"}
    BY <2>1
  <2>2. CASE pc \in {"attach", "trace reader", "interface", "xdp object", "start", "running",
                    "close readers", "exited"}
    BY <2>2
  <2>3. CASE pc \in {"xdp link", "xdp object off", "xdp reader", "xdp link off"}
    BY <2>3
  <2>4. CASE pc = "close links"
    <3>1. held \subseteq lp /\ Monitor \in held
      BY <2>4
    <3>2. Xdp \in lp => Xdp \in held
      BY <2>4
    <3>. QED
      BY <3>1, <3>2
  <2>5. CASE pc = "close xdp"
    <3>1. held \subseteq lp /\ Monitor \in held
      BY <2>5
    <3>2. Xdp \in lp => Xdp \in held
      BY <2>5
    <3>. QED
      BY <3>1, <3>2
  <2>6. CASE pc = "close monitor"
    BY <2>6
  <2>. QED
    BY <2>1, <2>2, <2>3, <2>4, <2>5, <2>6 DEF TypeOK, Steps
<1>. QED
  BY <1>1, Invariance, PTL

(* Events are read only when every required hook, the trace ring and, if    *)
(* asked for, XDP are in place; only a required hook stops the loader.      *)
THEOREM OnlyRequiredHooksDecide == Spec => []RequiredDecide
<1>1. Inv => RequiredDecide
  BY DEF Inv
<1>. QED
  BY <1>1, Invariance, PTL
=============================================================================
