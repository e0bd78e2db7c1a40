------------------------------ MODULE Startup -------------------------------
(***************************************************************************)
(* From main's call of LoadAndAttach to the end of the process.  The       *)
(* loader takes one kernel resource after another: the objects with their  *)
(* programs and maps, a link per hook, the readers of the rings.  Each     *)
(* step can fail, and then what was taken is given back: by hand while it  *)
(* is in a local variable, by Close once LoadedProbes has it.              *)
(***************************************************************************)
EXTENDS Naturals

CONSTANTS
  Required,  \* the number of required hooks: 5 in loader.go's table
  Optional   \* and of the optional ones, which follow them there: 18

ASSUME StartupAssumption == Required \in Nat /\ Optional \in Nat

Hooks         == 1..(Required + Optional)
IsRequired(h) == h <= Required

(* Kernel resources.  The link of the XDP program has the number 0.         *)
Object(name) == [kind |-> "object", of |-> name]
Reader(name) == [kind |-> "reader", of |-> name]
Link(h)      == [kind |-> "link", of |-> h]
Objects      == {Object("monitor"), Object("xdp")}
Readers      == {Reader("monitor"), Reader("xdp")}
Links        == {Link(h) : h \in Hooks \union {0}}
XdpResources == {Object("xdp"), Link(0), Reader("xdp")}

VARIABLES
  xdpInterface,  \* EDR_XDP_INTERFACE is set
  pc,            \* the next step of LoadAndAttach, of Close or of main
  hook,          \* the hook that the loop is at
  failed,        \* the hooks that could not be attached
  held,          \* what the process has open in the kernel
  lp,            \* what LoadedProbes knows of it
  reading        \* the readers that a readLoop reads from

vars == <<xdpInterface, pc, hook, failed, held, lp, reading>>

Init ==
  /\ xdpInterface \in BOOLEAN
  /\ pc = "load" /\ hook = 1
  /\ failed = {} /\ held = {} /\ lp = {} /\ reading = {}

-----------------------------------------------------------------------------
(* LoadAndAttach *)

GoTo(step) == pc' = step /\ UNCHANGED <<xdpInterface, hook, failed, held, lp, reading>>

(* A resource is taken; r goes into LoadedProbes with whatever is in locals *)
(* when enter holds.  On an error the release begins at step release.       *)
Acquire(r, enter, step, release) ==
  \/ GoTo(release)
  \/ /\ held' = held \union {r}
     /\ lp' = IF enter THEN held' ELSE lp
     /\ pc' = step
     /\ UNCHANGED <<xdpInterface, hook, failed, reading>>

(* The object, after the memlock limit. *)
Load == pc = "load" /\ Acquire(Object("monitor"), TRUE, "attach", "released")

Attached ==
  /\ held' = held \union {Link(hook)}
  /\ lp' = lp \union {Link(hook)}
  /\ hook' = hook + 1
  /\ UNCHANGED <<pc, failed>>

(* Slip: any hook stops the loader.                                         *)
NotAttached_stops ==
  /\ failed' = failed \union {hook}
  /\ pc' = "close readers"
  /\ UNCHANGED <<hook, held, lp>>

NotAttached ==
  /\ failed' = failed \union {hook}
  /\ IF IsRequired(hook)
     THEN pc' = "close readers" /\ UNCHANGED hook
     ELSE hook' = hook + 1 /\ UNCHANGED pc
  /\ UNCHANGED <<held, lp>>

AttachHook ==
  /\ pc = "attach"
  /\ hook \in Hooks
  /\ Attached \/ NotAttached
  /\ UNCHANGED <<xdpInterface, reading>>

HooksDone == pc = "attach" /\ hook \notin Hooks /\ GoTo("trace reader")

TraceReader ==
  /\ pc = "trace reader"
  /\ Acquire(Reader("monitor"), TRUE, IF xdpInterface THEN "interface" ELSE "start",
             "close readers")

Interface == pc = "interface" /\ (GoTo("close readers") \/ GoTo("xdp object"))

XdpObject == pc = "xdp object" /\ Acquire(Object("xdp"), FALSE, "xdp link", "close readers")

(* The program is missing from the object, or the interface refuses it.     *)
AttachXdp == pc = "xdp link" /\ Acquire(Link(0), FALSE, "xdp reader", "xdp object off")

(* Slip: the error path of the reader frees the object and not the link.    *)
XdpReader_link_left ==
  pc = "xdp reader" /\ Acquire(Reader("xdp"), TRUE, "start", "xdp object off")

(* With its reader, all of XDP enters LoadedProbes. *)
XdpReader == pc = "xdp reader" /\ Acquire(Reader("xdp"), TRUE, "start", "xdp link off")

(* Slip: a loop for the XDP reader whether it is there or not.              *)
StartReaders_both ==
  /\ pc = "start"
  /\ reading' = Readers
  /\ pc' = "running"
  /\ UNCHANGED <<xdpInterface, hook, failed, held, lp>>

StartReaders ==
  /\ pc = "start"
  /\ reading' = lp \intersect Readers
  /\ pc' = "running"
  /\ UNCHANGED <<xdpInterface, hook, failed, held, lp>>

-----------------------------------------------------------------------------
(* Release *)

Release(these, step) ==
  /\ held' = held \ these
  /\ reading' = reading \ these
  /\ pc' = step
  /\ UNCHANGED <<xdpInterface, hook, failed, lp>>

(* xl.Close() and xcoll.Close() *)
XdpLinkOff   == pc = "xdp link off" /\ Release({Link(0)}, "xdp object off")
XdpObjectOff == pc = "xdp object off" /\ Release({Object("xdp")}, "close readers")

(* Close; readLoop ends when its reader is closed.                          *)
CloseReaders == pc = "close readers" /\ Release(lp \intersect Readers, "close links")
(* Slip: the objects go before the links.                                   *)
CloseLinks_last == pc = "close links" /\ Release(lp \intersect Objects, "close xdp")
CloseLinks   == pc = "close links" /\ Release(lp \intersect Links, "close xdp")
CloseXdp     == pc = "close xdp" /\ Release(lp \intersect {Object("xdp")}, "close monitor")
CloseMonitor == pc = "close monitor" /\ Release(lp \intersect {Object("monitor")}, "released")

-----------------------------------------------------------------------------
(* main *)

(* SIGINT, SIGTERM: the handler calls Close and ends the process.           *)
Signal == pc = "running" /\ GoTo("close readers")

(* The HTTP server cannot listen: log.Fatalf, without Close.                *)
ServeFails == pc = "running" /\ GoTo("exited")

(* The kernel takes back what an exiting process holds.                     *)
Exit ==
  /\ pc \in {"released", "exited"}
  /\ pc' = "gone"
  /\ held' = {} /\ reading' = {}
  /\ UNCHANGED <<xdpInterface, hook, failed, lp>>

Next ==
  \/ Load \/ AttachHook \/ HooksDone \/ TraceReader
  \/ Interface \/ XdpObject \/ AttachXdp \/ XdpReader \/ StartReaders
  \/ XdpLinkOff \/ XdpObjectOff
  \/ CloseReaders \/ CloseLinks \/ CloseXdp \/ CloseMonitor
  \/ Signal \/ ServeFails \/ Exit

Spec == Init /\ [][Next]_vars

-----------------------------------------------------------------------------
(* Properties *)

Steps ==
  {"load", "attach", "trace reader", "interface", "xdp object", "xdp link", "xdp reader",
   "start", "running", "xdp link off", "xdp object off", "close readers", "close links",
   "close xdp", "close monitor", "released", "exited", "gone"}

(* Types; LoadedProbes never learns of a resource that was not taken.       *)
TypeOK ==
  /\ xdpInterface \in BOOLEAN /\ pc \in Steps
  /\ hook \in 1..(Required + Optional + 1) /\ failed \subseteq Hooks
  /\ held \subseteq Objects \union Readers \union Links
  /\ lp \subseteq Objects \union Readers \union Links
  /\ reading \subseteq Readers \intersect held

(* Wherever LoadAndAttach fails, and after Close, nothing is left open: no  *)
(* link keeps a program attached, on an interface or in the kernel.         *)
ReleasedAll == pc = "released" => held = {}

(* A link or a reader is open only while the object with its program or its *)
(* ring is, so what is taken last goes first, on every path.                *)
NothingOutlivesItsObject ==
  /\ held \intersect XdpResources # {} => Object("xdp") \in held
  /\ held \ XdpResources # {} => Object("monitor") \in held

(* README.md: "Failure to attach a required hook prevents normal startup."  *)
(* and "Optional probes fail independently".  Events are read only with     *)
(* every required hook, the trace ring and, if asked for, all of XDP; and a *)
(* hook at which the loader gave up is a required one.                      *)
RequiredDecide ==
  /\ reading # {} =>
       /\ \A h \in Hooks : IsRequired(h) => Link(h) \in held
       /\ Reader("monitor") \in reading
       /\ xdpInterface => XdpResources \subseteq held
  /\ hook \in Hooks /\ pc \notin {"load", "attach"} /\ lp # {} =>
       IsRequired(hook) /\ hook \in failed
=============================================================================
