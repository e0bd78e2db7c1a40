-------------------------- MODULE KernelHooksProofs -------------------------
(***************************************************************************)
(* The properties of KernelHooks for any number of CPUs and tgids.  The    *)
(* maps are tied to the life of the processes by MemfdKept and PathKept,   *)
(* the event on each CPU to its program by ScratchInv; the maps are read   *)
(* when an event is built, so the second rests on the first.               *)
(***************************************************************************)
EXTENDS KernelHooks, TLAPS

(* A process that has called memfd_create is in the map or was evicted.     *)
MemfdKept ==
  \A t \in Tgids : proc[t].memfd /\ "memfd" \notin evicted[t] => t \in memfdPids

(* The path entry is that of the execve in progress, or else of the last    *)
(* one, if it succeeded; a process that has not executed anything may have  *)
(* an entry that its predecessor left.                                      *)
PathKept ==
  \A t \in Tgids : "path" \notin evicted[t] =>
    /\ proc[t].calls # None => execPaths[t] = proc[t].calls
    /\ proc[t].calls = None /\ proc[t].from # None => execPaths[t] = proc[t].from

MapTypes ==
  /\ proc \in [Tgids -> Processes]
  /\ execHistory \in [Tgids -> Binaries \union {None}]
  /\ execPaths \in [Tgids -> Paths \union {None}]
  /\ memfdPids \subseteq Tgids
  /\ evicted \in [Tgids -> SUBSET {"path", "memfd"}]

MapInv == MapTypes /\ MemfdKept /\ PathKept

(* No flag of another kind of event in the scratch event of a CPU. *)
FlagsFit == \A c \in Cpus : scratch[c].flags \subseteq Flags(scratch[c].type)

Slots == running = [c \in Cpus |-> running[c]] /\ scratch = [c \in Cpus |-> scratch[c]]

ScratchInv ==
  Slots /\ FlagsFit /\ SubmitsOwnEvent /\ MemfdThenExecFlagged /\ SelfDeleteFlagged

Inv == MapInv /\ ScratchInv

-----------------------------------------------------------------------------
(* The maps and the processes *)

LEMMA FreshProcess ==
  ASSUME NEW b \in Binaries
  PROVE  /\ Fresh(b) \in Processes
         /\ Fresh(b).calls = None /\ Fresh(b).from = None /\ Fresh(b).memfd = FALSE
BY DEF Fresh, Processes

LEMMA InitMaps == Init => MapInv
<1> SUFFICES ASSUME Init PROVE MapInv
  OBVIOUS
<1>1. \A t \in Tgids : /\ proc[t] \in Processes
                       /\ proc[t].calls = None /\ proc[t].from = None /\ proc[t].memfd = FALSE
  BY FreshProcess DEF Init
<1>2. proc \in [Tgids -> Processes]
  BY <1>1 DEF Init
<1> QED
  BY <1>1, <1>2 DEF Init, MapInv, MapTypes, MemfdKept, PathKept

(* The three programs that write the maps.                                  *)
LEMMA MapsExecve ==
  ASSUME MapInv, NEW c \in Cpus, NEW t \in Tgids, trace_execve(c, t)
  PROVE  MapInv'
<1>1. PICK target \in Paths :
        /\ execPaths' = [execPaths EXCEPT ![t] = target]
        /\ execHistory' = [execHistory EXCEPT ![t] = proc[t].image]
        /\ evicted' = [evicted EXCEPT ![t] = @ \ {"path"}]
        /\ proc' = [proc EXCEPT ![t].calls = target]
        /\ UNCHANGED memfdPids
  BY DEF trace_execve, RecordExec
<1>2. MapTypes'
  BY <1>1 DEF MapInv, MapTypes, Processes
<1>3. MemfdKept'
  BY <1>1 DEF MapInv, MapTypes, Processes, MemfdKept
<1>4. PathKept'
  <2>1. target # None
    BY DEF Paths, Binaries, Shell, Ordinary, FdPath, None
  <2>2. /\ proc'[t].calls = target /\ execPaths'[t] = target
        /\ \A u \in Tgids : u # t =>
             proc'[u] = proc[u] /\ execPaths'[u] = execPaths[u] /\ evicted'[u] = evicted[u]
    BY <1>1 DEF MapInv, MapTypes, Processes
  <2> QED
    BY <2>1, <2>2 DEF MapInv, PathKept
<1> QED
  BY <1>2, <1>3, <1>4 DEF MapInv

LEMMA MapsMemfd ==
  ASSUME MapInv, NEW c \in Cpus, NEW t \in Tgids, trace_memfd_create(c, t)
  PROVE  MapInv'
<1>1. /\ memfdPids' = memfdPids \union {t}
      /\ evicted' = [evicted EXCEPT ![t] = @ \ {"memfd"}]
      /\ proc' = [proc EXCEPT ![t].memfd = TRUE]
      /\ UNCHANGED <<execHistory, execPaths>>
  BY DEF trace_memfd_create
<1>2. MapTypes'
  BY <1>1 DEF MapInv, MapTypes, Processes
<1>3. MemfdKept'
  BY <1>1 DEF MapInv, MapTypes, Processes, MemfdKept
<1>4. PathKept'
  BY <1>1 DEF MapInv, MapTypes, Processes, PathKept
<1> QED
  BY <1>2, <1>3, <1>4 DEF MapInv

(* The life of a process, which writes no map.                              *)
LEMMA ProcessReplaced ==
  ASSUME MapInv, UNCHANGED mapVars, NEW t \in Tgids, NEW p \in Processes,
         proc' = [proc EXCEPT ![t] = p],
         p.memfd => proc[t].memfd,
         p.calls = None, p.from \in {None, proc[t].calls}
  PROVE  MapInv'
<1>1. /\ proc' \in [Tgids -> Processes] /\ proc'[t] = p
      /\ \A u \in Tgids : u # t => proc'[u] = proc[u]
  BY DEF MapInv, MapTypes
<1>2. MapTypes'
  BY <1>1 DEF MapInv, MapTypes, mapVars
<1>3. MemfdKept'
  BY <1>1 DEF MapInv, MemfdKept, mapVars
<1>4. PathKept'
  BY <1>1 DEF MapInv, PathKept, mapVars
<1> QED
  BY <1>2, <1>3, <1>4 DEF MapInv

LEMMA Executed ==
  ASSUME NEW p \in Processes, NEW b \in Binaries, NEW path \in Paths
  PROVE  LET q == [p EXCEPT !.image = b, !.from = path, !.calls = None]
         IN  q \in Processes /\ q.memfd = p.memfd /\ q.calls = None /\ q.from = path
BY DEF Processes

LEMMA NotExecuted ==
  ASSUME NEW p \in Processes
  PROVE  LET q == [p EXCEPT !.calls = None, !.from = None]
         IN  q \in Processes /\ q.memfd = p.memfd /\ q.calls = None /\ q.from = None
BY DEF Processes

LEMMA MapsProcess ==
  ASSUME MapInv, NEW t \in Tgids, ExecSucceeds(t) \/ ExecFails(t) \/ Recycle(t)
  PROVE  MapInv'
<1>1. UNCHANGED mapVars
  BY DEF ExecSucceeds, ExecFails, Recycle
<1>2. proc[t] \in Processes
  BY DEF MapInv, MapTypes
<1>3. CASE ExecSucceeds(t)
  <2> DEFINE path == proc[t].calls
             p == [proc[t] EXCEPT !.image = BinaryAt(path), !.from = path, !.calls = None]
  <2>1. path \in Paths /\ BinaryAt(path) \in Binaries
    BY <1>2, <1>3 DEF ExecSucceeds, Processes, BinaryAt, Paths, Binaries
  <2>2. p \in Processes /\ p.memfd = proc[t].memfd /\ p.calls = None /\ p.from = path
    BY <1>2, <2>1, Executed
  <2>3. proc' = [proc EXCEPT ![t] = p]
    BY <1>3 DEF ExecSucceeds
  <2> HIDE DEF p
  <2> QED
    BY <1>1, <2>2, <2>3, ProcessReplaced
<1>4. CASE ExecFails(t)
  <2> DEFINE p == [proc[t] EXCEPT !.calls = None, !.from = None]
  <2>1. p \in Processes /\ p.memfd = proc[t].memfd /\ p.calls = None /\ p.from = None
    BY <1>2, NotExecuted
  <2>2. proc' = [proc EXCEPT ![t] = p]
    BY <1>4 DEF ExecFails
  <2> HIDE DEF p
  <2> QED
    BY <1>1, <2>1, <2>2, ProcessReplaced
<1>5. CASE Recycle(t)
  <2>1. PICK b \in Binaries : proc' = [proc EXCEPT ![t] = Fresh(b)]
    BY <1>5 DEF Recycle
  <2> QED
    BY <1>1, <2>1, FreshProcess, ProcessReplaced
<1> QED
  BY <1>3, <1>4, <1>5

LEMMA MapsEvict ==
  ASSUME MapInv, NEW t \in Tgids, LruEvict(t)
  PROVE  MapInv'
<1>1. CASE /\ execHistory' = [execHistory EXCEPT ![t] = None]
           /\ UNCHANGED <<proc, execPaths, memfdPids, evicted>>
  BY <1>1 DEF MapInv, MapTypes, MemfdKept, PathKept
<1>2. CASE /\ execPaths' = [execPaths EXCEPT ![t] = None]
           /\ evicted' = [evicted EXCEPT ![t] = @ \union {"path"}]
           /\ UNCHANGED <<proc, execHistory, memfdPids>>
  BY <1>2 DEF MapInv, MapTypes, MemfdKept, PathKept
<1>3. CASE /\ memfdPids' = memfdPids \ {t}
           /\ evicted' = [evicted EXCEPT ![t] = @ \union {"memfd"}]
           /\ UNCHANGED <<proc, execHistory, execPaths>>
  BY <1>3 DEF MapInv, MapTypes, MemfdKept, PathKept
<1> QED
  BY <1>1, <1>2, <1>3 DEF LruEvict

-----------------------------------------------------------------------------
(* The events under construction *)

LEMMA InitScratch == Init => ScratchInv
BY DEF Init, ScratchInv, Slots, FlagsFit, SubmitsOwnEvent, MemfdThenExecFlagged,
       SelfDeleteFlagged, Knows, Zero

LEMMA FreshEvent ==
  ASSUME NEW c, NEW t, NEW type
  PROVE  fill_common(c, t, type) = [type |-> type, tgid |-> t, flags |-> {}]
<1>1. fill_common(c, t, type) = [[Zero EXCEPT !.type = type] EXCEPT !.tgid = t]
  BY DEF fill_common
<1>2. [Zero EXCEPT !.type = type] = [type |-> type, tgid |-> None, flags |-> {}]
  BY DEF Zero
<1> QED
  BY <1>1, <1>2

(* A program that sets flags of its kind, and all those its caller          *)
(* deserves, keeps the invariant whatever the other CPUs do.                *)
LEMMA ScratchBuilds ==
  ASSUME ScratchInv, NEW c \in Cpus, NEW t \in Tgids,
         NEW type, NEW file, NEW env, NEW flags,
         Builds(c, t, type, file, env, flags),
         flags \subseteq Flags(type),
         "FILELESS_EXEC" \in Deserved(t, type, file, env) => "FILELESS_EXEC" \in flags,
         "SELF_DELETE" \in Deserved(t, type, file, env) => "SELF_DELETE" \in flags
  PROVE  ScratchInv'
<1> DEFINE D == Deserved(t, type, file, env)
           built == [type |-> type, tgid |-> t, flags |-> {} \union flags]
           runs == [type |-> type, tgid |-> t, deserved |-> D]
<1>1. /\ scratch' = [scratch EXCEPT ![c] = built]
      /\ running' = [running EXCEPT ![c] = runs]
  <2>1. [fill_common(c, t, type) EXCEPT !.flags = @ \union flags] = built
    BY FreshEvent
  <2> QED
    BY <2>1 DEF Builds, get_scratch_event
<1>2. /\ scratch'[c] = built /\ running'[c] = runs
      /\ \A d \in Cpus : d # c => scratch'[d] = scratch[d] /\ running'[d] = running[d]
  BY <1>1 DEF ScratchInv, Slots
<1>3. Slots'
  BY <1>1 DEF ScratchInv, Slots
<1>4. FlagsFit'
  BY <1>2 DEF ScratchInv, FlagsFit
<1>5. SubmitsOwnEvent'
  BY <1>2 DEF ScratchInv, SubmitsOwnEvent, get_scratch_event
<1>6. ASSUME NEW flag, Knows(flag), flag \in D => flag \in flags
      PROVE  Knows(flag)'
  <2> HIDE DEF D
  <2> QED
    BY <1>2, <1>6 DEF Knows, get_scratch_event
<1>7. MemfdThenExecFlagged' /\ SelfDeleteFlagged'
  BY <1>6 DEF ScratchInv, MemfdThenExecFlagged, SelfDeleteFlagged
<1> QED
  BY <1>3, <1>4, <1>5, <1>7 DEF ScratchInv

(* What a program with shared state has to know is in its maps.             *)
LEMMA ScratchExecve ==
  ASSUME Inv, NEW c \in Cpus, NEW t \in Tgids, trace_execve(c, t)
  PROVE  ScratchInv'
<1>1. PICK target \in Paths, env \in Environments :
        Builds(c, t, "EXEC", target, env, ExecFlags(t, target, env))
  BY DEF trace_execve
<1>2. ExecFlags(t, target, env) \subseteq Flags("EXEC")
  BY DEF ExecFlags, Flag, Flags
<1>3. "FILELESS_EXEC" \in Deserved(t, "EXEC", target, env)
        => "FILELESS_EXEC" \in ExecFlags(t, target, env)
  BY DEF Deserved, Flag, ExecFlags, Inv, MapInv, MemfdKept
<1>4. "SELF_DELETE" \notin Deserved(t, "EXEC", target, env)
  BY DEF Deserved, Flag
<1> QED
  BY <1>1, <1>2, <1>3, <1>4, ScratchBuilds DEF Inv

LEMMA ScratchUnlinkat ==
  ASSUME Inv, NEW c \in Cpus, NEW t \in Tgids, trace_unlinkat(c, t)
  PROVE  ScratchInv'
<1>1. PICK file \in Paths :
        Builds(c, t, "UNLINK", file, {}, Flag(execPaths[t] = file, "SELF_DELETE"))
  BY DEF trace_unlinkat
<1> DEFINE flags == Flag(execPaths[t] = file, "SELF_DELETE")
<1>2. flags \subseteq Flags("UNLINK")
  BY DEF Flag, Flags
<1>3. "FILELESS_EXEC" \notin Deserved(t, "UNLINK", file, {})
  BY DEF Deserved, Flag
<1>4. "SELF_DELETE" \in Deserved(t, "UNLINK", file, {}) => "SELF_DELETE" \in flags
  <2>1. file # None
    BY DEF Paths, Binaries, Shell, Ordinary, FdPath, None
  <2> QED
    BY <2>1 DEF Deserved, Flag, Inv, MapInv, PathKept
<1> QED
  BY <1>1, <1>2, <1>3, <1>4, ScratchBuilds DEF Inv

(* No other program is owed a flag by the properties.                       *)
LEMMA NothingDeserved ==
  ASSUME NEW t \in Tgids, NEW type, type # "EXEC", type # "UNLINK", NEW file, NEW env
  PROVE  /\ "FILELESS_EXEC" \notin Deserved(t, type, file, env)
         /\ "SELF_DELETE" \notin Deserved(t, type, file, env)
BY DEF Deserved, Flag

LEMMA ScratchMemfd ==
  ASSUME Inv, NEW c \in Cpus, NEW t \in Tgids, trace_memfd_create(c, t)
  PROVE  ScratchInv'
<1>1. Builds(c, t, "MEMFD", None, {}, {})
  BY DEF trace_memfd_create
<1> QED
  BY <1>1, ScratchBuilds, NothingDeserved DEF Inv

LEMMA ScratchConnect ==
  ASSUME Inv, NEW c \in Cpus, NEW t \in Tgids, trace_connect(c, t)
  PROVE  ScratchInv'
<1> DEFINE flags == Flag(is_shell_or_interpreter(execHistory[t]), "REVERSE_SHELL_LIKELY")
<1>1. Builds(c, t, "CONNECT", None, {}, flags)
  BY DEF trace_connect
<1>2. flags \subseteq Flags("CONNECT")
  BY DEF Flag, Flags
<1> QED
  BY <1>1, <1>2, ScratchBuilds, NothingDeserved DEF Inv

LEMMA StatelessFlagsFit ==
  ASSUME NEW t \in Tgids, NEW type \in StatelessTypes, NEW flags \in StatelessFlags(t, type)
  PROVE  flags \subseteq Flags(type) /\ type # "EXEC" /\ type # "UNLINK"
<1> USE DEF StatelessFlags, Flags, Flag
<1>1. CASE type = "OPEN"          BY <1>1 DEF trace_openat
<1>2. CASE type = "MODULE_LOAD"   BY <1>2 DEF trace_module
<1>3. CASE type = "BPF"           BY <1>3 DEF trace_bpf
<1>4. CASE type = "PRIVESC"       BY <1>4 DEF trace_commit_creds
<1>5. CASE type = "SOCKET_CREATE" BY <1>5 DEF trace_socket
<1>6. CASE type = "SETNS"         BY <1>6 DEF trace_setns
<1>7. CASE type = "PACKET"        BY <1>7 DEF emit_ip_packet
<1>8. CASE type = "ACCEPT"        BY <1>8 DEF trace_inet_csk_accept
<1>9. CASE type = "LISTEN"        BY <1>9 DEF trace_listen_start
<1>10. CASE type = "PTRACE"       BY <1>10 DEF trace_ptrace
<1>11. CASE type = "MPROTECT"     BY <1>11 DEF trace_mprotect
<1>12. CASE type = "VM_WRITEV"    BY <1>12 DEF trace_process_vm_writev
<1> QED
  BY <1>1, <1>2, <1>3, <1>4, <1>5, <1>6, <1>7, <1>8, <1>9, <1>10, <1>11, <1>12,
     KernelHooksAssumption

LEMMA ScratchStateless ==
  ASSUME Inv, NEW c \in Cpus, NEW t \in Tgids, trace_stateless(c, t)
  PROVE  ScratchInv'
<1>1. PICK type \in StatelessTypes :
        \E flags \in StatelessFlags(t, type) : Builds(c, t, type, None, {}, flags)
  BY DEF trace_stateless
<1>2. PICK flags \in StatelessFlags(t, type) : Builds(c, t, type, None, {}, flags)
  BY <1>1
<1> QED
  BY <1>2, StatelessFlagsFit, ScratchBuilds, NothingDeserved DEF Inv

(* An event that is given up stays in the slot, and nobody submits it.      *)
LEMMA ScratchAbandoned ==
  ASSUME ScratchInv, NEW c \in Cpus, NEW t \in Tgids, packet_abandoned(c, t)
  PROVE  ScratchInv'
<1>1. /\ running' = running /\ running[c] = Idle
      /\ scratch' = [scratch EXCEPT ![c] = [type |-> "PACKET", tgid |-> t, flags |-> {}]]
  BY FreshEvent DEF packet_abandoned, get_scratch_event
<1>2. Slots'
  BY <1>1 DEF ScratchInv, Slots
<1>3. FlagsFit'
  BY <1>1 DEF ScratchInv, Slots, FlagsFit
<1>4. SubmitsOwnEvent' /\ MemfdThenExecFlagged' /\ SelfDeleteFlagged'
  BY <1>1 DEF ScratchInv, Slots, SubmitsOwnEvent, MemfdThenExecFlagged, SelfDeleteFlagged,
              Knows, get_scratch_event
<1> QED
  BY <1>2, <1>3, <1>4 DEF ScratchInv

LEMMA ScratchSubmit ==
  ASSUME ScratchInv, NEW c \in Cpus, submit_event(c)
  PROVE  ScratchInv'
<1>1. scratch' = scratch /\ running' = [running EXCEPT ![c] = Idle]
  BY DEF submit_event
<1> QED
  BY <1>1 DEF ScratchInv, Slots, FlagsFit, SubmitsOwnEvent, MemfdThenExecFlagged,
              SelfDeleteFlagged, Knows, get_scratch_event

-----------------------------------------------------------------------------
LEMMA ScratchKept == ScratchInv /\ UNCHANGED <<running, scratch>> => ScratchInv'
BY DEF ScratchInv, Slots, FlagsFit, SubmitsOwnEvent, MemfdThenExecFlagged, SelfDeleteFlagged,
       Knows, get_scratch_event

LEMMA MapsKept == MapInv /\ UNCHANGED <<proc, mapVars>> => MapInv'
BY DEF MapInv, MapTypes, MemfdKept, PathKept, mapVars

LEMMA InvariantStep == Inv /\ [Next]_vars => Inv'
<1> SUFFICES ASSUME Inv, [Next]_vars PROVE Inv'
  OBVIOUS
<1>1. ASSUME NEW c \in Cpus, NEW t \in Tgids, trace_execve(c, t) PROVE Inv'
  BY <1>1, MapsExecve, ScratchExecve DEF Inv
<1>2. ASSUME NEW c \in Cpus, NEW t \in Tgids, trace_memfd_create(c, t) PROVE Inv'
  BY <1>2, MapsMemfd, ScratchMemfd DEF Inv
<1>3. ASSUME NEW c \in Cpus, NEW t \in Tgids, trace_unlinkat(c, t) PROVE Inv'
  BY <1>3, MapsKept, ScratchUnlinkat DEF Inv, trace_unlinkat
<1>4. ASSUME NEW c \in Cpus, NEW t \in Tgids, trace_connect(c, t) PROVE Inv'
  BY <1>4, MapsKept, ScratchConnect DEF Inv, trace_connect
<1>5. ASSUME NEW c \in Cpus, NEW t \in Tgids, trace_stateless(c, t) PROVE Inv'
  BY <1>5, MapsKept, ScratchStateless DEF Inv, trace_stateless
<1>6. ASSUME NEW c \in Cpus, NEW t \in Tgids, packet_abandoned(c, t) PROVE Inv'
  BY <1>6, MapsKept, ScratchAbandoned DEF Inv, packet_abandoned
<1>7. ASSUME NEW c \in Cpus, submit_event(c) PROVE Inv'
  BY <1>7, MapsKept, ScratchSubmit DEF Inv, submit_event
<1>8. ASSUME NEW t \in Tgids, ExecSucceeds(t) \/ ExecFails(t) \/ Recycle(t) PROVE Inv'
  BY <1>8, MapsProcess, ScratchKept DEF Inv, ExecSucceeds, ExecFails, Recycle
<1>9. ASSUME NEW t \in Tgids, LruEvict(t) PROVE Inv'
  BY <1>9, MapsEvict, ScratchKept DEF Inv, LruEvict
<1>10. CASE UNCHANGED vars
  BY <1>10, MapsKept, ScratchKept DEF Inv, vars
<1> QED
  BY <1>1, <1>2, <1>3, <1>4, <1>5, <1>6, <1>7, <1>8, <1>9, <1>10 DEF Next

LEMMA Invariant == Spec => []Inv
<1>1. Init => Inv
  BY InitMaps, InitScratch DEF Inv
<1> QED
  BY <1>1, InvariantStep, PTL DEF Spec

(* The maps and the scratch events keep their types, and no event carries a *)
(* flag that is not of its kind (fill_common after any other program).      *)
THEOREM TypeCorrect == Spec => []TypeOK
<1>1. Inv => TypeOK
  BY DEF Inv, MapInv, MapTypes, ScratchInv, FlagsFit, TypeOK
<1> QED
  BY Invariant, <1>1, PTL

(* get_scratch_event is per CPU: a program submits the event it filled.     *)
THEOREM OwnEventSubmitted == Spec => []SubmitsOwnEvent
<1>1. Inv => SubmitsOwnEvent
  BY DEF Inv, ScratchInv
<1> QED
  BY Invariant, <1>1, PTL

(* memfd_pids lets trace_execve flag every exec of a process that has       *)
(* called memfd_create, as long as its entry is not evicted.                *)
THEOREM MemfdCorrelation == Spec => []MemfdThenExecFlagged
<1>1. Inv => MemfdThenExecFlagged
  BY DEF Inv, ScratchInv
<1> QED
  BY Invariant, <1>1, PTL

(* exec_paths lets trace_unlinkat flag a process that unlinks the file it   *)
(* was executed from, whoever had its tgid before.                          *)
THEOREM SelfDeleteCorrelation == Spec => []SelfDeleteFlagged
<1>1. Inv => SelfDeleteFlagged
  BY DEF Inv, ScratchInv
<1> QED
  BY Invariant, <1>1, PTL
-----------------------------------------------------------------------------
(* What check_ld_preload and exec_history do instead of what is said of     *)
(* them                                                                     *)

(* "LD_PRELOAD=" has eleven characters, so a variable of that name, however *)
(* long, fills the twelve bytes: the helper returns 12 and never 11.        *)
LEMMA PreloadNeverRecognised ==
  ASSUME NEW env,
         \A v \in env : v.length \in Nat /\ (v.name = "LD_PRELOAD" => v.length >= 11)
  PROVE  ~check_ld_preload(env)
<1>1. ASSUME NEW v \in env, v.name = "LD_PRELOAD" PROVE ReadUserStr(v.length, 12) = 12
  BY <1>1 DEF ReadUserStr
<1> QED
  BY <1>1 DEF check_ld_preload

PreloadUnseen == \A c \in Cpus : "LD_PRELOAD_FOUND" \notin scratch[c].flags

(* A slot changes to an event that is not an exec's, or stays.              *)
LEMMA OtherEvents ==
  ASSUME ScratchInv, [Next]_vars,
         \A c \in Cpus, t \in Tgids : ~trace_execve(c, t),
         NEW c \in Cpus
  PROVE  scratch'[c] = scratch[c] \/ scratch'[c].type # "EXEC"
<1>1. ASSUME NEW d \in Cpus, NEW t, NEW type, NEW file, NEW env, NEW flags,
             Builds(d, t, type, file, env, flags), type # "EXEC"
      PROVE  scratch'[c] = scratch[c] \/ scratch'[c].type # "EXEC"
  BY <1>1, FreshEvent DEF Builds, get_scratch_event, ScratchInv, Slots
<1>2. ASSUME NEW d \in Cpus, NEW t \in Tgids,
             \/ trace_memfd_create(d, t) \/ trace_unlinkat(d, t)
             \/ trace_connect(d, t) \/ trace_stateless(d, t)
      PROVE  scratch'[c] = scratch[c] \/ scratch'[c].type # "EXEC"
  BY <1>1, <1>2, StatelessFlagsFit
     DEF trace_memfd_create, trace_unlinkat, trace_connect, trace_stateless
<1>3. ASSUME NEW d \in Cpus, NEW t \in Tgids, packet_abandoned(d, t)
      PROVE  scratch'[c] = scratch[c] \/ scratch'[c].type # "EXEC"
  BY <1>3, FreshEvent DEF packet_abandoned, get_scratch_event, ScratchInv, Slots
<1> QED
  BY <1>2, <1>3 DEF Next, vars, submit_event, ExecSucceeds, ExecFails, Recycle, LruEvict

LEMMA PreloadUnseenInductive ==
  ASSUME Inv, Inv', PreloadUnseen, [Next]_vars
  PROVE  PreloadUnseen'
<1>1. ASSUME NEW c \in Cpus, NEW t \in Tgids, trace_execve(c, t) PROVE PreloadUnseen'
  <2>1. PICK target \in Paths, env \in Environments :
          Builds(c, t, "EXEC", target, env, ExecFlags(t, target, env))
    BY <1>1 DEF trace_execve
  <2>2. ~check_ld_preload(env)
    BY PreloadNeverRecognised DEF Environments, PreloadVar, ShortVar
  <2>3. "LD_PRELOAD_FOUND" \notin ExecFlags(t, target, env)
    BY <2>2 DEF ExecFlags, Flag
  <2>4. [fill_common(c, t, "EXEC") EXCEPT !.flags = @ \union ExecFlags(t, target, env)]
          = [type |-> "EXEC", tgid |-> t, flags |-> {} \union ExecFlags(t, target, env)]
    BY FreshEvent
  <2> QED
    BY <2>1, <2>3, <2>4 DEF Builds, get_scratch_event, PreloadUnseen, Inv, ScratchInv, Slots
<1>2. CASE \A c \in Cpus, t \in Tgids : ~trace_execve(c, t)
  <2>1. ASSUME NEW c \in Cpus, scratch'[c].type # "EXEC"
        PROVE  "LD_PRELOAD_FOUND" \notin scratch'[c].flags
    BY <2>1 DEF Inv, ScratchInv, FlagsFit, Flags
  <2> QED
    BY <1>2, <2>1, OtherEvents DEF Inv, PreloadUnseen
<1> QED
  BY <1>1, <1>2

(* No event ever carries LD_PRELOAD_FOUND, whatever the environments: the   *)
(* rule ld-preload-injection cannot fire.                                   *)
THEOREM LdPreloadNeverFlagged == Spec => []PreloadUnseen
<1>1. Init => PreloadUnseen
  BY DEF Init, PreloadUnseen, Zero
<1> QED
  BY <1>1, PreloadUnseenInductive, Invariant, PTL DEF Spec

(* While an execve is in progress, its entry names the caller, and so it    *)
(* does when the execve has succeeded: not the binary that runs then.       *)
CallerNamed ==
  \A t \in Tgids :
    proc[t].calls # None /\ execHistory[t] # None => execHistory[t] = proc[t].image

OldNameKept ==
  [][\A t \in Tgids : proc[t].calls # None /\ proc'[t].calls = None /\ execHistory'[t] # None
       => execHistory'[t] = proc[t].image]_vars

LEMMA CallerNamedInductive ==
  ASSUME MapTypes, CallerNamed, [Next]_vars
  PROVE  CallerNamed'
<1>1. ASSUME NEW c \in Cpus, NEW t \in Tgids, trace_execve(c, t) PROVE CallerNamed'
  <2>1. PICK target \in Paths : /\ proc' = [proc EXCEPT ![t].calls = target]
                                /\ execHistory' = [execHistory EXCEPT ![t] = proc[t].image]
    BY <1>1 DEF trace_execve, RecordExec
  <2>2. \A u \in Tgids : proc'[u].image = proc[u].image
    BY <2>1 DEF MapTypes, Processes
  <2> QED
    BY <2>1, <2>2 DEF MapTypes, CallerNamed
<1>2. ASSUME NEW c \in Cpus, NEW t \in Tgids, trace_memfd_create(c, t) PROVE CallerNamed'
  BY <1>2 DEF trace_memfd_create, MapTypes, Processes, CallerNamed
<1>3. ASSUME NEW t \in Tgids, ExecSucceeds(t) \/ ExecFails(t) \/ Recycle(t) PROVE CallerNamed'
  <2>1. proc'[t].calls = None /\ \A u \in Tgids : u # t => proc'[u] = proc[u]
    <3>1. proc \in [Tgids -> Processes]
      BY DEF MapTypes
    <3>2. CASE ExecSucceeds(t)
      BY <3>1, <3>2 DEF ExecSucceeds, Processes
    <3>3. CASE ExecFails(t)
      BY <3>1, <3>3 DEF ExecFails, Processes
    <3>4. CASE Recycle(t)
      BY <3>1, <3>4, FreshProcess DEF Recycle
    <3> QED
      BY <1>3, <3>2, <3>3, <3>4
  <2>2. execHistory' = execHistory
    BY <1>3 DEF ExecSucceeds, ExecFails, Recycle, mapVars
  <2> QED
    BY <2>1, <2>2 DEF CallerNamed
<1>4. ASSUME NEW t \in Tgids, LruEvict(t) PROVE CallerNamed'
  BY <1>4 DEF LruEvict, MapTypes, CallerNamed
<1>5. UNCHANGED <<proc, mapVars>> => CallerNamed'
  BY DEF CallerNamed, mapVars
<1> QED
  BY <1>1, <1>2, <1>3, <1>4, <1>5
     DEF Next, vars, trace_unlinkat, trace_connect, trace_stateless, packet_abandoned, submit_event

(* exec_history names what the process executed before, not what it         *)
(* executed: the entry that a completed execve leaves is its caller's.      *)
THEOREM ExecHistoryNamesCaller == Spec => []CallerNamed /\ OldNameKept
<1>1. Init => CallerNamed
  BY DEF Init, CallerNamed
<1>2. Inv /\ CallerNamed /\ [Next]_vars => CallerNamed'
  BY CallerNamedInductive DEF Inv, MapInv
<1> DEFINE Kept(t) == proc[t].calls # None /\ proc'[t].calls = None /\ execHistory'[t] # None
                        => execHistory'[t] = proc[t].image
<1>3. ASSUME Inv, CallerNamed, [Next]_vars, NEW t \in Tgids PROVE Kept(t)
  <2>1. ASSUME NEW c \in Cpus, NEW u \in Tgids, trace_execve(c, u) PROVE Kept(t)
    <3>1. PICK target \in Paths : /\ proc' = [proc EXCEPT ![u].calls = target]
                                  /\ proc[u].calls = None
      BY <2>1 DEF trace_execve
    <3> QED
      BY <3>1 DEF Inv, MapInv, MapTypes
  <2>2. CASE execHistory'[t] = execHistory[t]
    BY <1>3, <2>2 DEF CallerNamed
  <2>3. CASE execHistory'[t] = None
    BY <2>3
  <2> QED
    BY <1>3, <2>1, <2>2, <2>3
       DEF Next, vars, mapVars, trace_memfd_create, trace_unlinkat, trace_connect, trace_stateless,
           packet_abandoned, submit_event, ExecSucceeds, ExecFails, Recycle, LruEvict, Inv, MapInv, MapTypes
<1>4. Inv /\ CallerNamed /\ [Next]_vars => [\A t \in Tgids : Kept(t)]_vars
  BY <1>3
<1> QED
  BY <1>1, <1>2, <1>4, Invariant, PTL DEF Spec, OldNameKept
=============================================================================
