---------------------------- MODULE KernelHooks -----------------------------
(***************************************************************************)
(* The BPF programs of monitor.bpf.c and the state they share: an event    *)
(* under construction per CPU (scratch) and three LRU maps keyed by tgid   *)
(* that let one system call's program judge a later call.  The programs    *)
(* run beside the life of the processes they watch: exec succeeds or fails *)
(* after sys_enter_execve, processes exit and tgids are used again.        *)
(*                                                                         *)
(* Abstractions.  A binary stands for its comm and its path; of an event,  *)
(* the type, the caller and the flags are kept.  A program fills its       *)
(* event, sets the flags and touches the maps in one step - programs share *)
(* nothing else, and no property tells the order of its own map calls -    *)
(* and submits in a second one.  Programs do not nest on a CPU (the kernel *)
(* skips a tracing program that would).                                    *)
(***************************************************************************)
EXTENDS Integers, FiniteSets

CONSTANTS
  Cpus,
  Tgids,
  StatelessTypes  \* the event types without shared state that are exercised

ASSUME KernelHooksAssumption ==
  StatelessTypes \subseteq {"OPEN", "MODULE_LOAD", "BPF", "PRIVESC", "SOCKET_CREATE", "SETNS",
                            "PACKET", "ACCEPT", "LISTEN", "PTRACE", "MPROTECT", "VM_WRITEV"}

(* Binaries: a shell or interpreter and another program, which may also be  *)
(* executed through a path under /proc/self/fd, /dev/fd or memfd:.          *)
Shell    == "bash"
Ordinary == "curl"
Binaries == {Shell, Ordinary}
FdPath   == "/proc/self/fd/3"
Paths    == Binaries \union {FdPath}
None     == "none"

BinaryAt(path) == IF path = FdPath THEN Ordinary ELSE path

is_shell_or_interpreter(comm) == comm = Shell
is_fileless_exec_target(path) == path = FdPath

VARIABLES
  proc,        \* proc[t]: the process that has tgid t
  running,     \* running[c]: the invocation on CPU c, or Idle (history)
  scratch,     \* scratch[c]: the CPU's event, left as the last program left it
  execHistory, \* exec_history
  execPaths,   \* exec_paths
  memfdPids,   \* memfd_pids
  evicted      \* evicted[t]: which entries of t other keys pushed out (history)

mapVars == <<execHistory, execPaths, memfdPids, evicted>>
vars == <<proc, running, scratch, mapVars>>

(* image: the binary that runs; calls: the path of the execve in progress;  *)
(* from: the path it was exec'd from, if its last execve succeeded; memfd:  *)
(* it has called memfd_create.                                              *)
Processes == [image : Binaries, calls : Paths \union {None},
              from : Paths \union {None}, memfd : BOOLEAN]

Idle == [type |-> None]
Zero == [type |-> None, tgid |-> None, flags |-> {}]

(* The slot of scratch that a program on CPU c gets; and, as a slip, one    *)
(* slot for all CPUs.                                                       *)
scratch_of_first_cpu(c) == CHOOSE d \in Cpus : TRUE
get_scratch_event(c) == c

(* Everything is zeroed but the identity of the caller; and, as a slip, the *)
(* event is filled over what the last program left.                         *)
fill_over(c, t, type) == [scratch[get_scratch_event(c)] EXCEPT !.type = type, !.tgid = t]
fill_common(c, t, type) == [Zero EXCEPT !.type = type, !.tgid = t]

Fresh(b) == [image |-> b, calls |-> None, from |-> None, memfd |-> FALSE]

Init ==
  /\ proc \in [Tgids -> {Fresh(b) : b \in Binaries}]
  /\ running = [c \in Cpus |-> Idle]
  /\ scratch = [c \in Cpus |-> Zero]
  /\ execHistory = [t \in Tgids |-> None]
  /\ execPaths = [t \in Tgids |-> None]
  /\ memfdPids = {}
  /\ evicted = [t \in Tgids |-> {}]

-----------------------------------------------------------------------------
(* An environment is the set of its first 50 variables, each with what      *)
(* check_ld_preload looks at: its name and its length.                      *)
PreloadVar == [name |-> "LD_PRELOAD", length |-> 24]
ShortVar   == [name |-> "OTHER", length |-> 10]
Environments == SUBSET {PreloadVar, ShortVar}

(* Every program: it fills the scratch event of its CPU and adds flags.     *)

Flag(condition, f) == IF condition THEN {f} ELSE {}

(* The flags the life of the process calls for, whatever the maps hold: an  *)
(* exec after memfd_create, an unlink of the file the process was exec'd    *)
(* from, LD_PRELOAD in the environment.  Only LRU pressure excuses a        *)
(* program from knowing.                                                    *)
Deserved(t, type, file, env) ==
  Flag(PreloadVar \in env, "LD_PRELOAD_FOUND")
    \union
  Flag(type = "EXEC" /\ proc[t].memfd /\ "memfd" \notin evicted[t], "FILELESS_EXEC")
    \union
  Flag(/\ type = "UNLINK" /\ file = proc[t].from
       /\ proc[t].calls = None /\ "path" \notin evicted[t], "SELF_DELETE")

(* A program runs on c for t. *)
Builds(c, t, type, file, env, flags) ==
  /\ running[c] = Idle
  /\ scratch' = [scratch EXCEPT
       ![get_scratch_event(c)] = [fill_common(c, t, type) EXCEPT !.flags = @ \union flags]]
  /\ running' = [running EXCEPT
       ![c] = [type |-> type, tgid |-> t, deserved |-> Deserved(t, type, file, env)]]

(* submit_event: the ring takes a copy or the event is dropped and counted  *)
(* (EventTransport); either way the CPU's event keeps its contents.         *)
submit_event(c) ==
  /\ running[c] # Idle
  /\ running' = [running EXCEPT ![c] = Idle]
  /\ UNCHANGED <<proc, scratch, mapVars>>

-----------------------------------------------------------------------------
(* Programs that keep state in the maps *)

(* bpf_probe_read_user_str returns the bytes it stored, the NUL included.   *)
ReadUserStr(length, size) == IF length + 1 <= size THEN length + 1 ELSE size

check_ld_preload(env) ==
  \E v \in env : ReadUserStr(v.length, 12) = 11 /\ v.name = "LD_PRELOAD"

ExecFlags(t, target, env) ==
  Flag(check_ld_preload(env), "LD_PRELOAD_FOUND") \union
  Flag(is_fileless_exec_target(target) \/ t \in memfdPids, "FILELESS_EXEC")

(* The maps take the path asked for and the caller's comm.  Slip: the path  *)
(* is stored with BPF_NOEXIST.                                              *)
RecordExec_noexist(t, target) ==
  /\ execPaths' = [execPaths EXCEPT ![t] = IF @ = None THEN target ELSE @]
  /\ execHistory' = [execHistory EXCEPT ![t] = proc[t].image]
  /\ evicted' = [evicted EXCEPT ![t] = @ \ {"path"}]

RecordExec(t, target) ==
  /\ execPaths' = [execPaths EXCEPT ![t] = target]
  /\ execHistory' = [execHistory EXCEPT ![t] = proc[t].image]
  /\ evicted' = [evicted EXCEPT ![t] = @ \ {"path"}]

(* Slip: the first exec uses up the memfd entry.                            *)
trace_execve_uses_up_memfd(c, t) ==
  /\ proc[t].calls = None
  /\ \E target \in Paths, env \in Environments :
       /\ Builds(c, t, "EXEC", target, env, ExecFlags(t, target, env))
       /\ RecordExec(t, target)
       /\ proc' = [proc EXCEPT ![t].calls = target]
       /\ memfdPids' = memfdPids \ {t}

trace_execve(c, t) ==
  /\ proc[t].calls = None
  /\ \E target \in Paths, env \in Environments :
       /\ Builds(c, t, "EXEC", target, env, ExecFlags(t, target, env))
       /\ RecordExec(t, target)
       /\ proc' = [proc EXCEPT ![t].calls = target]
       /\ UNCHANGED memfdPids

trace_memfd_create(c, t) ==
  /\ Builds(c, t, "MEMFD", None, {}, {})
  /\ memfdPids' = memfdPids \union {t}
  /\ evicted' = [evicted EXCEPT ![t] = @ \ {"memfd"}]
  /\ proc' = [proc EXCEPT ![t].memfd = TRUE]
  /\ UNCHANGED <<execHistory, execPaths>>

trace_unlinkat(c, t) ==
  /\ \E file \in Paths :
       Builds(c, t, "UNLINK", file, {}, Flag(execPaths[t] = file, "SELF_DELETE"))
  /\ UNCHANGED <<proc, mapVars>>

(* trace_connect_v4 and _v6, trace_udp_sendmsg, trace_udpv6_sendmsg.        *)
trace_connect(c, t) ==
  /\ Builds(c, t, "CONNECT", None, {},
            Flag(is_shell_or_interpreter(execHistory[t]), "REVERSE_SHELL_LIKELY"))
  /\ UNCHANGED <<proc, mapVars>>

-----------------------------------------------------------------------------
(* Programs that judge their own call only: the flags each may set, over    *)
(* the arguments the call may have.                                         *)

trace_openat == {Flag(writeish /\ persistence, "PERSISTENCE_WRITE") :
                   writeish, persistence \in BOOLEAN}
trace_module == {{"KERNEL_MODULE_LOAD"}}
trace_bpf    == {Flag(progLoad, "UNAUTHORIZED_BPF") : progLoad \in BOOLEAN}
(* Equal uids return before the event is filled. *)
trace_commit_creds ==
  {Flag(uids[1] # 0 /\ uids[2] = 0, "PRIVESC_TO_ROOT") :
     uids \in {u \in (0..2) \X (0..2) : u[1] # u[2]}}
trace_socket == {Flag(family = "AF_PACKET" \/ kind = "SOCK_RAW", "RAW_SOCKET") :
                   family \in {"AF_INET", "AF_PACKET"}, kind \in {"SOCK_STREAM", "SOCK_RAW"}}
trace_setns  == {{"NAMESPACE_MANIPULATION"}}
emit_ip_packet == {{}}
trace_inet_csk_accept(t) == {Flag(is_shell_or_interpreter(proc[t].image), "BIND_SHELL_LIKELY")}
trace_listen_start(t) == {Flag(is_shell_or_interpreter(proc[t].image), "UNEXPECTED_LISTENER")}
trace_ptrace == {{}}
trace_mprotect == {Flag(write /\ exec, "WX_BYPASS") : write, exec \in BOOLEAN}
trace_process_vm_writev(t) ==
  {Flag(target # "0" /\ target # t, "CROSS_PROCESS_INJECT") : target \in Tgids \union {"0", "other"}}

StatelessFlags(t, type) ==
  CASE type = "OPEN" -> trace_openat
    [] type = "MODULE_LOAD" -> trace_module
    [] type = "BPF" -> trace_bpf
    [] type = "PRIVESC" -> trace_commit_creds
    [] type = "SOCKET_CREATE" -> trace_socket
    [] type = "SETNS" -> trace_setns
    [] type = "PACKET" -> emit_ip_packet
    [] type = "ACCEPT" -> trace_inet_csk_accept(t)
    [] type = "LISTEN" -> trace_listen_start(t)
    [] type = "PTRACE" -> trace_ptrace
    [] type = "MPROTECT" -> trace_mprotect
    [] type = "VM_WRITEV" -> trace_process_vm_writev(t)

trace_stateless(c, t) ==
  /\ \E type \in StatelessTypes : \E flags \in StatelessFlags(t, type) :
       Builds(c, t, type, None, {}, flags)
  /\ UNCHANGED <<proc, mapVars>>

(* emit_ip_packet fills the event and gives it up when the header turns out *)
(* unreadable or of no known version.                                       *)
packet_abandoned(c, t) ==
  /\ "PACKET" \in StatelessTypes
  /\ running[c] = Idle
  /\ scratch' = [scratch EXCEPT ![get_scratch_event(c)] = fill_common(c, t, "PACKET")]
  /\ UNCHANGED <<proc, running, mapVars>>

-----------------------------------------------------------------------------
(* The kernel around the programs *)

Quiet(t) == \A c \in Cpus : running[c] # Idle => running[c].tgid # t

(* execve succeeds after its program ran; the other threads are gone.       *)
ExecSucceeds(t) ==
  /\ proc[t].calls # None /\ Quiet(t)
  /\ LET path == proc[t].calls IN
       proc' = [proc EXCEPT ![t] = [@ EXCEPT !.image = BinaryAt(path), !.from = path,
                                             !.calls = None]]
  /\ UNCHANGED <<running, scratch, mapVars>>

ExecFails(t) ==
  /\ proc[t].calls # None /\ Quiet(t)
  /\ proc' = [proc EXCEPT ![t] = [@ EXCEPT !.calls = None, !.from = None]]
  /\ UNCHANGED <<running, scratch, mapVars>>

(* The process exits and a forked one gets its tgid; no program notices.    *)
Recycle(t) ==
  /\ proc[t].calls = None /\ Quiet(t)
  /\ \E b \in Binaries : proc' = [proc EXCEPT ![t] = Fresh(b)]
  /\ UNCHANGED <<running, scratch, mapVars>>

(* Other keys push an entry of t out of an LRU map. *)
LruEvict(t) ==
  \/ /\ execHistory[t] # None
     /\ execHistory' = [execHistory EXCEPT ![t] = None]
     /\ UNCHANGED <<proc, running, scratch, execPaths, memfdPids, evicted>>
  \/ /\ execPaths[t] # None
     /\ execPaths' = [execPaths EXCEPT ![t] = None]
     /\ evicted' = [evicted EXCEPT ![t] = @ \union {"path"}]
     /\ UNCHANGED <<proc, running, scratch, execHistory, memfdPids>>
  \/ /\ t \in memfdPids
     /\ memfdPids' = memfdPids \ {t}
     /\ evicted' = [evicted EXCEPT ![t] = @ \union {"memfd"}]
     /\ UNCHANGED <<proc, running, scratch, execHistory, execPaths>>

Next ==
  \/ \E c \in Cpus : \E t \in Tgids :
       \/ trace_execve(c, t) \/ trace_memfd_create(c, t) \/ trace_unlinkat(c, t)
       \/ trace_connect(c, t) \/ trace_stateless(c, t) \/ packet_abandoned(c, t)
  \/ \E c \in Cpus : submit_event(c)
  \/ \E t \in Tgids : ExecSucceeds(t) \/ ExecFails(t) \/ Recycle(t) \/ LruEvict(t)

Spec == Init /\ [][Next]_vars

-----------------------------------------------------------------------------
(* Properties *)

Flags(type) ==
  CASE type = "EXEC" -> {"LD_PRELOAD_FOUND", "FILELESS_EXEC"}
    [] type = "OPEN" -> {"PERSISTENCE_WRITE"}
    [] type = "CONNECT" -> {"REVERSE_SHELL_LIKELY"}
    [] type = "ACCEPT" -> {"BIND_SHELL_LIKELY"}
    [] type = "LISTEN" -> {"UNEXPECTED_LISTENER"}
    [] type = "MPROTECT" -> {"WX_BYPASS"}
    [] type = "VM_WRITEV" -> {"CROSS_PROCESS_INJECT"}
    [] type = "MODULE_LOAD" -> {"KERNEL_MODULE_LOAD"}
    [] type = "BPF" -> {"UNAUTHORIZED_BPF"}
    [] type = "PRIVESC" -> {"PRIVESC_TO_ROOT"}
    [] type = "SOCKET_CREATE" -> {"RAW_SOCKET"}
    [] type = "UNLINK" -> {"SELF_DELETE"}
    [] type = "SETNS" -> {"NAMESPACE_MANIPULATION"}
    [] OTHER -> {}

(* Types; among them, that an event carries only flags of its own kind: the *)
(* scratch event keeps nothing of the program that used it before.          *)
TypeOK ==
  /\ proc \in [Tgids -> Processes]
  /\ \A c \in Cpus : scratch[c].flags \subseteq Flags(scratch[c].type)
  /\ execHistory \in [Tgids -> Binaries \union {None}]
  /\ execPaths \in [Tgids -> Paths \union {None}]
  /\ memfdPids \subseteq Tgids
  /\ evicted \in [Tgids -> SUBSET {"path", "memfd"}]

(* What a program submits is the event it built, whatever ran on the other  *)
(* CPUs between its filling the event and submitting it.                    *)
SubmitsOwnEvent ==
  \A c \in Cpus : running[c] # Idle =>
    LET ev == scratch[get_scratch_event(c)] IN
      ev.type = running[c].type /\ ev.tgid = running[c].tgid

Knows(flag) ==
  \A c \in Cpus : running[c] # Idle /\ flag \in running[c].deserved =>
    flag \in scratch[get_scratch_event(c)].flags

(* A process that has called memfd_create has each later exec flagged,      *)
(* through failed execs and other images, and although the memfd_create     *)
(* event itself may have been dropped, unless its entry was evicted.        *)
MemfdThenExecFlagged == Knows("FILELESS_EXEC")

(* A process that unlinks the path of its last exec, which succeeded, is    *)
(* flagged, whoever used the tgid before, unless the entry was evicted.     *)
SelfDeleteFlagged == Knows("SELF_DELETE")

(* detect.go, rule ld-preload-injection: "exec'd %q with LD_PRELOAD set     *)
(* (kernel flagged)".  An exec with LD_PRELOAD in its environment is        *)
(* flagged.                                                                 *)
LdPreloadFlagged == Knows("LD_PRELOAD_FOUND")

(* monitor.bpf.c, at exec_history: "What binary a PID executed".  Once an   *)
(* exec is over, the entry names the binary that runs.                      *)
ExecHistoryNamesBinary ==
  \A t \in Tgids :
    proc[t].from # None /\ proc[t].calls = None /\ execHistory[t] # None
      => execHistory[t] = proc[t].image
=============================================================================
