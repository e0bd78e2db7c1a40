------------------------------ MODULE Detector ------------------------------
(***************************************************************************)
(* detect.go: the detection engine.  The main goroutine hands it one event *)
(* after another (Handle); a reaper goroutine deletes what it remembers of *)
(* old execs.  Both take the mutex around procs only, so the decision of   *)
(* handleConnect is made after its lookup, from a copy.                    *)
(*                                                                         *)
(* Time passes in ticks; an execTime is kept as the age it has now, capped *)
(* at one tick past Ttl, where nothing tells it from an older one.         *)
(***************************************************************************)
EXTENDS Integers, FiniteSets

CONSTANTS
  Tgids,
  Ttl,          \* Detector.ttl, 30 s
  ShellWindow,  \* handleConnect's 3 s
  ReaperPeriod, \* the reaper's ticker, 10 s
  AllowedComms, AllowedExecutables, DisabledRules  \* Config

ASSUME DetectorAssumption ==
  /\ Ttl \in Nat /\ ShellWindow \in 1..Ttl /\ ReaperPeriod \in Nat \ {0}

(* Comms: a shell, a web server, a debugger, another; no comm is a path.    *)
Comms == {"bash", "nginx", "gdb", "curl"}
isShellComm(comm)     == comm = "bash"
isWebServerComm(comm) == comm = "nginx"
isDebuggerComm(comm)  == comm = "gdb"

(* File names: none, a shell, a sensitive file, another executable.         *)
NoFile == ""
shellBinaries(path)  == path = "/bin/bash"
sensitivePaths(path) == path = "/etc/shadow"

(* The flags the BPF programs put on each type (KernelHooks), and the rule  *)
(* each stands for.                                                         *)
RuleOfFlag ==
  [LD_PRELOAD_FOUND |-> "ld-preload-injection", FILELESS_EXEC |-> "fileless-execution",
   PERSISTENCE_WRITE |-> "persistence-write", REVERSE_SHELL_LIKELY |-> "reverse-shell-pattern",
   BIND_SHELL_LIKELY |-> "bind-shell-pattern", UNEXPECTED_LISTENER |-> "unexpected-listener",
   WX_BYPASS |-> "wx-memory-bypass", CROSS_PROCESS_INJECT |-> "cross-process-memory-write",
   KERNEL_MODULE_LOAD |-> "kernel-module-load", UNAUTHORIZED_BPF |-> "bpf-program-load",
   PRIVESC_TO_ROOT |-> "privilege-escalation-to-root", RAW_SOCKET |-> "raw-or-packet-socket",
   SELF_DELETE |-> "self-delete", NAMESPACE_MANIPULATION |-> "namespace-manipulation"]

FlagsOfType ==
  [EXEC |-> {"LD_PRELOAD_FOUND", "FILELESS_EXEC"}, OPEN |-> {"PERSISTENCE_WRITE"},
   CONNECT |-> {"REVERSE_SHELL_LIKELY"}, ACCEPT |-> {"BIND_SHELL_LIKELY"},
   LISTEN |-> {"UNEXPECTED_LISTENER"}, MPROTECT |-> {"WX_BYPASS"},
   VM_WRITEV |-> {"CROSS_PROCESS_INJECT"}, MODULE_LOAD |-> {"KERNEL_MODULE_LOAD"},
   BPF |-> {"UNAUTHORIZED_BPF"}, PRIVESC |-> {"PRIVESC_TO_ROOT"},
   SOCKET_CREATE |-> {"RAW_SOCKET"}, UNLINK |-> {"SELF_DELETE"},
   SETNS |-> {"NAMESPACE_MANIPULATION"}, PTRACE |-> {}, MEMFD |-> {}, PACKET |-> {}]

(* The names that can make a difference to a type.                          *)
Filenames(type) ==
  {NoFile} \union (IF type \in {"EXEC", "OPEN", "UNLINK", "MEMFD"} THEN {"/opt/tool"} ELSE {})
           \union (IF type = "EXEC" THEN {"/bin/bash"} ELSE {})
           \union (IF type = "OPEN" THEN {"/etc/shadow"} ELSE {})

(* argv0: an exec whose argv[0] does not go with its file name.             *)

EventsOfType(type) ==
  [type : {type}, tgid : Tgids, comm : Comms, file : Filenames(type),
   argv0 : IF type = "EXEC" THEN BOOLEAN ELSE {FALSE}, flags : SUBSET FlagsOfType[type]]

Events == UNION {EventsOfType(type) : type \in DOMAIN FlagsOfType}

NoExec == -1
Ages   == 0..(Ttl + 1)

VARIABLES
  procs,     \* procs[t]: the age of the exec remembered for t, or NoExec
  pc,        \* the main goroutine: "idle", or "connect" after the lookup
  event,     \* the event it handles, or handled last
  st,        \* handleConnect's copy of procs[event.tgid]
  alerts,    \* the rules onAlert was called with for the event
  reaper,    \* ticks until the reaper's ticker fires
  judged,    \* judged[t]: age of the last exec of t that Handle did not ignore (history)
  seen       \* seen[t]: age of the last exec of t that reached Handle (history)

vars == <<procs, pc, event, st, alerts, reaper, judged, seen>>

Init ==
  /\ procs = [t \in Tgids |-> NoExec]
  /\ pc = "idle"
  /\ event \in {e \in EventsOfType("PACKET") : e.comm = "curl"}
  /\ st = NoExec
  /\ alerts = {}
  /\ reaper = ReaperPeriod
  /\ judged = [t \in Tgids |-> NoExec]
  /\ seen = [t \in Tgids |-> NoExec]

-----------------------------------------------------------------------------
(* Rules *)

(* emit: policy is applied to each alert once more.  Slip: only to the comm. *)
Emitted_whatever_rule(ev, rules) ==
  IF ev.comm \in AllowedComms THEN {} ELSE rules

Emitted(ev, rules) ==
  IF ev.comm \in AllowedComms THEN {} ELSE rules \ DisabledRules

Rule(condition, rule) == IF condition THEN {rule} ELSE {}

handleExec(ev) ==
  Rule("LD_PRELOAD_FOUND" \in ev.flags, "ld-preload-injection") \union
  Rule("FILELESS_EXEC" \in ev.flags, "fileless-execution") \union
  Rule(ev.argv0, "argv0-filename-mismatch") \union
  Rule(shellBinaries(ev.file) /\ isWebServerComm(ev.comm), "shell-from-webserver")

handleOpen(ev) ==
  Rule("PERSISTENCE_WRITE" \in ev.flags, "persistence-write") \union
  Rule(sensitivePaths(ev.file), "sensitive-file-access")

handleAccept(ev)   == Rule("BIND_SHELL_LIKELY" \in ev.flags, "bind-shell-pattern")
handleListen(ev)   == Rule("UNEXPECTED_LISTENER" \in ev.flags, "unexpected-listener")
handlePtrace(ev)   == Rule(~isDebuggerComm(ev.comm), "unexpected-ptrace")
handleMprotect(ev) == Rule("WX_BYPASS" \in ev.flags, "wx-memory-bypass")
handleVmWritev(ev) == Rule("CROSS_PROCESS_INJECT" \in ev.flags, "cross-process-memory-write")

(* The first of the cases that applies; an event of these types has one    *)
(* flag at most, so that the cases exclude each other.                      *)
handleKernelSecurityEvent(ev) ==
  CASE "KERNEL_MODULE_LOAD" \in ev.flags -> {"kernel-module-load"}
    [] "UNAUTHORIZED_BPF" \in ev.flags -> {"bpf-program-load"}
    [] "PRIVESC_TO_ROOT" \in ev.flags -> {"privilege-escalation-to-root"}
    [] "RAW_SOCKET" \in ev.flags -> {"raw-or-packet-socket"}
    [] "SELF_DELETE" \in ev.flags -> {"self-delete"}
    [] "NAMESPACE_MANIPULATION" \in ev.flags -> {"namespace-manipulation"}
    [] OTHER -> {}

(* Handle's switch, without the two cases that use procs.  Slip: one type   *)
(* of kernel event is left out of it.                                       *)
Judge_without_setns(ev) ==
  CASE ev.type = "OPEN" -> handleOpen(ev)
    [] ev.type = "ACCEPT" -> handleAccept(ev)
    [] ev.type = "LISTEN" -> handleListen(ev)
    [] ev.type = "PTRACE" -> handlePtrace(ev)
    [] ev.type = "MPROTECT" -> handleMprotect(ev)
    [] ev.type = "VM_WRITEV" -> handleVmWritev(ev)
    [] ev.type \in {"MODULE_LOAD", "BPF", "PRIVESC", "MEMFD", "SOCKET_CREATE", "UNLINK"}
         -> handleKernelSecurityEvent(ev)
    [] OTHER -> {}

Judge(ev) ==
  CASE ev.type = "OPEN" -> handleOpen(ev)
    [] ev.type = "ACCEPT" -> handleAccept(ev)
    [] ev.type = "LISTEN" -> handleListen(ev)
    [] ev.type = "PTRACE" -> handlePtrace(ev)
    [] ev.type = "MPROTECT" -> handleMprotect(ev)
    [] ev.type = "VM_WRITEV" -> handleVmWritev(ev)
    [] ev.type \in {"MODULE_LOAD", "BPF", "PRIVESC", "MEMFD", "SOCKET_CREATE", "UNLINK", "SETNS"}
         -> handleKernelSecurityEvent(ev)
    [] OTHER -> {}

-----------------------------------------------------------------------------
(* Handle *)

Allowed(ev) ==
  \/ ev.comm \in AllowedComms
  \/ ev.file # NoFile /\ ev.file \in AllowedExecutables

(* The history of execs, as Handle starts on ev. *)
Notes(ev) ==
  /\ seen' = IF ev.type = "EXEC" THEN [seen EXCEPT ![ev.tgid] = 0] ELSE seen
  /\ judged' = IF ev.type = "EXEC" /\ ~Allowed(ev) THEN [judged EXCEPT ![ev.tgid] = 0] ELSE judged

(* Policy ignores the event: nothing is remembered of it either. *)
HandleAllowed(ev) ==
  /\ pc = "idle"
  /\ Allowed(ev)
  /\ event' = ev
  /\ alerts' = {}
  /\ Notes(ev)
  /\ UNCHANGED <<procs, pc, st, reaper>>

(* Slip: a second exec does not renew the entry. *)
HandleExec_first(ev) ==
  /\ pc = "idle" /\ ~Allowed(ev) /\ ev.type = "EXEC"
  /\ procs' = [procs EXCEPT ![ev.tgid] = IF @ = NoExec THEN 0 ELSE @]
  /\ event' = ev /\ alerts' = Emitted(ev, handleExec(ev)) /\ Notes(ev)
  /\ UNCHANGED <<pc, st, reaper>>

HandleExec(ev) ==
  /\ pc = "idle"
  /\ ~Allowed(ev)
  /\ ev.type = "EXEC"
  /\ procs' = [procs EXCEPT ![ev.tgid] = 0]
  /\ event' = ev
  /\ alerts' = Emitted(ev, handleExec(ev))
  /\ Notes(ev)
  /\ UNCHANGED <<pc, st, reaper>>

HandleOther(ev) ==
  /\ pc = "idle"
  /\ ~Allowed(ev)
  /\ ev.type \notin {"EXEC", "CONNECT"}
  /\ event' = ev
  /\ alerts' = Emitted(ev, Judge(ev))
  /\ UNCHANGED <<procs, pc, st, reaper, judged, seen>>

(* handleConnect copies the entry under the mutex ...                       *)
ConnectLookup(ev) ==
  /\ pc = "idle"
  /\ ~Allowed(ev)
  /\ ev.type = "CONNECT"
  /\ st' = procs[ev.tgid]
  /\ event' = ev
  /\ alerts' = {}
  /\ pc' = "connect"
  /\ UNCHANGED <<procs, reaper, judged, seen>>

(* ... and decides on the copy.  shellBinaries holds paths and execComm is  *)
(* a comm, so shellConnected is always false.  Slip: any recent exec will   *)
(* do, whatever runs now.                                                   *)
recentExec == st # NoExec /\ st < ShellWindow
recentShell == recentExec /\ isShellComm(event.comm)

ConnectDecide ==
  /\ pc = "connect"
  /\ LET kernelFlagged  == "REVERSE_SHELL_LIKELY" \in event.flags
         shellConnected == FALSE
     IN alerts' = Emitted(event, Rule(shellConnected \/ kernelFlagged \/ recentShell,
                                      "reverse-shell-pattern"))
  /\ pc' = "idle"
  /\ UNCHANGED <<procs, event, st, reaper, judged, seen>>

-----------------------------------------------------------------------------
(* Time and the reaper *)

Older(age) == IF age = NoExec THEN NoExec ELSE IF age > Ttl THEN age ELSE age + 1

(* A second passes; the copy main holds ages with the rest. *)
Tick ==
  /\ procs' = [t \in Tgids |-> Older(procs[t])]
  /\ st' = Older(st)
  /\ judged' = [t \in Tgids |-> Older(judged[t])]
  /\ seen' = [t \in Tgids |-> Older(seen[t])]
  /\ reaper' = IF reaper > 0 THEN reaper - 1 ELSE 0
  /\ UNCHANGED <<pc, event, alerts>>

(* Slip: an entry the reaper never finds old enough.                        *)
Expired_never(age)   == age > Ttl + ReaperPeriod
Expired(age) == age > Ttl

Reap ==
  /\ reaper = 0
  /\ procs' = [t \in Tgids |-> IF Expired(procs[t]) THEN NoExec ELSE procs[t]]
  /\ reaper' = ReaperPeriod
  /\ UNCHANGED <<pc, event, st, alerts, judged, seen>>

-----------------------------------------------------------------------------
Handle(ev) == HandleAllowed(ev) \/ HandleExec(ev) \/ HandleOther(ev) \/ ConnectLookup(ev)

Next == (\E ev \in Events : Handle(ev)) \/ ConnectDecide \/ Tick \/ Reap

(* Time passes, and the reaper's ticker keeps firing. *)
Spec == Init /\ [][Next]_vars /\ WF_vars(Tick) /\ WF_vars(Reap)

-----------------------------------------------------------------------------
(* Properties *)

(* Types; what is remembered is never younger than the exec it is about,    *)
(* and policy binds every alert.                                            *)
TypeOK ==
  /\ procs \in [Tgids -> Ages \union {NoExec}] /\ st \in Ages \union {NoExec}
  /\ judged \in [Tgids -> Ages \union {NoExec}] /\ seen \in [Tgids -> Ages \union {NoExec}]
  /\ pc \in {"idle", "connect"} /\ reaper \in 0..ReaperPeriod
  /\ event \in Events
  /\ alerts \intersect DisabledRules = {}
  /\ Allowed(event) => alerts = {}

Deciding == pc = "connect" /\ pc' = "idle"
Recent(age) == age # NoExec /\ age < ShellWindow

(* A shell that connects within the window after its exec was handled is    *)
(* reported, however the reaper and the clock run between, and whatever     *)
(* that tgid did before.                                                    *)
RecentShellReported ==
  [][Deciding /\ isShellComm(event.comm) /\ Recent(judged[event.tgid])
       /\ "reverse-shell-pattern" \notin DisabledRules
     => "reverse-shell-pattern" \in alerts']_vars

(* Every flag the kernel raises ends in the alert of its rule, unless       *)
(* policy suppresses it: no flag is dropped by the dispatch.                *)
FlaggedEventAlerts ==
  pc = "idle" /\ ~Allowed(event) =>
    \A flag \in event.flags : RuleOfFlag[flag] \in alerts \union DisabledRules

(* The engine implements the abstract one: whatever is reaped, copied or    *)
(* handled in between, the alerts of every event are those that the event   *)
(* and the time since the last exec which policy let through call for at    *)
(* that moment, no more and no fewer.                                       *)
Grounds(ev, recent) ==
  {RuleOfFlag[flag] : flag \in ev.flags} \union
  Rule(ev.type = "EXEC" /\ ev.argv0, "argv0-filename-mismatch") \union
  Rule(ev.type = "EXEC" /\ shellBinaries(ev.file) /\ isWebServerComm(ev.comm),
       "shell-from-webserver") \union
  Rule(ev.type = "OPEN" /\ sensitivePaths(ev.file), "sensitive-file-access") \union
  Rule(ev.type = "PTRACE" /\ ~isDebuggerComm(ev.comm), "unexpected-ptrace") \union
  Rule(ev.type = "CONNECT" /\ isShellComm(ev.comm) /\ recent, "reverse-shell-pattern")

JudgedExec(ev) == ev.type = "EXEC" /\ ~Allowed(ev)
DueAlerts(ev, recent) == IF Allowed(ev) THEN {} ELSE Grounds(ev, recent) \ DisabledRules
AgeInWindow(age) == IF Recent(age) THEN age ELSE ShellWindow
Engine == INSTANCE Verdicts
            WITH Window <- ShellWindow, Counts <- JudgedExec, Verdict <- DueAlerts,
                 current <- event, open <- pc = "connect", findings <- alerts,
                 age <- [t \in Tgids |-> AgeInWindow(judged[t])]
ImplementsVerdicts == Engine!VerdictSpec

(* The memory of a process that execs no more is given back.                *)
OldExecForgotten ==
  \A t \in Tgids : procs[t] > Ttl ~> procs[t] <= Ttl

(* CONFIGURATION.md: "An allowed process name or executable suppresses      *)
(* detections generated for that event."  It does not change what is found  *)
(* for other events: a shell not allowed itself, that connects within the   *)
(* window after its exec, is reported.                                      *)
AllowlistOnlySilencesItsEvent ==
  [][Deciding /\ isShellComm(event.comm) /\ Recent(seen[event.tgid])
       /\ "reverse-shell-pattern" \notin DisabledRules
     => "reverse-shell-pattern" \in alerts']_vars
=============================================================================
