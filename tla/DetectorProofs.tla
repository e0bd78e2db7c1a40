--------------------------- MODULE DetectorProofs ---------------------------
(***************************************************************************)
(* The safety properties of Detector for any number of tgids, any policy   *)
(* and any ttl, window and reaper period.  The correlation of a connect    *)
(* with an earlier exec rests on two facts: what procs remembers is the    *)
(* age of the last exec, for as long as it is needed (Remembers), and the  *)
(* copy that handleConnect took is still true when it decides (Copied).    *)
(* With them, the detector is shown to implement Verdicts, step by step.   *)
(***************************************************************************)
EXTENDS Detector, TLAPS

Remembers ==
  \A t \in Tgids :
    /\ procs[t] # NoExec => procs[t] = judged[t]
    /\ judged[t] \in 0..Ttl => procs[t] = judged[t]

Copied ==
  pc = "connect" =>
    /\ event.type = "CONNECT" /\ ~Allowed(event)
    /\ st # NoExec => st = judged[event.tgid]
    /\ judged[event.tgid] \in 0..Ttl => st = judged[event.tgid]

Inv == TypeOK /\ FlaggedEventAlerts /\ Remembers /\ Copied

-----------------------------------------------------------------------------
(* Events *)

(* An event has only flags of its type, and its tgid is one of Tgids.       *)
LEMMA EventHasItsFlags ==
  ASSUME NEW ev \in Events
  PROVE  /\ ev.type \in DOMAIN FlagsOfType
         /\ ev.tgid \in Tgids
         /\ ev.flags \subseteq FlagsOfType[ev.type]
<1>1. PICK type \in DOMAIN FlagsOfType : ev \in EventsOfType(type)
  BY DEF Events
<1> QED
  BY <1>1 DEF EventsOfType

LEMMA TypesOfEvents ==
  DOMAIN FlagsOfType =
    {"EXEC", "OPEN", "CONNECT", "ACCEPT", "LISTEN", "MPROTECT", "VM_WRITEV", "MODULE_LOAD",
     "BPF", "PRIVESC", "SOCKET_CREATE", "UNLINK", "SETNS", "PTRACE", "MEMFD", "PACKET"}
BY DEF FlagsOfType

(* The rules of an exec's flags, and of a connect's.                        *)
LEMMA ExecFlagsJudged ==
  ASSUME NEW ev \in Events, ev.type = "EXEC", NEW flag \in ev.flags
  PROVE  RuleOfFlag[flag] \in handleExec(ev)
<1>1. flag \in {"LD_PRELOAD_FOUND", "FILELESS_EXEC"}
  BY EventHasItsFlags DEF FlagsOfType
<1> QED
  BY <1>1 DEF handleExec, Rule, RuleOfFlag

LEMMA ConnectFlags ==
  ASSUME NEW ev \in Events, ev.type = "CONNECT", NEW flag \in ev.flags
  PROVE  flag = "REVERSE_SHELL_LIKELY" /\ RuleOfFlag[flag] = "reverse-shell-pattern"
<1>1. flag = "REVERSE_SHELL_LIKELY"
  BY EventHasItsFlags DEF FlagsOfType
<1> QED
  BY <1>1 DEF RuleOfFlag

(* Two switches, and each flag arrives at its rule.                         *)
LEMMA OtherFlagsJudged ==
  ASSUME NEW ev \in Events, ev.type \notin {"EXEC", "CONNECT"}, NEW flag \in ev.flags
  PROVE  RuleOfFlag[flag] \in Judge(ev)
<1>1. flag \in FlagsOfType[ev.type]
  BY EventHasItsFlags
<1>2. ev.type \in DOMAIN FlagsOfType
  BY EventHasItsFlags
<1>3. CASE ev.type = "OPEN"
  <2>1. flag = "PERSISTENCE_WRITE"
    BY <1>1, <1>3 DEF FlagsOfType
  <2> QED
    BY <1>3, <2>1 DEF Judge, handleOpen, Rule, RuleOfFlag
<1>4. CASE ev.type = "ACCEPT"
  <2>1. flag = "BIND_SHELL_LIKELY"
    BY <1>1, <1>4 DEF FlagsOfType
  <2> QED
    BY <1>4, <2>1 DEF Judge, handleAccept, Rule, RuleOfFlag
<1>5. CASE ev.type = "LISTEN"
  <2>1. flag = "UNEXPECTED_LISTENER"
    BY <1>1, <1>5 DEF FlagsOfType
  <2> QED
    BY <1>5, <2>1 DEF Judge, handleListen, Rule, RuleOfFlag
<1>6. CASE ev.type = "MPROTECT"
  <2>1. flag = "WX_BYPASS"
    BY <1>1, <1>6 DEF FlagsOfType
  <2> QED
    BY <1>6, <2>1 DEF Judge, handleMprotect, Rule, RuleOfFlag
<1>7. CASE ev.type = "VM_WRITEV"
  <2>1. flag = "CROSS_PROCESS_INJECT"
    BY <1>1, <1>7 DEF FlagsOfType
  <2> QED
    BY <1>7, <2>1 DEF Judge, handleVmWritev, Rule, RuleOfFlag
<1>8. CASE ev.type \in {"MODULE_LOAD", "BPF", "PRIVESC", "SOCKET_CREATE", "UNLINK", "SETNS"}
  <2>1. ev.flags = {flag}
    BY <1>1, <1>8, EventHasItsFlags DEF FlagsOfType
  <2>2. Judge(ev) = handleKernelSecurityEvent(ev)
    BY <1>8 DEF Judge
  <2>3. flag \in {"KERNEL_MODULE_LOAD", "UNAUTHORIZED_BPF", "PRIVESC_TO_ROOT", "RAW_SOCKET",
                  "SELF_DELETE", "NAMESPACE_MANIPULATION"}
    BY <1>1, <1>8 DEF FlagsOfType
  <2>4. RuleOfFlag[flag] \in handleKernelSecurityEvent(ev)
    BY <2>1, <2>3 DEF handleKernelSecurityEvent, RuleOfFlag
  <2> QED
    BY <2>2, <2>4
<1>9. CASE ev.type \in {"PTRACE", "MEMFD", "PACKET"}
  BY <1>1, <1>9 DEF FlagsOfType
<1> QED
  BY <1>2, <1>3, <1>4, <1>5, <1>6, <1>7, <1>8, <1>9, TypesOfEvents

(* Policy lets through what it does not forbid, and nothing else.           *)
LEMMA EmittedByPolicy ==
  ASSUME NEW ev, NEW rules
  PROVE  /\ Emitted(ev, rules) \intersect DisabledRules = {}
         /\ ~Allowed(ev) => Emitted(ev, rules) = rules \ DisabledRules
BY DEF Emitted, Allowed

-----------------------------------------------------------------------------
(* Ages *)

LEMMA OlderAges ==
  ASSUME NEW age \in Ages \union {NoExec}
  PROVE  /\ Older(age) \in Ages \union {NoExec}
         /\ Older(age) = NoExec <=> age = NoExec
         /\ Older(age) \in 0..Ttl => age \in 0..Ttl
BY DetectorAssumption DEF Older, Ages, NoExec

-----------------------------------------------------------------------------
LEMMA InvariantInit == Init => Inv
<1> SUFFICES ASSUME Init PROVE Inv
  OBVIOUS
<1>1. event \in Events /\ event.flags = {}
  BY TypesOfEvents DEF Init, Events, EventsOfType, FlagsOfType
<1>2. TypeOK
  BY <1>1, DetectorAssumption DEF Init, TypeOK
<1>3. FlaggedEventAlerts
  BY <1>1 DEF FlaggedEventAlerts
<1>4. Remembers /\ Copied
  BY DEF Init, Remembers, Copied, NoExec
<1> QED
  BY <1>2, <1>3, <1>4 DEF Inv

LEMMA InvariantHandleAllowed ==
  ASSUME Inv, NEW ev \in Events, HandleAllowed(ev)
  PROVE  Inv'
<1>1. /\ UNCHANGED <<procs, judged, pc, st, reaper>> /\ pc = "idle"
      /\ event' = ev /\ alerts' = {} /\ Allowed(ev)
  BY DEF HandleAllowed, Notes
<1>2. seen' \in [Tgids -> Ages \union {NoExec}]
  BY EventHasItsFlags, DetectorAssumption DEF HandleAllowed, Notes, Inv, TypeOK, Ages
<1>3. TypeOK'
  BY <1>1, <1>2 DEF Inv, TypeOK
<1>4. FlaggedEventAlerts'
  BY <1>1 DEF FlaggedEventAlerts, Allowed
<1>5. Remembers' /\ Copied'
  BY <1>1 DEF Inv, Remembers, Copied
<1> QED
  BY <1>3, <1>4, <1>5 DEF Inv

LEMMA InvariantHandleExec ==
  ASSUME Inv, NEW ev \in Events, HandleExec(ev)
  PROVE  Inv'
<1>1. /\ procs' = [procs EXCEPT ![ev.tgid] = 0] /\ judged' = [judged EXCEPT ![ev.tgid] = 0]
      /\ seen' = [seen EXCEPT ![ev.tgid] = 0]
      /\ UNCHANGED <<pc, st, reaper>> /\ pc = "idle" /\ ev.type = "EXEC"
      /\ event' = ev /\ alerts' = Emitted(ev, handleExec(ev)) /\ ~Allowed(ev)
  BY DEF HandleExec, Notes
<1>2. 0 \in Ages
  BY DetectorAssumption DEF Ages
<1>3. alerts' = handleExec(ev) \ DisabledRules
  BY <1>1, EmittedByPolicy
<1>4. TypeOK'
  BY <1>1, <1>2, <1>3 DEF Inv, TypeOK, Allowed
<1>5. FlaggedEventAlerts'
  BY <1>1, <1>3, ExecFlagsJudged DEF FlaggedEventAlerts
<1>6. Remembers'
  BY <1>1, EventHasItsFlags DEF Inv, TypeOK, Remembers
<1>7. Copied'
  BY <1>1 DEF Copied
<1> QED
  BY <1>4, <1>5, <1>6, <1>7 DEF Inv

LEMMA InvariantHandleOther ==
  ASSUME Inv, NEW ev \in Events, HandleOther(ev)
  PROVE  Inv'
<1>1. /\ UNCHANGED <<procs, pc, st, reaper, judged, seen>> /\ pc = "idle"
      /\ ev.type \notin {"EXEC", "CONNECT"}
      /\ event' = ev /\ alerts' = Emitted(ev, Judge(ev)) /\ ~Allowed(ev)
  BY DEF HandleOther
<1>2. alerts' = Judge(ev) \ DisabledRules
  BY <1>1, EmittedByPolicy
<1>3. TypeOK'
  BY <1>1, <1>2 DEF Inv, TypeOK, Allowed
<1>4. FlaggedEventAlerts'
  BY <1>1, <1>2, OtherFlagsJudged DEF FlaggedEventAlerts
<1>5. Remembers' /\ Copied'
  BY <1>1 DEF Inv, Remembers, Copied
<1> QED
  BY <1>3, <1>4, <1>5 DEF Inv

LEMMA InvariantConnectLookup ==
  ASSUME Inv, NEW ev \in Events, ConnectLookup(ev)
  PROVE  Inv'
<1>1. /\ UNCHANGED <<procs, reaper, judged, seen>> /\ st' = procs[ev.tgid] /\ pc' = "connect"
      /\ ev.type = "CONNECT" /\ event' = ev /\ alerts' = {} /\ ~Allowed(ev)
  BY DEF ConnectLookup
<1>2. ev.tgid \in Tgids
  BY EventHasItsFlags
<1>3. TypeOK'
  BY <1>1, <1>2 DEF Inv, TypeOK
<1>4. FlaggedEventAlerts'
  BY <1>1 DEF FlaggedEventAlerts
<1>5. Remembers' /\ Copied'
  BY <1>1, <1>2 DEF Inv, Remembers, Copied, Allowed
<1> QED
  BY <1>3, <1>4, <1>5 DEF Inv

(* What is decided, in one place for the invariant and the properties.      *)
LEMMA Decision ==
  ASSUME Inv, ConnectDecide
  PROVE  /\ event.tgid \in Tgids /\ event.type = "CONNECT" /\ ~Allowed(event)
         /\ recentExec <=> Recent(judged[event.tgid])
         /\ alerts' = Rule("REVERSE_SHELL_LIKELY" \in event.flags \/ recentShell,
                           "reverse-shell-pattern") \ DisabledRules
<1>1. pc = "connect" /\ event \in Events
  BY DEF ConnectDecide, Inv, TypeOK
<1>2. event.tgid \in Tgids /\ event.type = "CONNECT" /\ ~Allowed(event)
  BY <1>1, EventHasItsFlags DEF Inv, Copied
<1>3. recentExec <=> Recent(judged[event.tgid])
  <2>1. judged[event.tgid] \in Ages \union {NoExec}
    BY <1>2 DEF Inv, TypeOK
  <2>2. Recent(judged[event.tgid]) => judged[event.tgid] \in 0..Ttl
    BY <2>1, DetectorAssumption DEF Recent, Ages, NoExec
  <2> QED
    BY <1>1, <2>2 DEF recentExec, Recent, Inv, Copied
<1>4. alerts' = Emitted(event, Rule("REVERSE_SHELL_LIKELY" \in event.flags \/ recentShell,
                                    "reverse-shell-pattern"))
  BY DEF ConnectDecide
<1> QED
  BY <1>2, <1>3, <1>4, EmittedByPolicy

LEMMA InvariantConnectDecide ==
  ASSUME Inv, ConnectDecide
  PROVE  Inv'
<1>1. UNCHANGED <<procs, event, st, reaper, judged, seen>> /\ pc' = "idle"
  BY DEF ConnectDecide
<1>2. TypeOK'
  BY <1>1, Decision DEF Inv, TypeOK, Allowed
<1>3. FlaggedEventAlerts'
  <2>1. \A flag \in event.flags : RuleOfFlag[flag] \in alerts' \union DisabledRules
    BY Decision, ConnectFlags DEF Inv, TypeOK, Rule
  <2> QED
    BY <1>1, <2>1 DEF FlaggedEventAlerts
<1>4. Remembers' /\ Copied'
  BY <1>1 DEF Inv, Remembers, Copied
<1> QED
  BY <1>2, <1>3, <1>4 DEF Inv

LEMMA InvariantTick ==
  ASSUME Inv, Tick
  PROVE  Inv'
<1>1. /\ procs' = [t \in Tgids |-> Older(procs[t])] /\ judged' = [t \in Tgids |-> Older(judged[t])]
      /\ seen' = [t \in Tgids |-> Older(seen[t])] /\ st' = Older(st)
      /\ reaper' = (IF reaper > 0 THEN reaper - 1 ELSE 0)
      /\ UNCHANGED <<pc, event, alerts>>
  BY DEF Tick
<1>2. TypeOK'
  <2>1. reaper' \in 0..ReaperPeriod
    BY <1>1, DetectorAssumption DEF Inv, TypeOK
  <2> QED
    BY <1>1, <2>1, OlderAges DEF Inv, TypeOK, Allowed
<1>3. FlaggedEventAlerts'
  BY <1>1 DEF Inv, FlaggedEventAlerts, Allowed
<1>4. Remembers'
  BY <1>1, OlderAges DEF Inv, TypeOK, Remembers
<1>5. Copied'
  <2> SUFFICES ASSUME pc = "connect" PROVE Copied'
    BY <1>1 DEF Copied
  <2>1. event.tgid \in Tgids
    BY EventHasItsFlags DEF Inv, TypeOK
  <2> QED
    BY <1>1, <2>1, OlderAges DEF Inv, TypeOK, Copied, Allowed
<1> QED
  BY <1>2, <1>3, <1>4, <1>5 DEF Inv

LEMMA InvariantReap ==
  ASSUME Inv, Reap
  PROVE  Inv'
<1>1. /\ procs' = [t \in Tgids |-> IF Expired(procs[t]) THEN NoExec ELSE procs[t]]
      /\ reaper' = ReaperPeriod
      /\ UNCHANGED <<pc, event, st, alerts, judged, seen>>
  BY DEF Reap
<1>2. TypeOK'
  BY <1>1, DetectorAssumption DEF Inv, TypeOK, Allowed
<1>3. FlaggedEventAlerts'
  BY <1>1 DEF Inv, FlaggedEventAlerts, Allowed
<1>4. Remembers'
  BY <1>1, DetectorAssumption DEF Inv, TypeOK, Remembers, Expired
<1>5. Copied'
  BY <1>1 DEF Inv, Copied, Allowed
<1> QED
  BY <1>2, <1>3, <1>4, <1>5 DEF Inv

LEMMA InvariantStep == Inv /\ [Next]_vars => Inv'
<1> SUFFICES ASSUME Inv, [Next]_vars PROVE Inv'
  OBVIOUS
<1>1. ASSUME NEW ev \in Events, Handle(ev) PROVE Inv'
  BY <1>1, InvariantHandleAllowed, InvariantHandleExec, InvariantHandleOther,
     InvariantConnectLookup DEF Handle
<1>2. CASE UNCHANGED vars
  BY <1>2 DEF vars, Inv, TypeOK, FlaggedEventAlerts, Remembers, Copied, Allowed
<1> QED
  BY <1>1, <1>2, InvariantConnectDecide, InvariantTick, InvariantReap DEF Next

LEMMA Invariant == Spec => []Inv
BY InvariantInit, InvariantStep, PTL DEF Spec

(* Only handleConnect's second half goes from its lookup to idle.           *)
LEMMA DecidingIsConnectDecide ==
  ASSUME [Next]_vars, Deciding
  PROVE  ConnectDecide
<1>1. pc = "connect" /\ pc' = "idle"
  BY DEF Deciding
<1> QED
  BY <1>1 DEF Next, vars, Handle, HandleAllowed, HandleExec, HandleOther, ConnectLookup,
              Tick, Reap

(* Types, and policy: no alert of a disabled rule (emit) and none for an    *)
(* event that policy allows (Handle).                                       *)
THEOREM TypeCorrect == Spec => []TypeOK
BY Invariant, PTL DEF Inv

(* The dispatch of Handle and the switch of handleKernelSecurityEvent lose  *)
(* no flag of the kernel.                                                   *)
THEOREM FlagsReachAlerts == Spec => []FlaggedEventAlerts
BY Invariant, PTL DEF Inv

(* handleConnect never misses a shell that connects within the window of    *)
(* its exec, although it decides on a copy while the reaper and the clock   *)
(* go on.                                                                   *)
THEOREM RecentShellsFound == Spec => RecentShellReported
<1> DEFINE Found == Deciding /\ isShellComm(event.comm) /\ Recent(judged[event.tgid])
                      /\ "reverse-shell-pattern" \notin DisabledRules
                    => "reverse-shell-pattern" \in alerts'
<1>1. Inv /\ [Next]_vars => [Found]_vars
  BY DecidingIsConnectDecide, Decision DEF recentShell, Rule
<1> QED
  BY <1>1, Invariant, PTL DEF Spec, RecentShellReported

-----------------------------------------------------------------------------
(* The refinement *)

(* The handlers find what there is ground for, and nothing else: by type of *)
(* event, each flag gives its rule and each rule has its flag.              *)
LEMMA ExecGrounds ==
  ASSUME NEW ev \in Events, ev.type = "EXEC", NEW recent
  PROVE  Grounds(ev, recent) = handleExec(ev)
<1>1. ev.flags \subseteq {"LD_PRELOAD_FOUND", "FILELESS_EXEC"}
  BY EventHasItsFlags DEF FlagsOfType
<1>2. \A rule : (\E flag \in ev.flags : rule = RuleOfFlag[flag])
        <=> \/ "LD_PRELOAD_FOUND" \in ev.flags /\ rule = "ld-preload-injection"
            \/ "FILELESS_EXEC" \in ev.flags /\ rule = "fileless-execution"
  BY <1>1 DEF RuleOfFlag
<1>3. \A rule : rule \in Grounds(ev, recent) <=> rule \in handleExec(ev)
  BY <1>2 DEF Grounds, handleExec, Rule
<1> QED
  BY <1>3

LEMMA ConnectGrounds ==
  ASSUME NEW ev \in Events, ev.type = "CONNECT", NEW recent
  PROVE  Grounds(ev, recent) =
           Rule("REVERSE_SHELL_LIKELY" \in ev.flags \/ (isShellComm(ev.comm) /\ recent),
                "reverse-shell-pattern")
<1>1. \A rule : (\E flag \in ev.flags : rule = RuleOfFlag[flag])
        <=> "REVERSE_SHELL_LIKELY" \in ev.flags /\ rule = "reverse-shell-pattern"
  BY ConnectFlags
<1>2. \A rule : rule \in Grounds(ev, recent) <=>
        rule \in Rule("REVERSE_SHELL_LIKELY" \in ev.flags \/ (isShellComm(ev.comm) /\ recent),
                      "reverse-shell-pattern")
  BY <1>1 DEF Grounds, Rule
<1> QED
  BY <1>2

(* Of the other types, an event has one flag at most.                       *)
LEMMA OtherGrounds ==
  ASSUME NEW ev \in Events, ev.type \notin {"EXEC", "CONNECT"}, NEW recent
  PROVE  Grounds(ev, recent) = Judge(ev)
<1> DEFINE Flagged(rule) == \E flag \in ev.flags : rule = RuleOfFlag[flag]
<1>1. ev.type \in DOMAIN FlagsOfType /\ ev.flags \subseteq FlagsOfType[ev.type]
  BY EventHasItsFlags
<1>2. \A rule : rule \in Grounds(ev, recent) <=>
        \/ Flagged(rule)
        \/ ev.type = "OPEN" /\ sensitivePaths(ev.file) /\ rule = "sensitive-file-access"
        \/ ev.type = "PTRACE" /\ ~isDebuggerComm(ev.comm) /\ rule = "unexpected-ptrace"
  BY DEF Grounds, Rule
<1>3. CASE ev.type = "OPEN"
  <2>1. \A rule : Flagged(rule) <=> "PERSISTENCE_WRITE" \in ev.flags /\ rule = "persistence-write"
    BY <1>1, <1>3 DEF FlagsOfType, RuleOfFlag
  <2> QED
    BY <1>2, <1>3, <2>1 DEF Judge, handleOpen, Rule
<1>4. CASE ev.type = "ACCEPT"
  <2>1. \A rule : Flagged(rule) <=> "BIND_SHELL_LIKELY" \in ev.flags /\ rule = "bind-shell-pattern"
    BY <1>1, <1>4 DEF FlagsOfType, RuleOfFlag
  <2> QED
    BY <1>2, <1>4, <2>1 DEF Judge, handleAccept, Rule
<1>5. CASE ev.type = "LISTEN"
  <2>1. \A rule : Flagged(rule) <=> "UNEXPECTED_LISTENER" \in ev.flags /\ rule = "unexpected-listener"
    BY <1>1, <1>5 DEF FlagsOfType, RuleOfFlag
  <2> QED
    BY <1>2, <1>5, <2>1 DEF Judge, handleListen, Rule
<1>6. CASE ev.type = "MPROTECT"
  <2>1. \A rule : Flagged(rule) <=> "WX_BYPASS" \in ev.flags /\ rule = "wx-memory-bypass"
    BY <1>1, <1>6 DEF FlagsOfType, RuleOfFlag
  <2> QED
    BY <1>2, <1>6, <2>1 DEF Judge, handleMprotect, Rule
<1>7. CASE ev.type = "VM_WRITEV"
  <2>1. \A rule : Flagged(rule) <=> /\ "CROSS_PROCESS_INJECT" \in ev.flags
                                    /\ rule = "cross-process-memory-write"
    BY <1>1, <1>7 DEF FlagsOfType, RuleOfFlag
  <2> QED
    BY <1>2, <1>7, <2>1 DEF Judge, handleVmWritev, Rule
<1>8. CASE ev.type \in {"MODULE_LOAD", "BPF", "PRIVESC", "SOCKET_CREATE", "UNLINK", "SETNS"}
  <2>1. \A rule : rule \in Grounds(ev, recent) <=> Flagged(rule)
    BY <1>2, <1>8
  <2>2. Judge(ev) = handleKernelSecurityEvent(ev)
    BY <1>8 DEF Judge
  <2>3. CASE ev.flags = {}
    <3>1. handleKernelSecurityEvent(ev) = {}
      BY <2>3 DEF handleKernelSecurityEvent
    <3> QED
      BY <2>1, <2>2, <2>3, <3>1
  <2>4. ASSUME NEW flag \in ev.flags PROVE Grounds(ev, recent) = Judge(ev)
    <3>1. ev.flags = {flag}
      BY <1>1, <1>8, <2>4 DEF FlagsOfType
    <3>2. flag \in {"KERNEL_MODULE_LOAD", "UNAUTHORIZED_BPF", "PRIVESC_TO_ROOT", "RAW_SOCKET",
                    "SELF_DELETE", "NAMESPACE_MANIPULATION"}
      BY <1>1, <1>8, <2>4 DEF FlagsOfType
    <3>3. handleKernelSecurityEvent(ev) = {RuleOfFlag[flag]}
      BY <3>1, <3>2 DEF handleKernelSecurityEvent, RuleOfFlag
    <3> QED
      BY <2>1, <2>2, <3>1, <3>3
  <2> QED
    BY <2>3, <2>4
<1>9. CASE ev.type = "PTRACE"
  <2>1. \A rule : ~Flagged(rule)
    BY <1>1, <1>9 DEF FlagsOfType
  <2> QED
    BY <1>2, <1>9, <2>1 DEF Judge, handlePtrace, Rule
<1>10. CASE ev.type \in {"MEMFD", "PACKET"}
  <2>1. ev.flags = {}
    BY <1>1, <1>10 DEF FlagsOfType
  <2>2. Judge(ev) = {}
    BY <1>10, <2>1 DEF Judge, handleKernelSecurityEvent
  <2> QED
    BY <1>2, <1>10, <2>1, <2>2
<1> QED
  BY <1>1, <1>3, <1>4, <1>5, <1>6, <1>7, <1>8, <1>9, <1>10, TypesOfEvents

(* The tgids' times in the window, as the abstract engine has them.         *)
Age == [t \in Tgids |-> AgeInWindow(judged[t])]

(* After an event that is no exec policy lets through, the times are as     *)
(* they were; after one, its tgid's is zero.                                *)
LEMMA NotedAges ==
  ASSUME TypeOK, NEW ev \in Events,
         judged' = IF JudgedExec(ev) THEN [judged EXCEPT ![ev.tgid] = 0] ELSE judged
  PROVE  Age' = Engine!Noted(ev)
<1>1. ev.tgid \in Tgids
  BY EventHasItsFlags
<1>2. AgeInWindow(0) = 0
  BY DetectorAssumption DEF AgeInWindow, Recent, NoExec
<1> QED
  BY <1>1, <1>2 DEF TypeOK, Age, Engine!Noted

LEMMA RecentAge ==
  ASSUME TypeOK, NEW t \in Tgids
  PROVE  Age[t] < ShellWindow <=> Recent(judged[t])
BY DetectorAssumption DEF TypeOK, Age, AgeInWindow, Recent, Ages, NoExec

(* Policy, twice in the code, is one filter on the grounds.                 *)
LEMMA HandledIsTaken ==
  ASSUME Inv, NEW ev \in Events, Handle(ev)
  PROVE  Engine!Take
<1>1. /\ pc = "idle" /\ event' = ev
      /\ judged' = IF JudgedExec(ev) THEN [judged EXCEPT ![ev.tgid] = 0] ELSE judged
  BY DEF Handle, HandleAllowed, HandleExec, HandleOther, ConnectLookup, Notes, JudgedExec
<1>2. Age' = Engine!Noted(ev)
  BY <1>1, NotedAges DEF Inv
<1>3. \/ pc' = "idle" /\ \A recent : alerts' = DueAlerts(ev, recent)
      \/ pc' = "connect" /\ alerts' = {}
  <2>1. CASE HandleAllowed(ev)
    BY <2>1, <1>1 DEF HandleAllowed, DueAlerts
  <2>2. CASE HandleExec(ev)
    BY <2>2, <1>1, ExecGrounds, EmittedByPolicy DEF HandleExec, DueAlerts
  <2>3. CASE HandleOther(ev)
    BY <2>3, <1>1, OtherGrounds, EmittedByPolicy DEF HandleOther, DueAlerts
  <2>4. CASE ConnectLookup(ev)
    BY <2>4 DEF ConnectLookup
  <2> QED
    BY <2>1, <2>2, <2>3, <2>4 DEF Handle
<1>4. \/ (pc' = "connect") = FALSE
         /\ alerts' = DueAlerts(event', Engine!Recently(Engine!Noted(event'), event'))
      \/ (pc' = "connect") = TRUE /\ alerts' = {}
  BY <1>1, <1>3
<1> QED
  BY <1>1, <1>2, <1>4 DEF Engine!Take, Age

(* The decision on the copy is the verdict on the true age.                 *)
LEMMA DecisionConcludes ==
  ASSUME Inv, ConnectDecide
  PROVE  Engine!Conclude
<1>1. pc = "connect" /\ pc' = "idle" /\ event \in Events /\ UNCHANGED <<event, judged>>
  BY DEF ConnectDecide, Inv, TypeOK
<1>2. Age' = Age
  BY <1>1 DEF Age
<1>3. Engine!Recently(Age, event) <=> recentExec
  BY Decision, RecentAge DEF Inv, Engine!Recently
<1>4. alerts' = DueAlerts(event, Engine!Recently(Age, event))
  BY <1>1, <1>3, Decision, ConnectGrounds DEF recentShell, DueAlerts
<1> QED
  BY <1>1, <1>2, <1>4 DEF Engine!Conclude, Age

LEMMA TickPasses ==
  ASSUME Inv, Tick
  PROVE  Engine!Pass
<1>1. judged' = [t \in Tgids |-> Older(judged[t])] /\ UNCHANGED <<pc, event, alerts>>
  BY DEF Tick
<1>2. ASSUME NEW t \in Tgids
      PROVE  AgeInWindow(Older(judged[t])) =
               IF AgeInWindow(judged[t]) < ShellWindow THEN AgeInWindow(judged[t]) + 1
               ELSE ShellWindow
  BY DetectorAssumption DEF Inv, TypeOK, AgeInWindow, Recent, Older, Ages, NoExec
<1>3. Age' = [t \in Tgids |-> IF Age[t] < ShellWindow THEN Age[t] + 1 ELSE ShellWindow]
  BY <1>1, <1>2 DEF Age
<1> QED
  BY <1>1, <1>3 DEF Engine!Pass, Age

(* The detection engine implements the abstract one: the reaper, the ttl,   *)
(* the copy and the second half of handleConnect make no difference to any  *)
(* alert.                                                                   *)
THEOREM DetectorGivesVerdicts == Spec => ImplementsVerdicts
<1>1. Init => Engine!VerdictInit
  <2> SUFFICES ASSUME Init PROVE Engine!VerdictInit
    OBVIOUS
  <2>1. event \in Events
    BY InvariantInit DEF Inv, TypeOK
  <2>2. Age = [t \in Tgids |-> ShellWindow]
    BY DEF Init, Age, AgeInWindow, Recent
  <2> QED
    BY <2>1, <2>2 DEF Init, Engine!VerdictInit, Age
<1>2. Inv /\ [Next]_vars => [Engine!VerdictNext]_(Engine!verdictVars)
  <2> SUFFICES ASSUME Inv, [Next]_vars PROVE [Engine!VerdictNext]_(Engine!verdictVars)
    OBVIOUS
  <2>1. ASSUME NEW ev \in Events, Handle(ev) PROVE Engine!VerdictNext
    BY <2>1, HandledIsTaken DEF Engine!VerdictNext
  <2>2. CASE ConnectDecide
    BY <2>2, DecisionConcludes DEF Engine!VerdictNext
  <2>3. CASE Tick
    BY <2>3, TickPasses DEF Engine!VerdictNext
  <2>4. CASE Reap \/ UNCHANGED vars
    BY <2>4 DEF Reap, vars, Engine!verdictVars
  <2> QED
    BY <2>1, <2>2, <2>3, <2>4 DEF Next
<1> QED
  BY <1>1, <1>2, Invariant, PTL DEF Spec, ImplementsVerdicts, Engine!VerdictSpec

(* A reverse-shell alert has its ground at the time it is raised: the       *)
(* kernel's flag, or a shell comm and an exec inside the window.            *)
ReverseShellHasGround ==
  [][Deciding /\ "reverse-shell-pattern" \in alerts'
     => \/ "REVERSE_SHELL_LIKELY" \in event.flags
        \/ isShellComm(event.comm) /\ Recent(judged[event.tgid])]_vars

(* What handleConnect reports has its ground at that time.                  *)
THEOREM ReverseShellGrounded == Spec => ReverseShellHasGround
<1> DEFINE Grounded == Deciding /\ "reverse-shell-pattern" \in alerts'
                       => \/ "REVERSE_SHELL_LIKELY" \in event.flags
                          \/ isShellComm(event.comm) /\ Recent(judged[event.tgid])
<1>1. Inv /\ [Next]_vars => [Grounded]_vars
  BY DecidingIsConnectDecide, Decision DEF recentShell, Rule
<1> QED
  BY <1>1, Invariant, PTL DEF Spec, ReverseShellHasGround
=============================================================================
