\* Two threads of one process, on two CPUs, while its tgid is used again by
\* other processes and its map entries are evicted.  Every program runs.
SPECIFICATION Spec
CONSTANTS
  Cpus = {c1, c2}
  Tgids = {t1}
  StatelessTypes = {"OPEN", "MODULE_LOAD", "BPF", "PRIVESC", "SOCKET_CREATE", "SETNS",
                    "PACKET", "ACCEPT", "LISTEN", "PTRACE", "MPROTECT", "VM_WRITEV"}
SYMMETRY CpuSymmetry
INVARIANTS
  TypeOK
  SubmitsOwnEvent
  MemfdThenExecFlagged
  
