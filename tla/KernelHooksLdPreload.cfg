\* One CPU and one tgid are enough to show it.
SPECIFICATION Spec
CONSTANTS
  Cpus = {c1}
  Tgids = {t1}
  StatelessTypes = {"OPEN"}
INVARIANTS
  LdPreloadFlagged
