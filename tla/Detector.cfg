\* A tgid whose execs are handled, repeated, allowed and reaped.  Ages reach
\* past the ttl; the reaper runs before and after the window closes.
SPECIFICATION Spec
CONSTANTS
  Tgids = {t1}
  Ttl = 3
  ShellWindow = 2
  ReaperPeriod = 2
  AllowedComms = {"curl"}
  AllowedExecutables = {"/opt/tool"}
  DisabledRules = {"sensitive-file-access", "bpf-program-load"}
INVARIANTS
  TypeOK
  FlaggedEventAlerts
PROPERTIES
  RecentShellReported
  ImplementsVerdicts
  OldExecForgotten
