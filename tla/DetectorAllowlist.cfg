\* An nginx that execs a shell, both comms in play; nginx alone is allowed,
\* as in the example of CONFIGURATION.md.
SPECIFICATION Spec
CONSTANTS
  Tgids = {t1}
  Ttl = 3
  ShellWindow = 2
  ReaperPeriod = 2
  AllowedComms = {"nginx"}
  AllowedExecutables = {}
  DisabledRules = {}
PROPERTY AllowlistOnlySilencesItsEvent
