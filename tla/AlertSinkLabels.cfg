\* One alert is enough to show it.
SPECIFICATION Spec
CONSTANTS
  Rules = {"reverse-shell-pattern", "sensitive-file-access"}
  StoreCap = 2
  QueueCap = 1
  MaxAlerts = 2
INVARIANT CountedByRule
CHECK_DEADLOCK FALSE
